------------------------------ MODULE Planner ------------------------------
(***************************************************************************)
(* The diff-aware planner of planner/diff_planner.go as operators on data: *)
(* discovery of the Go modules of a checkout, impact of a set of changed   *)
(* paths, the jobs of the plan.                                            *)
(*                                                                         *)
(* A path is the sequence of its names; a directory is a path, <<>> the    *)
(* repository root.  A checkout is what the planner reads of the working   *)
(* tree, its build files only:                                             *)
(*   readable  the directory walk reports no error                         *)
(*   config    ci.ai.yaml is present                                       *)
(*   sums      go.sum or go.work.sum is present at the root                *)
(*   work      go.work is present; uses: the directories it lists, empty   *)
(*             when it cannot be parsed, <<"..">> for one outside          *)
(*   mods      the go.mod files, by path: directory, module path (NoModule *)
(*             when the file does not parse) and required modules          *)
(* A project is one Go module; a job is build, test or lint of one.        *)
(***************************************************************************)
EXTENDS SequencesExt

NoModule == ""

skipDirs == {".git", "node_modules", "vendor", ".cache"}

MarkdownNames == {"README.md", "CONTRIBUTING.md", "notes.md"}

GlobalNames == {"ci.ai.yaml", "go.mod", "go.sum", "go.work", "go.work.sum", "Makefile", "Dockerfile"}

\* A checkout as a walk finds it: every file once, every path a sequence.
IsSequence(s) == s \in Seq(ToSet(s))

IsCheckout(tree) ==
    /\ tree = [readable |-> tree.readable, config |-> tree.config, sums |-> tree.sums,
               work |-> tree.work, uses |-> tree.uses, mods |-> tree.mods]
    /\ {tree.readable, tree.config, tree.sums, tree.work} \subseteq BOOLEAN
    /\ IsSequence(tree.uses) /\ \A u \in ToSet(tree.uses) : IsSequence(u)
    /\ IsSequence(tree.mods)
    /\ \A m \in ToSet(tree.mods) : IsSequence(m.dir) /\ (m.dir = <<>> \/ Head(m.dir) # "..")
    /\ \A i, k \in DOMAIN tree.mods : tree.mods[i].dir = tree.mods[k].dir => i = k

-----------------------------------------------------------------------------
(* Discovery *)

\* The elements of s that are in T, in their order.
sublist(s, T) ==
    LET upTo[k \in 0 .. Len(s)] ==
            IF k = 0 THEN <<>>
            ELSE IF s[k] \in T THEN Append(upTo[k - 1], s[k]) ELSE upTo[k - 1]
    IN  upTo[Len(s)]

\* The go.mod files the walk finds (findFiles).
goMods(tree) == sublist(tree.mods, {m \in ToSet(tree.mods) : ToSet(m.dir) \cap skipDirs = {}})

\* The root module is called "root", which is also the name of a module in a
\* directory of that name.
projectNameFromRoot(dir) == IF dir = <<>> THEN <<"root">> ELSE dir

projectAt(dir, m) ==
    [name |-> projectNameFromRoot(dir), root |-> dir, path |-> m.path, requires |-> m.requires]

discoverGoProjectsFromGoMod(tree) ==
    IF tree.readable
    THEN [projects |-> [i \in DOMAIN goMods(tree) |-> projectAt(goMods(tree)[i].dir, goMods(tree)[i])],
          unknown  |-> \E m \in ToSet(goMods(tree)) : m.path = NoModule]
    ELSE [projects |-> <<>>, unknown |-> TRUE]

\* The go.mod of a listed directory, wherever it is; an empty one if missing.
modAt(tree, dir) ==
    LET Here == {m \in ToSet(tree.mods) : m.dir = dir}
    IN  IF Here = {} THEN [dir |-> dir, path |-> NoModule, requires |-> {}] ELSE CHOOSE m \in Here : TRUE

\* resolveGoWorkModule leaves out what lies outside the repository.
discoverGoProjectsFromGoWork(tree) ==
    LET inside == sublist(tree.uses, {u \in ToSet(tree.uses) : u = <<>> \/ Head(u) # ".."})
    IN  [projects |-> [i \in DOMAIN inside |-> projectAt(inside[i], modAt(tree, inside[i]))],
         unknown  |-> \/ Len(inside) < Len(tree.uses)
                      \/ \E u \in ToSet(inside) : modAt(tree, u).path = NoModule]

discoverGoProjects(tree) ==
    LET workspace == discoverGoProjectsFromGoWork(tree)
        walked    == discoverGoProjectsFromGoMod(tree)
    IN  CASE ~tree.work                                 -> walked
          [] tree.work /\ workspace.projects # <<>>     -> workspace
          [] OTHER                                      -> [walked EXCEPT !.unknown = TRUE]

hasGo(tree) ==
    \/ discoverGoProjects(tree).projects # <<>>
    \/ tree.work \/ tree.sums
    \/ \E m \in ToSet(tree.mods) : m.dir = <<>>

\* Seeded fault: only the build files at the root are hashed.
FingerprintOfRoot(tree) ==
    {[tree EXCEPT !.mods = sublist(goMods(tree), {m \in ToSet(goMods(tree)) : m.dir = <<>>})]}

\* The hash of every build file the walk finds, with its path; the empty set
\* when there is no file to hash or one cannot be read.
computeRepoFingerprint(tree) ==
    IF tree.readable /\ (tree.config \/ tree.sums \/ tree.work \/ goMods(tree) # <<>>)
    THEN {[tree EXCEPT !.mods = goMods(tree)]}
    ELSE {}

-----------------------------------------------------------------------------
(* Impact of a change *)

isDocsPath(p) == (Head(p) = "docs" /\ Len(p) > 1) \/ Last(p) \in MarkdownNames

isGlobalImpact(p) ==
    \/ Head(p) = ".github" /\ Len(p) > 1
    \/ Len(p) = 1 /\ Head(p) \in GlobalNames

isCodePath(p) == Last(p) \in {"main.go", "go.mod", "go.sum"}

projectNames(projects) == {q.name : q \in ToSet(projects)}

\* Seeded fault: the first project in discovery order that contains the path.
ownerInOrder(projects, p) ==
    LET Holders == {i \in DOMAIN projects : IsPrefix(projects[i].root, p)}
    IN  {projects[i].name : i \in {k \in Holders : \A n \in Holders : k <= n}}

\* The most specific project that contains the path, the root project last.
ownerForPath(projects, p) ==
    LET Holders == {q \in ToSet(projects) : IsPrefix(q.root, p)}
    IN  {q.name : q \in {h \in Holders : \A g \in Holders : Len(g.root) <= Len(h.root)}}

\* Of several projects with one module path the last one is indexed.
moduleIndex(projects, path) ==
    LET Of == {i \in DOMAIN projects : projects[i].path = path}
    IN  {projects[i].name : i \in {k \in Of : path # NoModule /\ \A n \in Of : n <= k}}

buildDependencyGraph(projects) ==
    [name \in projectNames(projects) |->
        {q.name : q \in {d \in ToSet(projects) : \E r \in d.requires : name \in moduleIndex(projects, r)}}]

\* Seeded fault: the queue is not fed, dependents of dependents are missed.
directDependents(impacted, projects) ==
    impacted \union UNION {buildDependencyGraph(projects)[n] : n \in impacted}

\* The loop of resolveImpactedProjects, the whole queue at a time.
withDependents(impacted, projects) ==
    LET dependents == buildDependencyGraph(projects)
        after[k \in 0 .. Len(projects)] ==
            IF k = 0 THEN impacted
            ELSE LET queue == after[k - 1] IN queue \union UNION {dependents[n] : n \in queue}
    IN  after[Len(projects)]

analyzeImpact(paths, projects, unknown) ==
    LET global == \/ unknown
                  \/ \E p \in paths : isGlobalImpact(p) \/ ownerForPath(projects, p) = {}
    IN  [docsOnly |-> \A p \in paths : isDocsPath(p),
         impacted |-> IF global THEN projectNames(projects)
                      ELSE withDependents(UNION {ownerForPath(projects, p) : p \in paths}, projects)]

-----------------------------------------------------------------------------
(* Plans.  A plan has its jobs, the names of the jobs it skips, the source  *)
(* of the decision, the fingerprint it was made for and the recipe used.    *)

\* Seeded fault: the job is named after its command alone.
jobNameOfBase(base, project, root) == <<base>>

jobNameForProject(base, project, root) ==
    IF project = <<"root">> \/ root = <<>> THEN <<base>> ELSE <<base, project>>

\* Of several projects with one name the last one gives the directory.
projectRoot(projects, name) ==
    LET Of == {i \in DOMAIN projects : projects[i].name = name}
    IN  IF Of = {} THEN <<>> ELSE projects[CHOOSE i \in Of : \A n \in Of : n <= i].root

jobsForProject(project, root, docsOnly) ==
    LET job(base, required, deps) ==
            [name |-> jobNameForProject(base, project, root), base |-> base, dir |-> root,
             required |-> required, deps |-> deps]
        build == job("build", TRUE, {})
    IN  {build} \union IF docsOnly THEN {}
                       ELSE {job("test", TRUE, {build.name}), job("lint", FALSE, {build.name})}

planForGo(impact, projects, fp) ==
    LET targets == CASE impact.impacted # {}        -> impact.impacted
                     [] impact.impacted = {} /\ projects # <<>> -> projectNames(projects)
                     [] OTHER                       -> {<<"root">>}
    IN  [jobs    |-> UNION {jobsForProject(t, projectRoot(projects, t), impact.docsOnly) : t \in targets},
         skipped |-> IF ~impact.docsOnly THEN {}
                     ELSE {jobNameForProject(b, t, projectRoot(projects, t)) : b \in {"test", "lint"}, t \in targets},
         source  |-> "discovery", fp |-> fp, recipe |-> {}]

\* StaticPlanner: the three jobs of the root, unordered.
StaticJobs == {[name |-> <<b>>, base |-> b, dir |-> <<>>, required |-> b # "lint", deps |-> {}] :
                  b \in {"build", "test", "lint"}}

staticPlan(source, fp) ==
    [jobs |-> StaticJobs, skipped |-> {}, source |-> source, fp |-> fp, recipe |-> {}]

\* found: the id and the jobs of the recipe the lookup returned, if any.
planFromRecipe(found, fp) ==
    [jobs |-> found.jobs, skipped |-> {}, source |-> "recipe", fp |-> fp, recipe |-> {found.id}]

\* Whether Plan asks for a recipe at all.
looksForRecipe(tree, fp) == ~tree.config /\ hasGo(tree) /\ fp # {}

\* DiffPlanner.Plan, once the checkout has been read (tree, then fp) and the
\* recipe lookup and git have answered; paths is empty when git cannot tell.
Plan(tree, fp, found, paths) ==
    LET go == discoverGoProjects(tree)
    IN  CASE tree.config -> staticPlan("config", fp)
          [] ~tree.config /\ hasGo(tree) /\ found # {} -> planFromRecipe(CHOOSE r \in found : TRUE, fp)
          [] ~tree.config /\ hasGo(tree) /\ found = {} /\ paths # {} ->
                 planForGo(analyzeImpact(paths, go.projects, go.unknown), go.projects, fp)
          [] OTHER -> staticPlan("fallback", fp)

-----------------------------------------------------------------------------
(* What a plan is for, told from the checkout and not from the projects *)

\* The directories a module boundary runs around.
Boundaries(tree) ==
    LET listed == {u \in ToSet(tree.uses) : u = <<>> \/ Head(u) # ".."}
    IN  IF tree.work /\ listed # {} THEN listed
        ELSE IF tree.readable THEN {m.dir : m \in ToSet(goMods(tree))} ELSE {}

\* The module at b requires the one at a.
RequiresFrom(tree, b, a) == modAt(tree, a).path \in modAt(tree, b).requires \ {NoModule}

\* The modules a change touches: those whose boundary is the innermost one
\* around a changed path.
Touched(tree, paths) ==
    {d \in Boundaries(tree) :
        \E p \in paths :
            /\ IsPrefix(d, p)
            /\ \A b \in Boundaries(tree) : IsPrefix(b, p) => IsPrefix(b, d)}

\* The modules a change may break: the least set that holds the touched ones
\* and whatever requires a member.
Affected(tree, paths) ==
    LET Closed(S) == \A a \in S, b \in Boundaries(tree) : RequiresFrom(tree, b, a) => b \in S
    IN  {d \in Boundaries(tree) :
            \A S \in SUBSET Boundaries(tree) : Touched(tree, paths) \subseteq S /\ Closed(S) => d \in S}

\* Everything the change may break is known.
ImpactKnown(tree, paths) ==
    /\ \A d \in Boundaries(tree) : modAt(tree, d).path # NoModule
    /\ tree.work => \A u \in ToSet(tree.uses) : u \in Boundaries(tree)
    /\ tree.work => tree.uses # <<>>
    /\ \A p \in paths : ~isGlobalImpact(p) /\ \E d \in Boundaries(tree) : IsPrefix(d, p)

\* Modules can be told apart: by their paths, and the root module from one in a
\* directory called root.
ModulesApart(tree) ==
    /\ \A a, b \in Boundaries(tree) :
          modAt(tree, a).path = modAt(tree, b).path /\ modAt(tree, a).path # NoModule => a = b
    /\ ~ (<<>> \in Boundaries(tree) /\ <<"root">> \in Boundaries(tree))
=============================================================================
