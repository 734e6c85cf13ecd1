---------------------------- MODULE RepositoryGate --------------------------
(***************************************************************************)
(* The tree around the tools, edited by hand in several files, and what    *)
(* tools/doccheck.py says of it: the registries of tests, the declared     *)
(* dependencies, the pins of the toolchain and of the workflow's actions,  *)
(* and the backup runbook.  The outside world moves on its own.            *)
(***************************************************************************)
EXTENDS Findings, Integers, Sequences, SequencesExt

CONSTANTS
    Unset,              \* a variable, a version, a label or a pin nobody wrote
    Fuzzer,             \* the names a harness may have
    SelfTesting,        \* the tools that may have a --self-test
    Exercised,          \* of those, the ones the recipe of "make exercise" may run
    ArchiveTool,        \* the tools that make, restore and age the archives
    Distribution,       \* what pyproject.toml may declare
    Stub,               \* of those, the ones that carry types only
    ImportName,         \* distribution -> the name its code is imported by
    Place,              \* directories of the tree with Python in them
    UvRelease,          \* releases of uv
    Commit,             \* commit hashes a workflow may name; any other ref can be moved
    Ref,                \* what a "uses" line may name
    SetupUv,            \* the action that installs uv
    Seed,               \* values of PYTHONHASHSEED
    BackupTarget,       \* the make targets the runbook is about
    Contained,          \* <<t, u>>: the words "make t" are in the words "make u"
    ShippedTree,        \* the files as shipped
    MaxRepoEdits,
    MaxPublished

\* The targets that run tests, of those "make ci" may depend on.
TestTarget == {"test-tools", "exercise"}

\* What the files hold, and that one step of the workflow installs uv.
ASSUME TreeAssumption ==
    /\ ShippedTree.tools \in
          [fuzzers : SUBSET Fuzzer, selfTests : SUBSET SelfTesting,
           imports : SUBSET [place : Place, name : {ImportName[d] : d \in Distribution}],
           files : SUBSET [place : Place, stem : {ImportName[d] : d \in Distribution}]]
    /\ ShippedTree.makefile \in
          [fuzzers : Seq(Fuzzer), recipe : Seq([name : Fuzzer, live : BOOLEAN]),
           selfTests : SUBSET SelfTesting, looped : BOOLEAN,
           exercise : SUBSET [name : Exercised, live : BOOLEAN],
           runLocked : BOOLEAN, setupLocked : BOOLEAN, seed : Seed \union {Unset},
           mentioned : SUBSET {ImportName[d] : d \in Distribution},
           targets : SUBSET BackupTarget, ci : SUBSET TestTarget]
    /\ DOMAIN ShippedTree.workflow = {"steps", "runner", "seed", "runsCI"}
    /\ LET steps == ShippedTree.workflow.steps
       IN  /\ DOMAIN steps \subseteq Nat
           /\ \A i \in DOMAIN steps : DOMAIN steps[i] = {"action", "ref", "label", "version"}
           /\ \A i, j \in DOMAIN steps :
                 steps[i].action = SetupUv /\ steps[j].action = SetupUv => i = j

VARIABLES
    tools,          \* harnesses and self-tests on disk, Python files and their imports
    makefile,
    pyproject,
    workflow,
    runbook,        \* the targets docs/OPERATIONS.md cites
    published,      \* how often the world outside has moved
    repoEdits

tree == <<tools, makefile, pyproject, workflow, runbook>>
repoVars == <<tree, published, repoEdits>>

HarnessNames(recipe) == [i \in DOMAIN recipe |-> recipe[i].name]

---------------------------------------------------------------------------
\* The registries of tests.  A line of a recipe counts whether or not it is
\* commented out.

\* Mutant: a loop over the tools is not looked for.
RunsSelfTestListed(tool) == tool \in makefile.selfTests

RunsSelfTest(tool) == tool \in makefile.selfTests /\ makefile.looped

HarnessIssues ==
    Broken([
        unregistered |-> ~(tools.fuzzers \subseteq ToSet(makefile.fuzzers)),
        missing |-> ~(ToSet(makefile.fuzzers) \subseteq tools.fuzzers),
        order |-> HarnessNames(makefile.recipe) # makefile.fuzzers,
        selfTest |-> \E t \in tools.selfTests :
            ~RunsSelfTest(t) /\ t \notin {line.name : line \in makefile.exercise}])

---------------------------------------------------------------------------
\* The declared dependencies.

ThirdParty == {i.name : i \in tools.imports} \ {file.stem : file \in tools.files}

\* Every group counts as declared, "uv sync" installs only the default one.
Declared == pyproject.runtime \union pyproject.dev \union pyproject.extra

Installed == pyproject.runtime \union pyproject.dev

\* A console script the Makefile runs needs no declaration.
DependencyIssues ==
    Broken([
        unused |-> \E d \in Declared \ Stub :
            ImportName[d] \notin ThirdParty /\ ImportName[d] \notin makefile.mentioned,
        undeclared |-> ~(ThirdParty \subseteq {ImportName[d] : d \in Declared})])

---------------------------------------------------------------------------
\* The backup runbook.

RunbookIssues ==
    Broken([
        target |-> ~(BackupTarget \subseteq makefile.targets),
        drilled |-> \E t \in ArchiveTool : ~RunsSelfTest(t),
        cited |-> \E t \in BackupTarget :
            ~\E u \in runbook : u = t \/ <<t, u>> \in Contained])

---------------------------------------------------------------------------
\* The toolchain and the workflow.

\* The first line of the workflow that gives a version, whichever step it is in.
FirstVersion ==
    LET named == {i \in DOMAIN workflow.steps : workflow.steps[i].version # Unset}
    IN  IF named = {} THEN Unset
        ELSE workflow.steps[CHOOSE i \in named : \A j \in named : i <= j].version

Steps == ToSet(workflow.steps)

\* Mutant: a lock that no longer matches is installed without a word.
ToolchainIssuesFrozen ==
    IF pyproject.uv = Unset THEN {"range"}
    ELSE Broken([
            uv |-> FirstVersion # pyproject.uv,
            action |-> \E s \in Steps : s.ref \notin Commit,
            runner |-> workflow.runner = "latest",
            locked |-> ~makefile.runLocked,
            seed |-> \/ makefile.seed = Unset
                     \/ workflow.seed \notin {Unset, makefile.seed}])

ToolchainIssues ==
    IF pyproject.uv = Unset THEN {"range"}
    ELSE Broken([
            uv |-> FirstVersion # pyproject.uv,
            action |-> \E s \in Steps : s.ref \notin Commit,
            runner |-> workflow.runner = "latest",
            locked |-> ~(makefile.runLocked /\ makefile.setupLocked),
            seed |-> \/ makefile.seed = Unset
                     \/ workflow.seed \notin {Unset, makefile.seed}])

ActionPinIssues ==
    Broken([
        ref |-> \E s \in Steps : s.action # "local" /\ s.ref \notin Commit,
        label |-> \E s \in Steps : s.action # "local" /\ s.label = Unset])

RepositoryIssues ==
    HarnessIssues \union DependencyIssues \union RunbookIssues \union ToolchainIssues
        \union ActionPinIssues

---------------------------------------------------------------------------

RepoInit ==
    /\ tools = ShippedTree.tools
    /\ makefile = ShippedTree.makefile
    /\ pyproject = ShippedTree.pyproject
    /\ workflow = ShippedTree.workflow
    /\ runbook = ShippedTree.runbook
    /\ published = 0
    /\ repoEdits = 0

EditRepo ==
    /\ repoEdits < MaxRepoEdits
    /\ repoEdits' = repoEdits + 1
    /\ UNCHANGED published

\* A test is added to, or taken from, tools/.
EditTools ==
    /\ EditRepo
    /\ \/ \E f \in Fuzzer :
            tools' = [tools EXCEPT !.fuzzers = SymDiff(@, {f})]
       \/ \E t \in SelfTesting :
            tools' = [tools EXCEPT !.selfTests = SymDiff(@, {t})]
    /\ UNCHANGED <<makefile, pyproject, workflow, runbook>>

\* An import, or a file of that name, comes or goes somewhere in the tree.
EditImports ==
    /\ EditRepo
    /\ \E place \in Place, d \in Distribution \ Stub :
        \/ tools' = [tools EXCEPT
                !.imports = SymDiff(@, {[place |-> place, name |-> ImportName[d]]})]
        \/ tools' = [tools EXCEPT
                !.files = SymDiff(@, {[place |-> place, stem |-> ImportName[d]]})]
    /\ UNCHANGED <<makefile, pyproject, workflow, runbook>>

EditRegistries ==
    /\ EditRepo
    /\ \/ \E f \in Fuzzer, i \in 0..Len(makefile.fuzzers) :
            makefile' = [makefile EXCEPT !.fuzzers = InsertAt(@, i + 1, f)]
       \/ \E i \in DOMAIN makefile.fuzzers : makefile' = [makefile EXCEPT !.fuzzers = RemoveAt(@, i)]
       \/ \E t \in SelfTesting : makefile' = [makefile EXCEPT !.selfTests = SymDiff(@, {t})]
    /\ UNCHANGED <<tools, pyproject, workflow, runbook>>

\* A recipe gets a line, loses one, or has one commented out.
EditRecipes ==
    /\ EditRepo
    /\ \/ \E f \in Fuzzer, i \in 0..Len(makefile.recipe) :
            makefile' = [makefile EXCEPT !.recipe = InsertAt(@, i + 1, [name |-> f, live |-> TRUE])]
       \/ \E i \in DOMAIN makefile.recipe : makefile' = [makefile EXCEPT !.recipe = RemoveAt(@, i)]
       \/ \E i \in DOMAIN makefile.recipe : makefile' = [makefile EXCEPT !.recipe[i].live = ~@]
       \/ makefile' = [makefile EXCEPT !.looped = ~@]
       \/ \E t \in Exercised, live \in BOOLEAN :
            makefile' = [makefile EXCEPT !.exercise = SymDiff(@, {[name |-> t, live |-> live]})]
    /\ UNCHANGED <<tools, pyproject, workflow, runbook>>

EditMakefile ==
    /\ EditRepo
    /\ \/ makefile' = [makefile EXCEPT !.runLocked = ~@]
       \/ makefile' = [makefile EXCEPT !.setupLocked = ~@]
       \/ \E s \in Seed \union {Unset} : makefile' = [makefile EXCEPT !.seed = s]
       \/ \E d \in Distribution : makefile' = [makefile EXCEPT !.mentioned = SymDiff(@, {ImportName[d]})]
       \/ \E t \in BackupTarget : makefile' = [makefile EXCEPT !.targets = SymDiff(@, {t})]
       \/ \E t \in TestTarget : makefile' = [makefile EXCEPT !.ci = SymDiff(@, {t})]
    /\ UNCHANGED <<tools, pyproject, workflow, runbook>>

EditProject ==
    /\ EditRepo
    /\ \/ \E r \in UvRelease \union {Unset} : pyproject' = [pyproject EXCEPT !.uv = r]
       \/ \E d \in Distribution : pyproject' = [pyproject EXCEPT !.runtime = SymDiff(@, {d})]
       \/ \E d \in Distribution : pyproject' = [pyproject EXCEPT !.dev = SymDiff(@, {d})]
       \/ \E d \in Distribution : pyproject' = [pyproject EXCEPT !.extra = SymDiff(@, {d})]
    /\ UNCHANGED <<tools, makefile, workflow, runbook>>

EditWorkflow ==
    /\ EditRepo
    /\ \/ \E i \in DOMAIN workflow.steps, r \in Ref :
            workflow' = [workflow EXCEPT !.steps[i].ref = r]
       \/ \E i \in DOMAIN workflow.steps, v \in UvRelease \union {Unset} :
            workflow' = [workflow EXCEPT !.steps[i].version = v]
       \/ \E i \in DOMAIN workflow.steps : workflow' = [workflow EXCEPT !.steps[i].label = Unset]
       \/ workflow' = [workflow EXCEPT !.runner = "latest"]
       \/ \E s \in Seed \union {Unset} : workflow' = [workflow EXCEPT !.seed = s]
       \/ workflow' = [workflow EXCEPT !.runsCI = ~@]
    /\ UNCHANGED <<tools, makefile, pyproject, runbook>>

EditRunbook ==
    /\ EditRepo
    /\ \E t \in BackupTarget : runbook' = SymDiff(runbook, {t})
    /\ UNCHANGED <<tools, makefile, pyproject, workflow>>

\* A tag is moved, a package, a uv or a runner image is released.
Publish ==
    /\ published < MaxPublished
    /\ published' = published + 1
    /\ UNCHANGED <<tree, repoEdits>>

RepoNext ==
    \/ EditTools \/ EditImports \/ EditRegistries \/ EditRecipes \/ EditMakefile
    \/ EditProject \/ EditWorkflow \/ EditRunbook \/ Publish

RepoSpec == RepoInit /\ [][RepoNext]_repoVars

---------------------------------------------------------------------------

\* The workflow runs "make ci", which runs the targets it depends on.
CIRuns(target) == workflow.runsCI /\ target \in makefile.ci

\* What CI runs, by way of "make test-tools" and "make exercise".
HarnessesRun ==
    IF CIRuns("test-tools") THEN {line.name : line \in {l \in ToSet(makefile.recipe) : l.live}}
    ELSE {}

SelfTestsRun ==
    (IF CIRuns("test-tools") /\ makefile.looped THEN makefile.selfTests ELSE {}) \union
    (IF CIRuns("exercise") THEN {line.name : line \in {l \in makefile.exercise : l.live}} ELSE {})

CommentedOut ==
    (ToSet(makefile.recipe) \union makefile.exercise) \intersect [name : Fuzzer \union Exercised, live : {FALSE}]

\* No line of a recipe is commented out, and CI gets to both recipes.
RecipesRun == CommentedOut = {} /\ \A target \in TestTarget : CIRuns(target)

(* CI runs every harness and every self-test that is on disk, and every       *)
(* harness it runs can be run alone under its name by "make fuzz".            *)
EveryTestRuns ==
    /\ tools.fuzzers = HarnessesRun
    /\ tools.selfTests \subseteq SelfTestsRun
    /\ HarnessesRun = ToSet(makefile.fuzzers)

\* Python finds a module beside the file that imports it, or installed.
Importable(i) ==
    \/ [place |-> i.place, stem |-> i.name] \in tools.files
    \/ \E d \in Installed : ImportName[d] = i.name

\* Nowhere in the tree is there a file named like what another directory imports.
NoFileShadows ==
    \A i \in tools.imports, file \in tools.files : file.stem = i.name => file.place = i.place

\* What is imported is there when "uv sync --locked" has run, so nothing works
\* only because something else is installed.
EveryImportInstalled == \A i \in tools.imports : Importable(i)

(* The repository: in a tree the gate passes every test that is written runs,  *)
(* and every package imported by a tool is installed where it runs, as far as  *)
(* the gate reads.  It looks for the tests in the registries and the recipes   *)
(* and reads these as text, so no line may be commented out; and it never      *)
(* reads what "ci:" depends on, nor whether the workflow runs "make ci", so    *)
(* both must get to the recipes.  It takes a file anywhere for a local module, *)
(* so none may be named like what another directory imports; and a package of  *)
(* any group for declared, so none may be only in a group that is not          *)
(* installed.  What is shown is that nothing else comes between.               *)
RepositoryVerdict ==
    RepositoryIssues = {} =>
        /\ RecipesRun => EveryTestRuns
        /\ NoFileShadows /\ Declared = Installed => EveryImportInstalled

\* What a CI run of the tree executes, of what others publish.
Moving(pinned, what) == IF pinned THEN <<what>> ELSE <<what, published>>

UvSteps == {i \in DOMAIN workflow.steps : workflow.steps[i].action = SetupUv}

CIExecutes ==
    [actions |-> [i \in DOMAIN workflow.steps |->
        Moving(workflow.steps[i].ref \in Commit, workflow.steps[i].ref)],
     uv |-> {Moving(workflow.steps[i].version # Unset, workflow.steps[i].version) : i \in UvSteps},
     runner |-> Moving(workflow.runner # "latest", workflow.runner),
     packages |-> Moving(makefile.setupLocked /\ makefile.runLocked, Installed)]

OnlyUvHasVersion == \A s \in Steps : s.version # Unset => s.action = SetupUv

(* Whatever is published, two CI runs of one tree the gate passes execute the  *)
(* same actions, uv, runner image and packages.  The gate takes the first      *)
(* version of the workflow for the one of uv: no other step is taken to have   *)
(* one.                                                                        *)
PublishingMovesNothing ==
    [][published' # published /\ UNCHANGED tree /\ RepositoryIssues = {} /\ OnlyUvHasVersion
        => CIExecutes' = CIExecutes]_repoVars

=============================================================================
