------------------------- MODULE RepositoryToolsMC -------------------------
(***************************************************************************)
(* The tools the repository runs on itself, for TLC: the values of their   *)
(* constants, and a specification in which one of them, chosen at the      *)
(* start, moves.  They share no state, so its behaviours are those of each *)
(* tool alone.                                                             *)
(***************************************************************************)
EXTENDS ReplayContractMC, SchemaGateMC, DetectorGateMC, SbomMC, ReleaseGate, RepositoryGate,
        ConfigContract, DocLinks, FuzzHarness

VARIABLE part

-----------------------------------------------------------------------------
(* Versions that a release may take. *)

MCVersion == {<<0, 4, 1>>, <<0, 4, 2>>, <<0, 5, 0>>}

-----------------------------------------------------------------------------
(* A repository the gate accepts. *)

MCImportName == "pyyaml" :> "yaml" @@ "mypy" :> "mypy" @@ "types-pyyaml" :> "types_pyyaml"

MCContained == {<<"backup", "backup-status">>}

MCTree ==
    [tools |-> [fuzzers |-> {"evidence_check"}, selfTests |-> {"restore_drill", "replay"},
                imports |-> {[place |-> "tools", name |-> "yaml"]},
                files |-> {}],
     makefile |-> [fuzzers |-> <<"evidence_check">>,
                   recipe |-> <<[name |-> "evidence_check", live |-> TRUE]>>,
                   selfTests |-> {"restore_drill"}, looped |-> TRUE,
                   exercise |-> {[name |-> "replay", live |-> TRUE]},
                   runLocked |-> TRUE, setupLocked |-> TRUE, seed |-> "0",
                   mentioned |-> {"mypy"}, targets |-> BackupTarget, ci |-> TestTarget],
     pyproject |-> [uv |-> "0.12.13", runtime |-> {"pyyaml"}, dev |-> {"mypy", "types-pyyaml"},
                    extra |-> {}],
     workflow |-> [steps |-> <<[action |-> "checkout", ref |-> "3d3c42e", label |-> "v7.0.1",
                                version |-> Unset],
                               [action |-> SetupUv, ref |-> "c18668a", label |-> "v10.2.0",
                                version |-> "0.12.13"]>>,
                   runner |-> "24.04", seed |-> "0", runsCI |-> TRUE],
     runbook |-> BackupTarget]

-----------------------------------------------------------------------------
(* A schema, an example and a table that agree. *)

MCConfigKey == {<<"enabled">>, <<"hmacKey">>, <<"hmacKey", "path">>, <<"availability">>,
          <<"availability", "cost">>, <<"availability", "cost", "tiny">>}
MCPlainRow == {<<"enabled">>, <<"hmacKey", "path">>, <<"availability", "cost", "tiny">>}
MCWideRow == {<<"hmacKey">>, <<"availability">>}

MCContract ==
    <<"enabled">> :> [kind |-> "value", default |-> TRUE]
        @@ <<"hmacKey">> :> [kind |-> "section", default |-> FALSE]
        @@ <<"hmacKey", "path">> :> [kind |-> "value", default |-> TRUE]
MCContractKeys == {<<"enabled">>}
MCContractRows == {<<"enabled">>, <<"hmacKey", "path">>}

-----------------------------------------------------------------------------
(* Paths, headings and links of a page. *)

MCFolded == [n \in Name |-> IF n = "INDEX" THEN "index" ELSE IF n = "Docs" THEN "docs" ELSE n]
MCPage == <<"docs", "INDEX">>
\* "Notes", and "Notes 1", which asks for the anchor of a second "Notes".
MCPageHeading == {<<"notes">>, <<"notes", 1>>}

MCLinkPath == {MCPage, <<"Docs", "INDEX">>, <<"docs", "index">>}
MCLinkAnchor == {NoAnchor, <<"notes", 1>>}

-----------------------------------------------------------------------------
(* No input, or one input, breaks an invariant. *)

Breaking == {{}, {<<1, 1>>}, {<<2, 1>>}}

-----------------------------------------------------------------------------
UpkeepParts ==
    {"trace", "schema", "detectors", "sbom", "release", "repository",
     "contract", "docs", "harness", "rundir"}

upkeepVars == <<part, traceVars, schemaVars, gateVars, sbomVars, releaseVars, repoVars,
             contractVars, docVars, harnessVars, runDirVars>>

UpkeepInit ==
    /\ part \in UpkeepParts
    /\ IF part = "trace" THEN TRUE ELSE trace = Begun
    /\ IF part = "contract" THEN declared = ShippedSchema ELSE declared = <<>>
    /\ TraceInit /\ RepoInit /\ ContractInit /\ DocInit /\ RunDirInit
    /\ IF part = "detectors" THEN TRUE ELSE spec = <<>>
    /\ GateInit
    /\ IF part = "sbom" THEN TRUE ELSE lock = <<Root({"a"}), Package("a", {"lost"})>>
    /\ SbomInit
    /\ IF part = "release" THEN TRUE ELSE version = <<0, 4, 1>> /\ sections = <<>>
    /\ ReleaseInit
    /\ IF part = "harness" THEN breaks \in Breaking ELSE breaks = {}
    /\ HarnessInit
    /\ IF part = "schema" THEN TRUE
       ELSE schema = Typed("null") /\ record = CHOOSE r \in Records : TRUE
    /\ SchemaInit

\* The parts that do not move keep their state.
OthersRest(p) ==
    /\ UNCHANGED part
    /\ IF p = "trace" THEN TRUE ELSE UNCHANGED traceVars
    /\ IF p = "schema" THEN TRUE ELSE UNCHANGED schemaVars
    /\ IF p = "detectors" THEN TRUE ELSE UNCHANGED gateVars
    /\ IF p = "sbom" THEN TRUE ELSE UNCHANGED sbomVars
    /\ IF p = "release" THEN TRUE ELSE UNCHANGED releaseVars
    /\ IF p = "repository" THEN TRUE ELSE UNCHANGED repoVars
    /\ IF p = "contract" THEN TRUE ELSE UNCHANGED contractVars
    /\ IF p = "docs" THEN TRUE ELSE UNCHANGED docVars
    /\ IF p = "harness" THEN TRUE ELSE UNCHANGED harnessVars
    /\ IF p = "rundir" THEN TRUE ELSE UNCHANGED runDirVars

UpkeepNext ==
    \/ part = "trace" /\ TraceNext /\ OthersRest("trace")
    \/ part = "schema" /\ SchemaNext /\ OthersRest("schema")
    \/ part = "detectors" /\ GateNext /\ OthersRest("detectors")
    \/ part = "sbom" /\ SbomNext /\ OthersRest("sbom")
    \/ part = "release" /\ ReleaseNext /\ OthersRest("release")
    \/ part = "repository" /\ RepoNext /\ OthersRest("repository")
    \/ part = "contract" /\ ContractNext /\ OthersRest("contract")
    \/ part = "docs" /\ DocNext /\ OthersRest("docs")
    \/ part = "harness" /\ HarnessNext /\ OthersRest("harness")
    \/ part = "rundir" /\ RunDirNext /\ OthersRest("rundir")
    \/ part \notin {"trace", "sbom"} /\ UNCHANGED upkeepVars  \* at the bound on edits

UpkeepSpec == UpkeepInit /\ [][UpkeepNext]_upkeepVars

\* The state of the part that moves tells two reachable states apart.
PartView ==
    CASE part = "trace" -> <<part, traceVars>>
      [] part = "schema" -> <<part, schemaVars>>
      [] part = "detectors" -> <<part, gateVars>>
      [] part = "sbom" -> <<part, sbomVars>>
      [] part = "release" -> <<part, releaseVars>>
      [] part = "repository" -> <<part, repoVars>>
      [] part = "contract" -> <<part, contractVars>>
      [] part = "docs" -> <<part, docVars>>
      [] part = "harness" -> <<part, harnessVars>>
      [] part = "rundir" -> <<part, runDirVars>>

=============================================================================
