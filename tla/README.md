# 7dtd-server-guard in TLA+

The repository holds the Python tools around a game server's evidence stream: a
hash-chained, append-only log of segments, its backup, and the gates the
repository runs on itself. The server mod is so far a set of placeholder READMEs,
so the program that runs is under `tools/`. This project models it: first the part
with processes, files and failures (the chain verifier and the backup pipeline),
then the verdicts of the other tools, each under the edits, upgrades and accidents
that come between the runs of the tool.

## Inventory

| Component | State it keeps | Operations | What is hard | What makes it correct |
|---|---|---|---|---|
| Chain verifier, `evidence_check.py` | of one walk: previous hash, window of recent eventIds, capped findings, state of the previous segment, counts | `verify_dir_with_counts`, `verify_chain`, `RecentEventIds.seen_before`, `load_index`, `_index_errors` | a check split between a segment's walk and its caller; state carried over failed segments; two caps | a clean verdict means one unbroken chain; a finding is about a real break; counts are of whole segments |
| Export, `evidence_export.py` | the archive root; per run: members, stamp, staging name, errors | `export` (preflight, sweep, `redo_errors`, `copy_verified`, manifest, `verify`, rename, cleanup), `verify` | the server writes meanwhile; exports race for a one-second name; retries; sweeps; kills; forged manifests | an archive verifies and is never changed; exit 0 is worth an archive; nothing is left behind |
| Restore drill, `restore_drill.py` | a work directory, a staging directory beside it | `drill` (`verify`, `restore`, `readback`, config and key checks) | moves that fail half way; failed drills run again; rotation and copying during the checks | a pass means a chain that verifies, of the files as they were attested when they were verified, the config they were written under, and copied keys |
| Backup status, `backup_status.py` | none; reads the root and the clock | `check`, `gap_errors`, `report` | stamps in the future; undated and damaged archives | exit 0 means the recovery point is inside the window |
| Config check, `config_check.py` | none; reads a file, the registry and the environment | `check`, `effective_config`, `config_hash` | what is spelled is not what is loaded; upgrades move defaults | accepted means safe once loaded; refused has a cause |
| Schema validator, `schema_validate.py` | recursion depth | `validate` | `$ref` loops, the depth bound, `oneOf` | agrees with the schema language |
| Replay contract, `replay_contract_check.py` | the trace, sealed by hand | `check_trace`, seal | several edits that hide one another; a seal over a faulty trace | an accepted trace replays, within its budget |
| SBOM, `sbom.py` | worklist, document, file | `build_sbom`, `_reached`, `main` | cycles, forked entries, a write cut short | runtime is reachability; the same lock gives the same document |
| Detector rendering, `render_detectors.py` | the manifest in the tree | render, check, write | spec, manifest and example edited apart | what ships is accepted by the server's own check |
| Documentation gate, `doccheck.py` | the tree, edited by hand in many files | its checks, `main` | registries that drift, releases merged out of order, hosts that ignore case | what a green gate promises about the tree |
| Shared helpers, `report_text.py`, `guard_python.py`, `self_test_common.py` | the streams | `safe_report_streams`, the interpreter pin | text that stdout cannot encode | exit code and report agree |
| Fuzzers, `fuzz_*.py` | scratch directories, one random stream | run of a harness, `RunDir.write` | killed runs, files of the input before | a seed replays |
| Server mod | - | - | - | - |

How they interact: the export calls the verifier on the source (preflight) and on
its own copies; the drill calls the export's `verify` on the archive, the verifier on
what it staged, and the config check's hash; backup status calls `verify` on archives
newest first; doccheck calls the validator and the config check on the shipped files.
The evidence directory is written by the server and read by the export; the
archive root is written by exports, read by drills and by backup status. There are no
locks: all coordination is by `mkdtemp`, by `rename` and by age.

## Modules

| Module | Models | Correspondence |
|---|---|---|
| `EvidenceChain` | one run of `verify_dir_with_counts` | one action per record, per end of segment, and for the index |
| `EvidenceChainProps` | what its verdict has to mean | stated over the places of its records in the stream, not over the walk |
| `EvidenceDirectory` | directories of segments and the verdict on one | shared by exports and drills: `verify_dir` and `verify` as predicates |
| `ArchiveExport` | `export()` run by several processes, with server and clock | one action per filesystem call another process can come between |
| `ArchiveStore` | the service an operator relies on | records, archives as sets of records, requests; `ArchiveExport` implements it |
| `ArchiveVerify` | `build_manifest` and `verify()` entry by entry | damage, repair, edits of the manifest and forged digests are actions |
| `RestoreDrill` | `drill()` run by several processes beside damage | one action per filesystem call another process can come between |
| `SecretsDrill` | `config_match_errors`, `secrets_errors` | one action per `stat` and digest, beside rotation, copies and upgrades |
| `BackupStatus` | `check()` and `report()` beside the exports of `ArchiveStore` | one action per archive looked at; hours are clock units |
| `ConfigFile` | a file, the settings a release makes of it, and every finding | the shared vocabulary of config check, drill and detector gate |
| `ConfigCheck` | the check, its hash, and a file that is edited and upgraded | |
| `HostNames` | file-name rules on Linux, on a disk that ignores case, and on Windows | export, edits and verification, each on a host |
| `CommandLine` | every tool from its arguments to its exit code | one action per check `doccheck` runs or tells and per line written |
| `SchemaValidate` | `validate()` over a schema algebra | keyword by keyword; its calls of itself level by level, its recursion one on the depth it counts |
| `EvidenceBags`, `SchemaGate` | the gate that keeps the evidence schema closed; records under the fuzzers' mutations | a walk over a schema is what it has met after so many steps |
| `ReplayContract` | `check_trace` and the seal over an edited trace | the finding of each rule is a named condition |
| `DetectorGate` | spec, manifest, example and the checks between them | hand edits and `render_detectors` are actions |
| `Sbom` | `build_sbom` and `main` | the worklist is a set: `pop` takes any |
| `ReleaseGate`, `RepositoryGate`, `ConfigContract`, `DocLinks` | groups of doccheck's checks over the files they relate | one edit of one file per action |
| `FuzzHarness`, `RunDir` | a seeded run with its scratch directories; the input directory of the evidence fuzzer | |
| `Findings` | `Broken`: the rules a record of conditions breaks; `Sums`: Python's `sum()` | |
| `...MC` | instances, and what documents promise | `CopiesMC`, `OperatorToolsMC` and `RepositoryToolsMC` hold several components each |
| `NumberProofs` | lemmas about least and largest numbers and sums | shared by all the proofs |
| `DirectoryProofs` | lemmas about directories, the chain and counts of leftovers | shared by the proofs about exports and drills |
| `ExportServiceProofs`, `RestoreDrillProofs`, `BackupStatusProofs`, `EvidenceChainProofs`, `OperatorProofs`, `RepositoryProofs` | theorems | `OperatorProofs` is about config, secrets, hosts, command lines and archives entry by entry, `RepositoryProofs` about SBOM, fuzzers, contract and repository |

In `EvidenceChain` a record is an atom with a hash, a `chainPrev` and an `eventId`; a
segment is the records before its first bad line, and whether there is one.
`HashAssumption` says the hash is injective and never the genesis value: that is what
SHA-256 is used for. In `EvidenceDirectory` records are numbered, so a segment is an
interval, possibly with half a line after it; digests are equal exactly when contents
are. Where a tool seals a projection (`ReplayContract`, `ArchiveVerify`), the digest is
the projection.

In `ArchiveExport` the preflight's read of the source, the removal of a directory tree,
and the reading of the copies are one step each. The writer of the source is not under
`tools/`: it appends, finishes a line, rotates, writes its index and expires the oldest
segment, in any order with the exports. A `Kill` returns the process to rest and leaves
its directory; the operator may start it again, which is also how a retry looks. Two
faults leave a directory as a kill does: a sweep that raises between `mkdtemp` and the
`try` (evidence_export.py:459, restore_drill.py:293; `SweepRaises`), and a removal that comes
to nothing or stops half way, which `ignore_errors` hides (468, 297; `CleanupIgnored`). They
are counted in `strays`, and no other error may leave one: `NothingLeftBehind` bounds the
leftovers by `strays`, not by the faults, so an error while copying, verifying, renaming or
moving that left its directory would break it. What is in a leftover nobody reads, so
`Abandon` forgets it and keeps its age.

An archive can be damaged at any moment of a drill: a file is lost, a segment is cut inside
a record or at the end of one, an index is rewritten. In
`RestoreDrill` what the cross-checks find is a verdict drawn when the drill begins;
`SecretsDrill` is that verdict in detail.

The checks that are functions of what they read (`ConfigFile`, `ReplayContract`,
`DetectorGate`, the gates) are records with one named condition per finding. The state
is the files; the actions are the edits that people and fuzzers make, so an edit that
hides an earlier one, a repair, or a second file that was not edited is a behaviour.
Each verdict is compared with a definition written without the checks: the settings the
server runs, a replay of the trace, what a host opens, what CI executes.

`CopiesMC`, `OperatorToolsMC` and `RepositoryToolsMC` are disjoint unions: `part` says
which component moves, chosen at the start, and the others keep their initial state.
Their components share no variable and no file, so nothing is lost by not interleaving
them. `PartView` leaves out only variables that are constant for the chosen part. A part
at its bound of edits stutters, which keeps the deadlock check on for the others.

## Runs

| Run | Instance | Shows |
|---|---|---|
| `race` | 2 exports, 3 staging names, 2 records, clock 0..2, 1 fault | live staging directories survive every sweep, and only a kill, a sweep that raises before the try or a removal that fails leaves one; exit 0 covers the preflight's records; archives verify and are kept; under a quiet server only the sweep's report fails a run; the exports implement `ArchiveStore` |
| `status` | 1 exporter, 2 records, clock 0..3, window 1, slack 1, 1 accident | exit 0 means what is older than the window is archived; an undisturbed check is right both ways, but for neighbours exactly the window apart |
| `copies` | 1 export, 3 segments, 3 records, index, expiry; or 2 drills, 2 archives, 3 names; 1 fault | every archive verifies and covers the preflight; a pass means the files as attested, but for what was damaged after it was verified and passed as a chain that verifies; no segment that is cut inside a record lands; drills do not sweep one another; the drill of a good archive passes |
| `fair` | 2 exports with nothing written; or 1 drill, 4 archives, every outcome of `--config`; 1 fault | every run ends; what a kill, or a removal that failed, leaves goes |
| `operator` | six parts, see below | what the verdicts of the operator's tools mean |
| `repository` | ten parts, see below | what a green gate promises |

Bounds. Two staging names per process are enough for a leftover beside a live copy,
three for a leftover beside two; two records let a copy differ from its source; with
`StaleAge` 1 and a clock to 2 (3 for the drills of `fair`) a leftover is too young, then
old enough. In `status` three instants hold an archive inside the window, one at its
edge and one outside, and two archives make a gap. The archives of the drills: a segment
and the index; two segments; a manifest that names an index the archive does not hold; a
chain that does not start at its first record.

Parts of `operator`. *Chain*: every stream of up to 3 records over 7, 5 for chosen
prefixes, in every cut into 1 to 3 segments, one unreadable at most; a window of 2 and a
cap of 1 are both reached and passed. *Config*: 2 edits over a shipped file, two
releases and three variables. *Secrets*: 2 changes before, during and after a drill, at
hours 0..2 with a cycle of 1, so a file is inside, at and past the cycle. *Archive*: 3
changes, so damage, repair and a forged digest in any order. *Hosts*: 3 edits over names
that differ in case, end in a dot or are devices. *Command*: every set of flags of every
tool, up to 2 findings of a check with a cap of 1 listed, two checks of `doccheck`, text
that cannot be encoded, a check or any other tool's work that raises.

Parts of `repository`. *Trace*: 3 edits or reseals, of a sound trace or one just begun.
*Schema*: 11 bags in 5 places and 6 other schemas, 2 mutations, nesting past the bound of 3;
`MaxWalk` steps end every walk over them, which `SchemaAssumption` asks and TLC evaluates,
and `MaxNesting` levels are more than a record has. *Detectors*: 2 edits of spec or example,
with rendering free, from no detector or two, the example with an empty block. *SBOM*:
chains, cycles, diamonds and six odd locks, one relock. *Release*: 4 edits over three
versions of two lines, from no section or a first release. *Repository*: 3 edits of the
registries, recipes, dependencies, workflow and pins, one publication. *Contract*: 4 edits
of schema, example and table over keys nested three deep, walked two deep, from the shipped
files or none. *Docs*: 4 edits of tree, page and links. *Harness*: 3 runs of 1 or 2
iterations, at most one beside another, kills. *RunDir*: 3 inputs of up to three files.

### Disagreements

Each of these runs is expected to find its one property violated.

| Run | The repository says | The code does |
|---|---|---|
| `expiry` | TEST_PLAN.md, OPERATIONS.md: evidence expires and verifies | the first segment on disk must start at genesis |
| `loser` | OPERATIONS.md: the loser exits 0 on identical evidence | its sweep reports the winner's directory, renamed under it, as undeletable |
| `drill_move` | `_move_into_place`: a move that fails part way is rolled back | `_rollback_errors` is never called; the files moved so far stay |
| `drill_config` | OPERATIONS.md: a drill that fails anywhere leaves `WORK` as it found it | config, keys and the sweep's report are judged after the copy landed |
| `status_existing` | OPERATIONS.md: an archive counts as existing only when it verifies | the spacing of archives is measured over all that have a date |
| `bags` | fuzz_schema_validate.py: the walk must see a bag however the schema reaches it | `_open_value_bags` does not follow `allOf` |

### What the properties except

Where code and expectation part in a way no document decides, the property names the
case and excludes it, and its comment says so:

- `PassMeansRestored`: the drill verifies the archive (restore_drill.py:616), then copies it
  and compares the copies with the archive as it then is, not with the manifest (212-217).
  What an archive loses or has changed in between can pass, as long as the chain of the
  copies verifies: a newest segment cut at the end of a record does. The run keeps in mind
  which files were touched while it awaited them (`touched`); all others are as attested.
- `VerdictExact`: ages are hours in binary floating point (backup_status.py:154, 190), and
  the difference of two may come out above the window when they are exactly that far apart:
  of 172802 s and 86402 s it does. All else comes out as exact arithmetic has it: an age
  compared with the window is one quotient, and any other gap is off it by a second or more,
  since stamps are whole seconds, which no rounding makes up. `Report`
  leaves open which neighbours on the window count as a gap, and the property excepts a
  root that has any (`Edged`).
- `ChainReport`: what a segment breaks before a bad line of its own is dropped with the
  segment (evidence_check.py:472-484), so only breaks in segments that are read to their
  end are named. A broken link is named at the record that does not chain, as
  OPERATIONS.md:233 says; OPERATIONS.md:74 promises the first tampered record, which is the
  one before it where a record was edited and its own `chainPrev` left alone.
- `ConfigVerdict`: a section switched on with its variable's name left to the default is
  refused although the variable is set (config_check.py:323).
- `SecretsUndisturbed` defines a good drill by the settings the installed release makes of
  the file, so a kept file stops matching after an upgrade that moves a default, the age
  is that of the live file, and a `keyCopyDir` that is the live directory holds a copy of
  nothing (`SecretsPass`).
- `ArchiveVerdict`: totals are those of the stream unless an entry is listed twice or
  claims no record count, which only a forged manifest can.
- `HostVerdict`: patterns ignore case on Windows alone.
- `ReplayVerdict`: the contract alone accepts a violation case without events and a
  negative work charge; the schema refuses both.
- `DetectorVerdict`: defaults of type `string` have no range to be checked against; an
  input without a name passes the rule on client-declared decisions (doccheck.py:790); of a
  detector that is gone, an example may keep a block that sets nothing, which the gate does
  not see (doccheck.py:942) and config_check.py refuses (config_check.py:233).
- `SchemaVerdict`: `$ref` and `oneOf` are taken as the code takes them: what stands beside
  them in the same schema is not applied, and the depth bound may refuse one branch of a
  `oneOf` and so accept another. Its two halves speak of schemas of the shipped style: a
  `const` stands alone (`Portable`); every subschema of the evidence schema has a type, an
  array says what it holds, and there are no pattern properties (`Legible`); values are
  compared with scalars only, and the deny-lists are patterns, the one for values of scalars
  (`ListsOfScalars`).
- `NothingOmitted`: of a forked package the last entry of the lock is inventoried.
- `ReleaseVerdict`: sections without a date are seen by the format check alone.
- `RepositoryVerdict`: a recipe line that is commented out counts as run; no check reads what
  `ci:` depends on (Makefile:135) or whether the workflow runs `make ci` (ci.yml:58), so a
  tree whose `ci:` lost `test-tools` passes and tests nothing (doccheck.py:1472-1509 looks at
  registries and recipes alone), and the property is about trees where CI gets to both
  recipes (`RecipesRun`). A file anywhere under the name of an import counts as the module; a
  package of any dependency group counts as declared (doccheck.py:1640-1645), where
  `uv sync --locked` installs the default group. `PublishingMovesNothing` looks at the
  first version line of the workflow's set-up steps, as the gate does.
- `EveryKeyHasValue`: a section with a default of its own is taken whole; sections nested
  deeper than `MAX_CONFIG_DEPTH` (20, doccheck.py:1393) are not walked, and their keys are not
  in the property.
- `DocumentVerdict`: a block that quotes the other fence turns the gate's reading around.
- `CommandVerdict`: tools/README.md:153-164 says of every tool that its one-line verdict goes to
  stdout. `replay_contract_check` prints only findings, on stderr, for a trace that fails
  (626-630) and the verdict of a failed self-test on stderr (566-573); `render_detectors`
  prints none for a spec it cannot render (318-323), `sbom` none beside a document on stdout,
  `guard_python` none ever. `ReportComplete` is therefore about the tools of `Reporting`, and
  about runs that do not end in a traceback: what `export()` raises at evidence_export.py:448
  or 458 nothing catches (`BreakOff`). `ExitCodeTrue` and `FailureTold` (a failure has said so
  on stderr) hold of all. `render_detectors` repairs what it finds, so its exit code is not about
  what was there; `sbom` without `--out` uses stdout for data and `guard_python` and
  `--self-test` ignore other arguments.
- `FuzzVerdict`: an input of a later target is found again by a run of the same length
  only, and runs of one harness side by side remove one another's directories.

## Fairness

`Fairness` of `CopiesMC` assumes that an export that was started keeps being scheduled
(an ordinary process with no locks to wait for), that exports are started again and
again (OPERATIONS.md, "Schedule": every 24 h), and that the clock runs; of the drills the
same for archives that verify, and that an operator whose drills keep being refused clears
the work directory at some point (strong fairness, because drills in between disable it).
Nothing is assumed of the server, of kills, of errors or of damage. `Tick` does not let a
live run's directory reach the stale age: the sweeps' docstrings take that for granted.
`EveryRunEnds` and `EveryLeftoverGoes` are stated as `[]<>`: a run that ends infinitely
often ends whenever it was started, and a directory that is a leftover only until it goes
is infinitely often none.

## Proofs

`NumberProofs` replaces induction, which the provers cannot do: a nonempty set of naturals
has a least member (`LeastOf`), so a claim about every number is proved by its least
counterexample, and a recursive sum, whose equation alone says little, exists and adds up
(`PartialSums`, `AddedUp`).

`DirectoryProofs` holds what exports and drills both need of a directory: `Keep` and
`Put` keep it one, and a chain that verifies holds exactly the stream up to its furthest
segment (`ChainReaches`, `ChainIsStream`), by the least segment that reaches a record.

`ExportServiceProofs`, for every set of exporters and names and every bound, from
`BoundsAssumption` and `DirectoryAssumption` alone:

- `TypeCorrect`. Inductive with `RoomForTorn` beside `TypeOK`: a line is only begun
  when there is room for its record. One lemma per action.
- `ArchivesAreKept`. Only `Publish` writes the archives, under a free name.
- `ArchivesRestore`. `ArchivesRestorable` is not inductive: what is renamed must
  still be what was verified. `RestoreInv` adds that no two runs share a staging
  directory (`Owned`), which `mkdtemp` establishes, and that the directory of a run
  about to rename is verified (`Ready`). Every step of another run touches another
  directory (`OwnStep`); a sweep or a kill can only remove or empty what nobody is
  about to rename, or make the rename fail.
- `SuccessIsCovered`. What a preflight saw may expire, grow or be copied half by the time
  the archive is named, so no single state of the source covers it. `ServiceInv` says that
  some member of the run's listing vouches for each record (`Carried`): a segment only
  grows and one that expired does not come back (`Streams`), so wherever that member still
  is, in the source or among the copies, it reaches the record. At the rename, and when a
  retry finds the archive the same, every member is there and the chain verifies, so the
  record is archived (`Vouched`).
- `StagingIsSound`. A live run's directory is never older than `StaleAge` (`Timely`, which
  rests on `Tick`'s guard) and its run read its instant no later than now, so it is stale
  for no sweep. The leftovers are counted by `LeftoversCounted`: only a
  kill, `SweepRaises` and `CleanupIgnored` add one (`FaultLeavesOne`), and each adds to
  `strays`.
- `ExportsAreTheService`. The step simulation of `ArchiveStore`: a preflight that passes is
  `Ask`, `Publish` is `Store`, `Cleanup` is `Confirm` or `Refuse`, a failed listing or
  preflight and a kill are `Refuse`, a finished record is `Write`, the rest are stutters.
  `ServiceInv` supplies what each needs: a verified source is the stream so far
  (`ChainIsWritten`), and an archive reaches no further than was written (`Below`).

- `ExportsAreSound` joins these to `ArchivesRestore`. `CopiesAreSound`, in
  `RestoreDrillProofs`, says so of the composition `CopiesMC` checks: its behaviours are
  those of one group or the other (`ComposedExports`, `ComposedDrills`), so the theorems
  of both hold of it, from `CopiesAssumption`, which gives the instance of the exports its
  constants.
- `QuietExportsPass`. An export's preflight, copies and rename fail only for a cause, and
  with no kill, error, damage or writer only the sweep's report is left. `QuietInv` is
  stated of quiet states alone, which needs that a quiet state follows quiet ones only
  (`WasQuiet`): a segment that lost its first record does not get it back (`FirstKept`) and
  faults are counted. Every copy and every archive is then what the directory began with
  (`Unspoilt`, `AllBegun`), so the second read finds no difference and a retry meets its
  own evidence.

`RestoreDrillProofs`, for any drills, archives and work directories, from
`DirectoryAssumption` and `DrillAssumption`:

- `OnlySoundWork`, `NothingTakenOrLeft`, `PassedMeansRestored`, from one invariant,
  `DrillInv`. A file the drill verified, awaits and nobody touched is in the archive as the
  manifest attests it (`ArchiveOK`), so the members it lists are the manifest's but for
  touched ones (`MembersOK`), and so is what it stages (`StagedOK`, `AsAttested`). The chain
  walk over the staged copies refuses a record cut short (`NoneTorn`) whoever cut it.
  Nobody else writes a drill's staging directory (`Owned`) and no sweep takes it (`Timely`),
  so what the moves put into a work directory of its own is the chain that was walked
  (`Whole`, `InPlace`). With a shared work directory the first two theorems still hold. The
  leftovers are counted as the exports' are (`StrayLeavesOne`).
- `GoodDrillsPass`, also for shared work directories. Without a fault the archives are what
  they were (`AsStored`), what a drill staged is what the manifest attests and what it moved
  is still in the work directory (`OnCourse`), where no segment is empty (`WorkFull`), also
  if two drills moved theirs there; so the readback finds its files.

`BackupStatusProofs`, for any clients, window, slack and depth of the root, from
`StatusAssumption`:

- `StatusTypes` and `GreenIsCovered`. That exit code 0 means coverage needs the
  chain from a request to the verdict: a request asks for all that was written before
  its preflight (`AskedFor`), so an archive holds what was written `Slack` before its
  date (`Holds`); the check's dates are those of stored archives and what it settled
  on was sound since it began (`ChecksTruly`); a green verdict names such an archive
  inside the window (`GreenIsRecent`).
- `UndisturbedIsRight`. The verdict of a check nothing came between is exact. `Settled`
  says what its loop has ruled out: every newer archive that has a date was looked at and
  does not verify. That adjacent dates lie no further apart than the window is the same
  as an archive in the window before every instant, by the latest date before an instant
  and the least one after it. Where no neighbours are exactly the window apart, there is nothing
  for rounding to decide (`NotEdgedNotRounded`).

`EvidenceChainProofs`, for every stream, window and cap, from `HashAssumption`,
`BoundAssumption` and `StreamAssumption` (the stream is finite, and cut into segments):

- `ReportIsExact` and `CleanIsUnbroken`. `ChainInv` ties the state of the walk to the
  place it has reached (`WalkPlace`): the hashes it carries, and whether the segment before
  could be linked to (`WalkLinks`); each finding kept has its cause (`WalkJustified`) and
  each break behind the walk, in a segment read to its end, is named or the cap hid some
  (`WalkNamed`); counts are of readable segments, each once and in order (`WalkCounts`);
  without a repeat so far, the window holds the last eventIds in order (`WalkWindow`), so
  that a walk with no finding has met no repeat and an unbroken one has no finding
  (`WalkVerdict`).
- That an unbroken stream is fixed by its last hash (`FinalRecordFixesAll`) is an argument
  from the least distance to the end at which two streams differ, since the hash is
  injective; that is how tampering is evident to whoever kept the last hash.

`OperatorProofs`:

- `HashVouchesForSettings`, for every release, file and environment. The check is brought
  rule by rule to `Accepted`, and `Accepted` to the settings once loaded. `ConfigInv` keeps
  that a hash on record is of settings that were safe where it was printed. It rests on
  what the shipped schema says: `kick`, `tempBanLocal`, `webhook.enabled` and
  `dashboard.enabled` default to false and paths lie inside the root (`DefaultAssumption`),
  and on the shapes of releases and of the file as shipped (`ReleaseAssumption`,
  `NoValueAssumption`, `ShippedFileAssumption`).
- `SpellingDefaultsIsSafe`. Spelling out a default leaves `Effective` and so the hash.
- `PassedMeansCopied` and `UndisturbedIsExact`, from `SecretBoundsAssumption` and
  `SecretPathAssumption`. No state holds what a drill saw, so `CopyInv` relates the
  digests it took to what live file and copy have held since it began (`Watched`,
  `CopiesSeen`, `OwnContent`); for a drill nothing came between, nothing was found so far
  exactly when the files it is through with are sound (`FoundSoFar`).
- `HostsGetOneVerdict`, from `NamesAssumption`. Where names differ by more than case, every
  host's glob and lookup find the same files (`GlobsAgree`, `WalksAgree`), so walk, members
  and verdict agree; and a member that is listed, not dotted, no device and unique up to
  case opens as itself everywhere.
- `ExitCodesTell`, from `WorldAssumption`, for any number of checks and findings and any cap.
  `CmdInv` speaks of the whole report, what was printed followed by what is pending
  (`Told`): printing a line moves it and changes nothing, since the streams were made safe
  before the first one. A run that breaks off has its traceback on stderr and nothing else.
  The loop of `doccheck` keeps that the verdict comes first and that each check told so far
  is accounted for (`ManyTold`): its list leaves the others alone, and what the cap leaves
  out its last line counts.
- `DamageShows`, from `ArchiveAssumption`: exports are directories whose chain holds, which
  `ExportServiceProofs` shows of what a run renames, and names and markers are distinct.
  `ArchiveInv` says that damage leaves segments where segments were (`DamageFileKeeps`), that
  an edited manifest keeps the shape of one (`EditEntryKeeps`), and that as long as nobody
  forged a digest every manifest carries that of the export. What is accepted has a digest
  that covers it, so it is then the export's own (`SameDigest`), and each entry finds its
  content (`AcceptedEntry`). Under a forged digest the entries still answer to the files and
  no file is unlisted; where entries are as many as names none is listed twice, segments of a
  chain do not overlap (`SegmentsApart`), so counts add up to the records there are
  (`PartsAddUp`).

`RepositoryProofs`:

- `RuntimeReachable`, for every lock. Reachability is the least set that holds the roots
  and is closed under dependencies, so no recursion over the lock is needed. `WalkInv`
  says that a walk under way has lost no described package (roots and the dependencies of
  what was seen are seen or queued) and taken none it should not have (`seen` and `queue`
  lie in every closed set); when the queue is empty the first makes `seen` closed
  (`WalkComplete`).
- `OneDocument`. So the document is `Inventory`, a function of the lock alone
  (`DocumentIsInventory`), whatever the order of the worklist and however often it runs.
- `NothingIsOmitted`, from `LockAssumption` (a lock is a list): the last entry of a name
  exists (`LargestOf`), so no package or edge is dropped.
- `FailuresReplay`, for any number of runs of any `Iterations`. `HarnessInv` says that
  nobody is beside an undisturbed run, that its place in the random stream fixes target
  and iteration (`TargetAt`), that all it has passed is sound and that what it built is
  what lies in its directory (`InPlace`): the first report is therefore the first input
  that breaks, for every such run. `RunDirInv`: the directory is what was handed last.
- `NoKeyWithoutValue`, from `ContractAssumption` (keys are paths, and what is above a key
  of the shipped schema is a section). `ContractInv` keeps the second through every edit,
  also when a subtree is dropped (`AboveTransitive`): a value has nothing below it, so the
  walk's leaves are all values.
- `GateMeansTested` and `NothingMoves`, from `TreeAssumption` (the fields of the files, and
  that one step of the shipped workflow installs uv). Given that step, the first version
  line is its version (`UvIsPinned`), so a set range and equal versions pin it. The first
  theorem is conditional on what no gate reads, as said above.
- `ReleasesAreTold`, from `VersionAssumption` (a version is three numbers). The gate looks
  at neighbours. Neighbours that descend make all sections descend (`AllDescend`, by least
  counterexample), and what lies between two versions of one minor line is of that line
  (`LineIsConvex`): so a break inside a line is a neighbour's, and the release before is
  the neighbour the guide is asked about.
- `ShippedTreesFit`, from `ModeAssumption` (a mode is one of the three that are ranked), for
  any three files: the gate relates them as they stand, so no invariant is needed. Without
  duplicates each id has its one place in spec and manifest (`Placed`), which makes the
  last record of an id the one that was rendered.
- `DocumentsAreRead`, from `DocAssumption` (paths have a name, and no fence marker is the
  mark of none). A path that passes is the last of the prefixes that were matched. What
  gate and reader take a line to be in are recursions from line to line: a function on the
  lines so far can be continued by the next (`GateReading`, `ReaderReading`,
  `OfferReading`, by least counterexample, `LineByLine`), and where no block quotes the
  other marker the two are the same (`SameFences`). After n lines the reader's page offers
  of each heading at least the numbers below its repeats (`AnchorsOffered`), since the
  first number that is free follows numbers that are taken (`FirstFree`).
- `VerdictIsSound`, from `DepthAssumption`, `WalkAssumption` and `SchemaAssumption`. Calls,
  parts and walks are made level by level, each from the one before (`Calling`, `Nesting`,
  `Walking`); findings are made from the deepest call up, where nothing is asked of what is
  below (`Finding`, `Holding`). Then one call is compared with the schema's meaning, given
  what its calls below found (`VerdictAgrees`), and so all of them, from the deepest up
  (`CallsAgree`); a call too deep leaves an error on every call above it (`TooDeep`). For the
  gate, an accepted part is settled by a subschema that the walk for bags reaches and that
  itself says what the part holds (`HeldIsSettled`), so what stands in it is held too
  (`HeldInside`); a key of the writer's own is there only where that subschema is open,
  hence a bag, hence guarded (`BagIsGuarded`).
- `AcceptedTracesReplay` and `SealsHideNothing`, from `TraceAssumption` (what an edit may
  write where) and `WrongValues`, with the types of a trace as the invariant. An accepted
  case has an event and agrees with the detector on each, and is given what its class asks
  for (`CaseHolds`), so a replay's projection is the sealed one. The sum of the charges is a
  recursive function that adds up (`SumsAre`) and grows with its terms (`SumsGrow`), and
  where no case charges less than nothing no
  part of them exceeds the whole.

Only model-checked: liveness, which needs fairness, `EveryRunEnds` and `EveryLeftoverGoes`.

## Plan

Every invariant and every action property that a passing run checks is proved. What is left
is out of the provers' reach, or under "Not modelled".

## Not modelled

- The `--self-test` bodies of the tools and `self_test_common.py`: lists of examples with
  an expected verdict. They run inside one process on fixed inputs.
- The wording and layout of reports, tables and documents; the parser of one JSON line;
  regular expressions over prose (em dashes, heading style, folder layout, JSON
  examples in documents). A property of these would be about characters.
- What the fuzzers draw beyond the mutations used as edits: each harness's input space is
  that of the model of the tool it drives.
- The server mod: nothing to translate but placeholders. Its writer is the environment of
  the exports, the rotation of its keys that of the drill's cross-checks.
- A run slower than the stale age, and a clock that steps back, are outside
  `ArchiveExport` and `RestoreDrill`; two drills given one empty work directory can both
  go on.
- What the models exhibit and no property forbids: a third copy of an event within the
  window of the second only is not reported; a tombstone breaks the chain; a leftover
  younger than the stale age survives the next export; `indexFile` is asked of the source,
  not of the copies; a write of the SBOM that is cut short leaves part of a file.
