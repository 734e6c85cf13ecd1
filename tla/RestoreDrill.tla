---------------------------- MODULE RestoreDrill ----------------------------
(***************************************************************************)
(* drill() of tools/restore_drill.py, run by several processes whose work  *)
(* directories have one parent.  A drill verifies an archive, stages a     *)
(* copy beside the work directory, verifies the copy, moves it into place  *)
(* file by file and reads it back.                                         *)
(*                                                                         *)
(* One step is one filesystem call that another process can come between.  *)
(***************************************************************************)
EXTENDS EvidenceDirectory

CONSTANTS
    Drill,          \* processes running drill()
    WorkDir,        \* work directories, all with one parent
    Target,         \* drill |-> the work directory it is given
    Archive,        \* archives that can be drilled
    Vault,          \* archive |-> what it holds before anything is damaged
    ConfigChoice,   \* what --config can turn out to be
    StagingName,    \* the names mkdtemp can draw
    NoName,
    MaxClock,       \* bound: the last instant
    StaleAge,       \* STALE_STAGING_AGE_SECONDS, in clock units
    MaxFaults,      \* bound: kills, calls that raise, and damage to archives
    Damaged         \* what damage can make of a file: contents, of segments and indexes

\* "none": no --config; "unreadable": cc.load refuses it; "foreign": it, or a key
\* file it names, does not belong to the restored records; "own": it does.
Config == {"none", "unreadable", "foreign", "own"}

ASSUME DrillAssumption ==
    /\ Target \in [Drill -> WorkDir] /\ ConfigChoice \subseteq Config
    /\ \A a \in Archive :
          /\ DOMAIN Vault[a] = {"files", "manifest", "attested", "index"}
          /\ IsDirectory(Vault[a].files) /\ IsDirectory(Vault[a].manifest)
    /\ MaxClock \in Nat /\ StaleAge \in Nat /\ MaxFaults \in Nat
    /\ NoName \notin StagingName

Instant == 0..MaxClock

VARIABLES
    archives,  \* archive |-> what it holds
    work,      \* work directory |-> its files; an absent directory is not in the domain
    clock,     \* the wall clock
    staging,   \* staging name |-> what the staging directory holds
    run,       \* drill |-> the state of its drill() call
    faults,    \* how often a process was killed, a call raised or an archive was damaged
    strays     \* history: how many of those left a staging directory

vars == <<archives, work, clock, staging, run, faults, strays>>

Resting == {"idle", "refused", "failed", "passed"}
Staged == {"copy", "compare", "open", "move", "cleanup"}
Phases == Resting \cup Staged \cup {"target", "stage", "readback"}

NoFiles == [f \in {} |-> 0]
Fresh(a) == [pc |-> "idle", of |-> a, config |-> "none", members |-> {}, cutoff |-> 0, todo |-> {},
             reported |-> FALSE, dir |-> NoName, pending |-> {}, touched |-> {}, failed |-> FALSE]

Live(d) == \E p \in Drill : run[p].pc \in Staged /\ run[p].dir = d
Held(w) == IF w \in DOMAIN work THEN work[w] ELSE NoFiles
-----------------------------------------------------------------------------
Init ==
    /\ archives = [a \in Archive |-> Vault[a].files]
    /\ work \in UNION {[W -> {NoFiles}] : W \in SUBSET WorkDir}
    /\ clock = 0
    /\ staging = [d \in {} |-> 0]
    /\ run \in [Drill -> {Fresh(a) : a \in Archive}]
    /\ faults = 0 /\ strays = 0
-----------------------------------------------------------------------------
(* The surroundings.                                                        *)

\* A live drill touches its staging directory more often than StaleAge: the sweep's
\* docstring takes this for granted.
Tick ==
    /\ clock < MaxClock
    /\ \A d \in DOMAIN staging : Live(d) => clock + 1 - staging[d].mtime <= StaleAge
    /\ clock' = clock + 1
    /\ UNCHANGED <<archives, work, staging, run, faults, strays>>

\* A fault; no fault that leaves a directory comes so late that the bounded clock
\* could not age what it leaves.
Fault == faults < MaxFaults /\ faults' = faults + 1
StrayFault == Fault /\ clock + StaleAge < MaxClock

\* The files drill p has verified in the archive and has yet to copy and compare.
Awaited(p) ==
    CASE run[p].pc \in {"target", "stage"} -> File
      [] run[p].pc \in {"copy", "compare"} -> run[p].pending
      [] OTHER -> {}

\* A file of an archive is lost, or its content becomes another: a record cut short, a
\* segment cut at a record boundary, an index rewritten.  The drills that verified the
\* archive and still have to copy the file keep in mind (history) that it was touched.
Damage(a, f) ==
    /\ Fault
    /\ f \in DOMAIN archives[a]
    /\ \/ archives' = [archives EXCEPT ![a] = Keep(@, DOMAIN @ \ {f})]
       \/ \E c \in Damaged \cap (IF f = IndexFile THEN IndexContent ELSE SegmentContent) :
             /\ c # archives[a][f]
             /\ archives' = [archives EXCEPT ![a] = Put(@, f, c)]
    /\ run' = [p \in Drill |->
                 IF run[p].of = a /\ f \in Awaited(p) THEN [run[p] EXCEPT !.touched = @ \cup {f}]
                 ELSE run[p]]
    /\ UNCHANGED <<work, clock, staging, strays>>

\* The operator clears a work directory no drill is using.
Clear(w) ==
    /\ w \in DOMAIN work /\ \A p \in Drill : Target[p] = w => run[p].pc \in Resting
    /\ work' = Keep(work, DOMAIN work \ {w})
    /\ UNCHANGED <<archives, clock, staging, run, faults, strays>>
-----------------------------------------------------------------------------
(* One drill() call.                                                        *)

Step(p, from, to) == run[p].pc = from /\ run' = [run EXCEPT ![p] = to]

Failing(p) == [run[p] EXCEPT !.failed = TRUE, !.pc = "cleanup"]
Ended(p, verdict) ==
    [Fresh(run[p].of) EXCEPT !.pc = verdict, !.config = run[p].config, !.reported = run[p].reported]

\* The archive is verified, then the config is loaded.
Begin(p) ==
    /\ run[p].pc \in Resting
    /\ \E a \in Archive, c \in ConfigChoice :
          run' = [run EXCEPT ![p] =
                    [Fresh(a) EXCEPT !.config = c,
                        !.pc = IF Verified([Vault[a] EXCEPT !.files = archives[a]]) /\ c # "unreadable"
                                 THEN "target" ELSE "refused"]]
    /\ UNCHANGED <<archives, work, clock, staging, faults, strays>>

\* work_dir_errors: a work directory that holds files is refused.
CheckWork(p) ==
    /\ Step(p, "target", IF Held(Target[p]) = NoFiles THEN [run[p] EXCEPT !.pc = "stage"]
                         ELSE Ended(p, "refused"))
    /\ UNCHANGED <<archives, work, clock, staging, faults, strays>>

\* The members are listed; an archive that lost its segments meanwhile is refused.
NothingToRestore(p) ==
    /\ Segments(archives[run[p].of]) = {}
    /\ Step(p, "stage", Ended(p, "refused"))
    /\ UNCHANGED <<archives, work, clock, staging, faults, strays>>

\* mkdtemp draws a name nobody has; the sweep reads the clock and lists the others.
MakeStaging(p) ==
    /\ Segments(archives[run[p].of]) # {}
    /\ \E d \in StagingName :
          /\ d \notin DOMAIN staging /\ \A q \in Drill : run[q].dir # d
          /\ Step(p, "stage", [run[p] EXCEPT !.pc = "copy", !.dir = d,
                                 !.cutoff = clock, !.todo = DOMAIN staging,
                                 !.members = DOMAIN archives[run[p].of],
                                 !.pending = DOMAIN archives[run[p].of]])
          /\ staging' = Put(staging, d, [files |-> NoFiles, mtime |-> clock])
    /\ UNCHANGED <<archives, work, clock, faults, strays>>

\* Mutant: the age is not looked at.
StaleAlways(p, d) == TRUE

Stale(p, d) == staging[d].mtime < run[p].cutoff - StaleAge

Seen(p, d, reported) ==
    run' = [run EXCEPT ![p].todo = @ \ {d}, ![p].reported = @ \/ reported]

\* A listed directory that is gone: before is_dir() looked it is skipped, after
\* it stat() or rmtree() raises and the sweep reports it.
SweepGone(p, d) ==
    /\ d \notin DOMAIN staging
    /\ \E afterIsDir \in BOOLEAN : Seen(p, d, afterIsDir)
    /\ UNCHANGED staging

SweepYoung(p, d) ==
    /\ d \in DOMAIN staging /\ ~Stale(p, d)
    /\ Seen(p, d, FALSE)
    /\ UNCHANGED staging

SweepStale(p, d) ==
    /\ d \in DOMAIN staging /\ Stale(p, d)
    /\ Seen(p, d, FALSE)
    /\ staging' = Keep(staging, DOMAIN staging \ {d})

\* A stale directory the filesystem refuses to remove is reported.
SweepRefused(p, d) ==
    /\ d \in DOMAIN staging /\ Stale(p, d)
    /\ Seen(p, d, TRUE)
    /\ UNCHANGED staging

\* _sweep_stale_staging, one listed directory.
Sweep(p) ==
    /\ run[p].pc = "copy"
    /\ \E d \in run[p].todo :
          \/ (SweepGone(p, d) \/ SweepYoung(p, d) \/ SweepStale(p, d)) /\ UNCHANGED faults
          \/ SweepRefused(p, d) /\ Fault
    /\ UNCHANGED <<archives, work, clock, strays>>

Here(p) == run[p].dir \in DOMAIN staging
First(F) == CHOOSE m \in F : \A n \in F : m <= n

\* _stage_restore: shutil.copy2 of the next member, once the sweep is over.
Copy(p) ==
    /\ run[p].todo = {} /\ run[p].pending # {}
    /\ LET m == First(run[p].pending) a == archives[run[p].of] IN
         IF m \in DOMAIN a /\ Here(p)
           THEN /\ Step(p, "copy", [run[p] EXCEPT !.pc = "compare"])
                /\ staging' = [staging EXCEPT ![run[p].dir] =
                                 [files |-> Put(@.files, m, a[m]), mtime |-> clock]]
           ELSE Step(p, "copy", Failing(p)) /\ UNCHANGED staging
    /\ UNCHANGED <<archives, work, clock, faults, strays>>

\* ... and the digests of both sides are compared.
Compare(p) ==
    /\ LET m == First(run[p].pending) a == archives[run[p].of] IN
         Step(p, "compare",
              IF m \in DOMAIN a /\ Here(p) /\ a[m] = staging[run[p].dir].files[m]
                THEN [run[p] EXCEPT !.pc = "copy", !.pending = @ \ {m}]
                ELSE Failing(p))
    /\ UNCHANGED <<archives, work, clock, staging, faults, strays>>

\* Mutant: the digests are taken for a verdict on the chain.
VerifyStagedTrusted(p) ==
    /\ run[p].todo = {} /\ run[p].pending = {}
    /\ Step(p, "copy", IF Here(p) THEN [run[p] EXCEPT !.pc = "open"] ELSE Failing(p))
    /\ UNCHANGED <<archives, work, clock, staging, faults, strays>>

\* Mutant: a staged copy whose chain does not verify is copied again.
VerifyStagedAgain(p) ==
    /\ run[p].todo = {} /\ run[p].pending = {}
    /\ Step(p, "copy", IF Here(p) /\ ChainOK(staging[run[p].dir].files)
                         THEN [run[p] EXCEPT !.pc = "open"]
                         ELSE [run[p] EXCEPT !.pending = run[p].members])
    /\ UNCHANGED <<archives, work, clock, staging, faults, strays>>

\* ... and the chain of the staged copy is verified.
VerifyStaged(p) ==
    /\ run[p].todo = {} /\ run[p].pending = {}
    /\ Step(p, "copy", IF Here(p) /\ ChainOK(staging[run[p].dir].files)
                         THEN [run[p] EXCEPT !.pc = "open"] ELSE Failing(p))
    /\ UNCHANGED <<archives, work, clock, staging, faults, strays>>

\* _move_into_place: the work directory is made, or is there already, and the
\* staged files are listed.
OpenWork(p) ==
    /\ Step(p, "open", IF Here(p) THEN [run[p] EXCEPT !.pc = "move",
                                                      !.pending = DOMAIN staging[run[p].dir].files]
                       ELSE Failing(p))
    /\ work' = Put(work, Target[p], Held(Target[p]))
    /\ UNCHANGED <<archives, clock, staging, faults, strays>>

\* The next file is moved, over one of its name if there is one.  A move that
\* raises leaves those before it where they are.
Move(p) ==
    /\ run[p].pending # {}
    /\ LET m == First(run[p].pending) d == run[p].dir w == Target[p] IN
         IF Here(p)
           THEN /\ Step(p, "move", [run[p] EXCEPT !.pending = @ \ {m}])
                /\ work' = [work EXCEPT ![w] = Put(@, m, staging[d].files[m])]
                /\ staging' = [staging EXCEPT ![d] =
                                 [files |-> Keep(@.files, DOMAIN @.files \ {m}), mtime |-> clock]]
           ELSE Step(p, "move", Failing(p)) /\ UNCHANGED <<work, staging>>
    /\ UNCHANGED <<archives, clock, faults, strays>>

Moved(p) ==
    /\ run[p].pending = {}
    /\ Step(p, "move", [run[p] EXCEPT !.pc = "cleanup"])
    /\ UNCHANGED <<archives, work, clock, staging, faults, strays>>

\* The sweep's report fails the restore like an error of its own.
Swept(p) ==
    IF run[p].failed \/ run[p].reported THEN Ended(p, "failed")
    ELSE [run[p] EXCEPT !.pc = "readback", !.dir = NoName]

\* Mutant: only a restore that succeeded removes its staging directory.
CleanupOnSuccess(p) ==
    /\ Step(p, "cleanup", Swept(p))
    /\ staging' = IF run[p].failed THEN staging ELSE Keep(staging, DOMAIN staging \ {run[p].dir})
    /\ UNCHANGED <<archives, work, clock, faults, strays>>

\* finally: the staging directory goes.
Cleanup(p) ==
    /\ Step(p, "cleanup", Swept(p))
    /\ staging' = Keep(staging, DOMAIN staging \ {run[p].dir})
    /\ UNCHANGED <<archives, work, clock, faults, strays>>

\* What a restore that is over leaves of its staging directory, last touched at t.
\* Nobody reads what is in it, so the model forgets that.
Abandon(p, t) ==
    staging' = [d \in DOMAIN staging |->
                  IF d = run[p].dir THEN [files |-> NoFiles, mtime |-> t] ELSE staging[d]]

\* finally, with ignore_errors: the removal came to nothing, or stopped half way, and
\* neither the restore nor anybody else hears of it.
CleanupIgnored(p) ==
    /\ StrayFault /\ Here(p)
    /\ Step(p, "cleanup", Swept(p))
    /\ \E t \in {staging[run[p].dir].mtime, clock} : Abandon(p, t)
    /\ strays' = strays + 1
    /\ UNCHANGED <<archives, work, clock>>

\* The sweep beside the new staging directory raises before the try is entered.
SweepRaises(p) ==
    /\ StrayFault /\ Here(p)
    /\ run[p].pending = run[p].members
    /\ Step(p, "copy", Ended(p, "failed"))
    /\ Abandon(p, staging[run[p].dir].mtime)
    /\ strays' = strays + 1
    /\ UNCHANGED <<archives, work, clock>>

\* Mutant: the index is not looked for.
ReadsRecords(p) == Records(Held(Target[p])) # {}
\* readback: there is a record to read, and the index if the manifest names one.
Reads(p) ==
    /\ Records(Held(Target[p])) # {}
    /\ Vault[run[p].of].index => IndexFile \in DOMAIN Held(Target[p])

\* The restored chain is read; with a config, its hash is looked for among the
\* records and its key files are looked at.
Readback(p) ==
    /\ Step(p, "readback", Ended(p, IF Reads(p) /\ run[p].config # "foreign" THEN "passed"
                                    ELSE "failed"))
    /\ UNCHANGED <<archives, work, clock, staging, faults, strays>>

\* A call raises OSError: past the try, the cleanup is still to come; before mkdtemp,
\* nothing is staged.
IOError(p) ==
    /\ Fault
    /\ \/ /\ run[p].pc \in {"target", "stage", "readback"}
          /\ run' = [run EXCEPT ![p] = Ended(p, "failed")]
       \/ /\ run[p].pc \in {"copy", "compare", "open", "move"} /\ run[p].todo = {}
          /\ run' = [run EXCEPT ![p] = Failing(p)]
    /\ UNCHANGED <<archives, work, clock, staging, strays>>

\* The process is killed; its staging directory, if it has one, and its work directory
\* stay.
Kill(p) ==
    /\ run[p].pc \notin Resting
    /\ run' = [run EXCEPT ![p] = Fresh(run[p].of)]
    /\ \/ /\ StrayFault /\ Here(p)
          /\ Abandon(p, staging[run[p].dir].mtime)
          /\ strays' = strays + 1
       \/ Fault /\ ~Here(p) /\ UNCHANGED <<staging, strays>>
    /\ UNCHANGED <<archives, work, clock>>

Work(p) ==
    \/ CheckWork(p) \/ NothingToRestore(p) \/ MakeStaging(p) \/ Sweep(p)
    \/ Copy(p) \/ Compare(p) \/ VerifyStaged(p)
    \/ OpenWork(p) \/ Move(p) \/ Moved(p) \/ Cleanup(p) \/ Readback(p)

Restoring(p) ==
    \/ Begin(p) \/ Work(p)
    \/ CleanupIgnored(p) \/ SweepRaises(p) \/ IOError(p) \/ Kill(p)

Surroundings ==
    \/ Tick
    \/ \E a \in Archive, f \in File : Damage(a, f)
    \/ \E w \in WorkDir : Clear(w)

Next == Surroundings \/ \E p \in Drill : Restoring(p)

Spec == Init /\ [][Next]_vars
-----------------------------------------------------------------------------
RunState == [pc : Phases, of : Archive, config : Config, members : SUBSET File, cutoff : Instant,
             todo : SUBSET StagingName, reported : BOOLEAN, dir : StagingName \cup {NoName},
             pending : SUBSET File, touched : SUBSET File, failed : BOOLEAN]

\* The types.
TypeOK ==
    /\ DOMAIN archives = Archive /\ \A a \in Archive : IsDirectory(archives[a])
    /\ DOMAIN work \subseteq WorkDir /\ \A w \in DOMAIN work : IsDirectory(work[w])
    /\ clock \in Instant
    /\ DOMAIN staging \subseteq StagingName
    /\ \A d \in DOMAIN staging :
          /\ DOMAIN staging[d] = {"files", "mtime"}
          /\ IsDirectory(staging[d].files) /\ staging[d].mtime \in Instant
    /\ run \in [Drill -> RunState]
    /\ faults \in 0..MaxFaults /\ strays \in 0..faults

\* No two drills are given one work directory.
OwnTargets == \A p, q \in Drill : Target[p] = Target[q] => p = q

\* The work directory of drill p holds a chain of files of the archive's manifest, each
\* as the manifest attests it and none missing, but for those the archive lost or had
\* changed after it was verified and before their copies were compared: the copies are
\* compared with the archive as it is then, and not with the manifest.
Restored(p) ==
    LET d == Held(Target[p]) m == Vault[run[p].of].manifest IN
    /\ DOMAIN d \subseteq DOMAIN m
    /\ \A f \in DOMAIN m \ run[p].touched : f \in DOMAIN d /\ d[f] = m[f]
    /\ ChainOK(d)
    /\ Vault[run[p].of].index => IndexFile \in DOMAIN d

\* A drill on a work directory of its own passes only with a restored chain in it,
\* whatever sweeps, damage, faults and earlier runs did: every file the archive still
\* held as verified when it was copied is there as attested, and what was damaged in
\* between got through only as a chain that verifies.
PassMeansRestored ==
    [][\A p \in Drill :
          (OwnTargets /\ run[p].pc # "passed" /\ run'[p].pc = "passed") => Restored(p)]_vars

\* No segment whose last record is cut lands in a work directory: what the chain walk
\* refuses of the damage an archive took after it was verified stops in the staging
\* directory.
WorkHoldsSound ==
    \A w \in DOMAIN work : \A s \in Segments(work[w]) : ~work[w][s].torn

\* No sweep takes the staging directory of a drill that is still using it, nor
\* any file out of it.
LiveStagingKept ==
    \A p \in Drill : run[p].pc \in Staged \ {"cleanup"} =>
        /\ Here(p)
        /\ DOMAIN staging[run[p].dir].files =
             CASE run[p].pc = "copy" -> run[p].members \ run[p].pending
               [] run[p].pc = "compare" ->
                    (run[p].members \ run[p].pending) \cup {First(run[p].pending)}
               [] run[p].pc = "move" -> run[p].pending
               [] OTHER -> run[p].members

\* A drill that ends leaves no staging directory, but for one that was killed, whose
\* sweep raised before the try, or whose removal came to nothing: an error while
\* copying, verifying or moving leaves none.
NothingLeftBehind ==
    Cardinality({d \in DOMAIN staging : ~Live(d)}) <= strays

\* Typed, and no work directory receives a segment the chain walk refuses for a record
\* cut short, however an archive is damaged between its verification and its copy.
DrillsSound == TypeOK /\ WorkHoldsSound

\* Neither a sweep nor an end takes or leaves a staging directory wrongly.
DrillStagingSound == LiveStagingKept /\ NothingLeftBehind

\* A verified archive that holds the index its manifest names, drilled with its
\* own config or none and without faults, fails in one way only: through the
\* sweep's report.
GoodDrillPasses ==
    \A p \in Drill :
        ( /\ run[p].pc = "failed" /\ faults = 0 /\ run[p].config \in {"none", "own"}
          /\ Vault[run[p].of].index => IndexFile \in DOMAIN Vault[run[p].of].files )
        => run[p].reported
=============================================================================
