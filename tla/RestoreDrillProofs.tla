------------------------- MODULE RestoreDrillProofs -------------------------
(***************************************************************************)
(* Proofs about RestoreDrill, for every number of drills, archives, files  *)
(* and faults, and every clock.                                            *)
(***************************************************************************)
EXTENDS CopiesMC, DirectoryProofs

(***************************************************************************)
(* Type correctness.                                                       *)
(***************************************************************************)
StagingOK ==
    /\ DOMAIN staging \subseteq StagingName
    /\ \A d \in DOMAIN staging :
          /\ DOMAIN staging[d] = {"files", "mtime"}
          /\ IsDirectory(staging[d].files) /\ staging[d].mtime \in Instant
WorkOK == DOMAIN work \subseteq WorkDir /\ \A w \in DOMAIN work : IsDirectory(work[w])
CountOK == faults \in 0..MaxFaults /\ strays \in 0..faults
ArchivesOK == DOMAIN archives = Archive /\ \A a \in Archive : IsDirectory(archives[a])

LEMMA NoFilesType == IsDirectory(NoFiles)
  BY DEF IsDirectory, NoFiles

LEMMA HeldType ==
    ASSUME WorkOK, NEW w PROVE IsDirectory(Held(w))
  BY NoFilesType DEF WorkOK, Held

LEMMA FreshType ==
    ASSUME NEW a \in Archive PROVE Fresh(a) \in RunState
  BY DrillAssumption DEF Fresh, RunState, Phases, Resting, Config, Instant

\* What Failing, Swept and Ended make of a run.
LEMMA SweptIs ==
    ASSUME NEW p \in Drill, run[p] \in RunState
    PROVE  \/ Swept(p) = Ended(p, "failed")
           \/ /\ ~run[p].failed /\ ~run[p].reported
              /\ Swept(p) = [run[p] EXCEPT !.pc = "readback", !.dir = NoName]
  BY DEF Swept

LEMMA FailingType ==
    ASSUME TypeOK, NEW p \in Drill PROVE Failing(p) \in RunState
<1>1. run[p] \in RunState
  BY DEF TypeOK
<1> QED BY <1>1 DEF Failing, RunState, Phases, Staged

LEMMA EndedType ==
    ASSUME TypeOK, NEW p \in Drill, NEW verdict \in Resting
    PROVE  Ended(p, verdict) \in RunState
<1>1. run[p] \in RunState /\ Fresh(run[p].of) \in RunState
  BY FreshType DEF TypeOK, RunState
<1> QED BY <1>1 DEF Ended, RunState, Phases

\* The run of p moves on; what it shares stays typed.
LEMMA RunStepType ==
    ASSUME TypeOK, NEW p \in Drill, NEW to \in RunState, run' = [run EXCEPT ![p] = to],
           StagingOK', WorkOK', UNCHANGED <<archives, clock>>, CountOK'
    PROVE  TypeOK'
  BY DEF TypeOK, StagingOK, WorkOK, CountOK

LEMMA CountSame ==
    ASSUME TypeOK, UNCHANGED <<faults, strays>> PROVE CountOK'
  BY DEF TypeOK, CountOK

\* A fault, whether it leaves a directory or not.
LEMMA CountMore ==
    ASSUME TypeOK, Fault, UNCHANGED strays \/ strays' = strays + 1 PROVE CountOK'
  BY DrillAssumption DEF TypeOK, CountOK, Fault

LEMMA StagingSame ==
    ASSUME TypeOK, UNCHANGED staging PROVE StagingOK'
  BY DEF TypeOK, StagingOK

LEMMA WorkSame ==
    ASSUME TypeOK, UNCHANGED work PROVE WorkOK'
  BY DEF TypeOK, WorkOK

LEMMA StagingLess ==
    ASSUME TypeOK, NEW D, staging' = Keep(staging, DOMAIN staging \ D) PROVE StagingOK'
  BY DEF TypeOK, StagingOK, Keep

\* A typed staging directory may be added or replaced.
LEMMA StagingSet ==
    ASSUME TypeOK, NEW d \in StagingName, NEW c, IsDirectory(c),
           DOMAIN staging' = DOMAIN staging \cup {d},
           staging'[d] = [files |-> c, mtime |-> clock],
           \A e \in DOMAIN staging : e # d => staging'[e] = staging[e]
    PROVE  StagingOK'
  BY DEF TypeOK, StagingOK

\* A typed work directory may be added or replaced.
LEMMA WorkSet ==
    ASSUME TypeOK, NEW w \in WorkDir, NEW c, IsDirectory(c),
           DOMAIN work' = DOMAIN work \cup {w}, work'[w] = c,
           \A e \in DOMAIN work : e # w => work'[e] = work[e]
    PROVE  WorkOK'
  BY DEF TypeOK, WorkOK

LEMMA InitType == Init => TypeOK
<1> SUFFICES ASSUME Init PROVE TypeOK
  OBVIOUS
<1>1. PICK W \in SUBSET WorkDir : work \in [W -> {NoFiles}]
  BY DEF Init
<1>2. WorkOK
  BY <1>1, NoFilesType DEF WorkOK
<1>3. \A a \in Archive : IsDirectory(archives[a])
  BY DrillAssumption DEF Init
<1>4. run \in [Drill -> RunState]
  BY FreshType DEF Init
<1>5. clock \in Instant /\ CountOK
  BY DrillAssumption DEF Init, Instant, CountOK
<1> QED BY <1>2, <1>3, <1>4, <1>5 DEF Init, TypeOK, WorkOK, CountOK

\* Damage touches an archive and what the drills that await the file remember of it.
LEMMA DamageRun ==
    ASSUME TypeOK, NEW a \in Archive, NEW f \in File, Damage(a, f), NEW p \in Drill
    PROVE  /\ run'[p] \in RunState
           /\ run'[p].pc = run[p].pc /\ run'[p].of = run[p].of /\ run'[p].dir = run[p].dir
           /\ run'[p].members = run[p].members /\ run'[p].pending = run[p].pending
           /\ run'[p].cutoff = run[p].cutoff /\ run'[p].failed = run[p].failed
           /\ run[p].touched \subseteq run'[p].touched
           /\ run[p].of = a /\ f \in Awaited(p) => f \in run'[p].touched
<1>1. run[p] \in RunState
  BY DEF TypeOK
<1>2. run'[p] = IF run[p].of = a /\ f \in Awaited(p) THEN [run[p] EXCEPT !.touched = @ \cup {f}]
                ELSE run[p]
  BY DEF Damage
<1> DEFINE to == [run[p] EXCEPT !.touched = @ \cup {f}]
<1>3. /\ to \in RunState /\ to.pc = run[p].pc /\ to.of = run[p].of /\ to.dir = run[p].dir
      /\ to.members = run[p].members /\ to.pending = run[p].pending
      /\ to.cutoff = run[p].cutoff /\ to.failed = run[p].failed
      /\ to.touched = run[p].touched \cup {f}
  BY <1>1 DEF RunState
<1> HIDE DEF to
<1>4. run'[p] = IF run[p].of = a /\ f \in Awaited(p) THEN to ELSE run[p]
  BY <1>2 DEF to
<1> QED BY <1>1, <1>3, <1>4

\* A damaged archive holds no file it did not hold, and its other files as they were.
LEMMA DamageIs ==
    ASSUME TypeOK, NEW a \in Archive, NEW f \in File, Damage(a, f)
    PROVE  /\ ArchivesOK' /\ UNCHANGED <<work, clock, staging, strays>> /\ Fault
           /\ \A b \in Archive : b # a => archives'[b] = archives[b]
           /\ DOMAIN archives'[a] \subseteq DOMAIN archives[a]
           /\ \A g \in DOMAIN archives[a] : g # f =>
                 g \in DOMAIN archives'[a] /\ archives'[a][g] = archives[a][g]
<1>1. IsDirectory(archives[a]) /\ f \in DOMAIN archives[a] /\ DOMAIN archives = Archive
  BY DEF TypeOK, Damage
<1>2. PICK d : /\ archives' = [archives EXCEPT ![a] = d]
               /\ \/ d = Keep(archives[a], DOMAIN archives[a] \ {f})
                  \/ \E c \in IF f = IndexFile THEN IndexContent ELSE SegmentContent :
                        d = Put(archives[a], f, c)
  BY DEF Damage
<1>3. /\ IsDirectory(d) /\ DOMAIN d \subseteq DOMAIN archives[a]
      /\ \A g \in DOMAIN archives[a] : g # f => g \in DOMAIN d /\ d[g] = archives[a][g]
  <2>1. CASE d = Keep(archives[a], DOMAIN archives[a] \ {f})
    BY <1>1, <2>1, KeepType DEF Keep
  <2>2. ASSUME NEW c \in IF f = IndexFile THEN IndexContent ELSE SegmentContent,
               d = Put(archives[a], f, c)
        PROVE  /\ IsDirectory(d) /\ DOMAIN d \subseteq DOMAIN archives[a]
               /\ \A g \in DOMAIN archives[a] : g # f => g \in DOMAIN d /\ d[g] = archives[a][g]
    BY <1>1, <2>2 DEF IsDirectory, Put
  <2> QED BY <1>2, <2>1, <2>2
<1>4. archives'[a] = d /\ DOMAIN archives' = Archive /\ \A b \in Archive : b # a => archives'[b] = archives[b]
  BY <1>1, <1>2
<1>5. ArchivesOK'
  BY <1>3, <1>4 DEF TypeOK, ArchivesOK
<1> QED BY <1>3, <1>4, <1>5 DEF Damage

LEMMA SurroundingsType == TypeOK /\ Surroundings => TypeOK'
<1>1. CASE TypeOK /\ Tick
  <2>1. clock' \in Instant
    BY <1>1, DrillAssumption DEF Tick, TypeOK, Instant
  <2> QED BY <1>1, <2>1 DEF Tick, TypeOK
<1>2. ASSUME TypeOK, NEW a \in Archive, NEW f \in File, Damage(a, f) PROVE TypeOK'
  <2>1. run' \in [Drill -> RunState]
    <3>1. \A p \in Drill : run'[p] \in RunState
      BY <1>2, DamageRun
    <3>2. DOMAIN run' = Drill /\ run' = [p \in Drill |-> run'[p]]
      BY <1>2 DEF Damage
    <3> QED BY <3>1, <3>2
  <2>2. CountOK' /\ ArchivesOK' /\ UNCHANGED <<work, clock, staging>>
    BY <1>2, DamageIs, CountMore
  <2> QED BY <1>2, <2>1, <2>2 DEF TypeOK, ArchivesOK, CountOK
<1>3. ASSUME TypeOK, NEW w \in WorkDir, Clear(w) PROVE TypeOK'
  BY <1>3 DEF Clear, TypeOK, Keep
<1> QED BY <1>1, <1>2, <1>3 DEF Surroundings

\* The steps that change no directory.
LEMMA RunOnlyType ==
    ASSUME TypeOK, NEW p \in Drill,
           \/ Begin(p) \/ CheckWork(p) \/ NothingToRestore(p) \/ Compare(p) \/ VerifyStaged(p)
           \/ Moved(p) \/ Readback(p)
    PROVE  TypeOK'
<1>1. UNCHANGED <<archives, work, clock, staging>>
  BY DEF Begin, CheckWork, NothingToRestore, Compare, VerifyStaged, Moved, Readback
<1>2. CountOK'
  BY CountSame DEF Begin, CheckWork, NothingToRestore, Compare, VerifyStaged, Moved, Readback
<1>3. \A x \in Phases : [run[p] EXCEPT !.pc = x] \in RunState
  BY DEF TypeOK, RunState
<1>4. \A x \in {"stage", "open", "cleanup", "refused", "failed", "passed"} : x \in Phases
  BY DEF Phases, Resting, Staged
<1>5. \E to \in RunState : run' = [run EXCEPT ![p] = to]
  <2>1. CASE Begin(p)
    <3>1. PICK a \in Archive, c \in ConfigChoice :
             run' = [run EXCEPT ![p] =
                    [Fresh(a) EXCEPT !.config = c,
                        !.pc = IF Verified([Vault[a] EXCEPT !.files = archives[a]]) /\ c # "unreadable"
                                 THEN "target" ELSE "refused"]]
      BY <2>1 DEF Begin
    <3>2. c \in Config /\ Fresh(a) \in RunState
      BY DrillAssumption, FreshType
    <3>3. \A x \in {"target", "refused"} : [Fresh(a) EXCEPT !.config = c, !.pc = x] \in RunState
      BY <3>2 DEF RunState, Phases, Resting
    <3> QED BY <3>1, <3>3, Zenon
  <2>2. CASE CheckWork(p)
    BY <2>2, <1>3, <1>4, EndedType DEF CheckWork, Step, Resting
  <2>3. CASE NothingToRestore(p)
    BY <2>3, EndedType DEF NothingToRestore, Step, Resting
  <2>4. CASE Compare(p)
    <3>1. run[p] \in RunState
      BY DEF TypeOK
    <3>2. \A m : [run[p] EXCEPT !.pc = "copy", !.pending = @ \ {m}] \in RunState
      BY <3>1 DEF RunState, Phases, Staged
    <3> QED BY <2>4, <3>2, FailingType DEF Compare, Step
  <2>5. CASE VerifyStaged(p)
    BY <2>5, <1>3, <1>4, FailingType DEF VerifyStaged, Step
  <2>6. CASE Moved(p)
    BY <2>6, <1>3, <1>4 DEF Moved, Step
  <2>7. CASE Readback(p)
    BY <2>7, EndedType DEF Readback, Step, Resting
  <2> QED BY <2>1, <2>2, <2>3, <2>4, <2>5, <2>6, <2>7
<1> QED BY <1>1, <1>2, <1>5, StagingSame, WorkSame, RunStepType

LEMMA FirstIsMember ==
    ASSUME NEW F \in SUBSET File, F # {} PROVE First(F) \in F
  BY FirstFile DEF First

LEMMA MakeStagingType ==
    ASSUME TypeOK, NEW p \in Drill, MakeStaging(p) PROVE TypeOK'
<1>1. PICK d \in StagingName :
         /\ Step(p, "stage", [run[p] EXCEPT !.pc = "copy", !.dir = d,
                                !.cutoff = clock, !.todo = DOMAIN staging,
                                !.members = DOMAIN archives[run[p].of],
                                !.pending = DOMAIN archives[run[p].of]])
         /\ staging' = Put(staging, d, [files |-> NoFiles, mtime |-> clock])
  BY DEF MakeStaging
<1> DEFINE to == [run[p] EXCEPT !.pc = "copy", !.dir = d,
                                !.cutoff = clock, !.todo = DOMAIN staging,
                                !.members = DOMAIN archives[run[p].of],
                                !.pending = DOMAIN archives[run[p].of]]
<1>2. to \in RunState
  <2>1. run[p] \in RunState /\ clock \in Instant /\ DOMAIN staging \in SUBSET StagingName
    BY DEF TypeOK
  <2>2. DOMAIN archives[run[p].of] \in SUBSET File
    BY <2>1 DEF TypeOK, RunState, IsDirectory
  <2> QED BY <2>1, <2>2 DEF RunState, Phases, Staged
<1>3. StagingOK'
  <2>1. /\ DOMAIN staging' = DOMAIN staging \cup {d}
        /\ staging'[d] = [files |-> NoFiles, mtime |-> clock]
        /\ \A e \in DOMAIN staging : e # d => staging'[e] = staging[e]
    BY <1>1 DEF Put
  <2> QED BY <2>1, NoFilesType, StagingSet
<1>4. run' = [run EXCEPT ![p] = to]
  BY <1>1 DEF Step
<1>5. UNCHANGED <<archives, work, clock>>
  BY DEF MakeStaging
<1>6. CountOK'
  BY CountSame DEF MakeStaging
<1> HIDE DEF to
<1> QED BY <1>2, <1>3, <1>4, <1>5, <1>6, WorkSame, RunStepType

LEMMA SweepType ==
    ASSUME TypeOK, NEW p \in Drill, Sweep(p) PROVE TypeOK'
<1>1. PICK d \in run[p].todo :
         SweepGone(p, d) \/ SweepYoung(p, d) \/ SweepStale(p, d) \/ SweepRefused(p, d)
  BY DEF Sweep
<1>2. PICK reported \in BOOLEAN : Seen(p, d, reported)
  BY <1>1 DEF SweepGone, SweepYoung, SweepStale, SweepRefused
<1> DEFINE to == [run[p] EXCEPT !.todo = @ \ {d}, !.reported = @ \/ reported]
<1>3. run[p] \in RunState /\ run \in [Drill -> RunState]
  BY DEF TypeOK
<1>4. to \in RunState
  BY <1>3 DEF RunState
<1>5. run' = [run EXCEPT ![p] = to]
  BY <1>2, <1>3 DEF Seen
<1>6. StagingOK'
  <2>1. UNCHANGED staging \/ staging' = Keep(staging, DOMAIN staging \ {d})
    BY <1>1 DEF SweepGone, SweepYoung, SweepStale, SweepRefused
  <2> QED BY <2>1, StagingSame, StagingLess
<1>7. UNCHANGED <<archives, work, clock>>
  BY DEF Sweep
<1>8. CountOK'
  <2>1. UNCHANGED <<faults, strays>> \/ (Fault /\ UNCHANGED strays)
    BY DEF Sweep
  <2> QED BY <2>1, CountSame, CountMore
<1> HIDE DEF to
<1> QED BY <1>4, <1>5, <1>6, <1>7, <1>8, WorkSame, RunStepType

LEMMA CopyType ==
    ASSUME TypeOK, NEW p \in Drill, Copy(p) PROVE TypeOK'
<1> DEFINE m == First(run[p].pending)
           a == archives[run[p].of]
           d == run[p].dir
<1>1. UNCHANGED <<archives, work, clock>>
  BY DEF Copy
<1>4. CountOK'
  BY CountSame DEF Copy
<1>2. CASE m \in DOMAIN a /\ Here(p)
  <2>1. /\ run' = [run EXCEPT ![p] = [run[p] EXCEPT !.pc = "compare"]]
        /\ staging' = [staging EXCEPT ![d] = [files |-> Put(@.files, m, a[m]), mtime |-> clock]]
    BY <1>2 DEF Copy, Step
  <2>2. run[p] \in RunState /\ d \in DOMAIN staging /\ d \in StagingName
    BY <1>2 DEF TypeOK, Here
  <2>3. [run[p] EXCEPT !.pc = "compare"] \in RunState
    BY <2>2 DEF RunState, Phases, Staged
  <2>4. IsDirectory(a) /\ IsDirectory(staging[d].files)
    BY <2>2 DEF TypeOK, RunState
  <2>5. IsDirectory(Put(staging[d].files, m, a[m]))
    BY <1>2, <2>4, PutFileType
  <2>6. /\ DOMAIN staging' = DOMAIN staging \cup {d}
        /\ staging'[d] = [files |-> Put(staging[d].files, m, a[m]), mtime |-> clock]
        /\ \A e \in DOMAIN staging : e # d => staging'[e] = staging[e]
    BY <2>1, <2>2
  <2>7. StagingOK'
    <3> HIDE DEF m, a, d
    <3> QED BY <2>2, <2>5, <2>6, StagingSet
  <2> QED BY <1>1, <1>4, <2>1, <2>3, <2>7, WorkSame, RunStepType
<1>3. CASE ~ (m \in DOMAIN a /\ Here(p))
  <2>1. run' = [run EXCEPT ![p] = Failing(p)] /\ UNCHANGED staging
    BY <1>3 DEF Copy, Step
  <2> QED BY <1>1, <1>4, <2>1, FailingType, StagingSame, WorkSame, RunStepType
<1> QED BY <1>2, <1>3

LEMMA OpenWorkType ==
    ASSUME TypeOK, NEW p \in Drill, OpenWork(p) PROVE TypeOK'
<1> DEFINE to == IF Here(p) THEN [run[p] EXCEPT !.pc = "move",
                                                !.pending = DOMAIN staging[run[p].dir].files]
                 ELSE Failing(p)
<1>1. to \in RunState
  <2>1. run[p] \in RunState /\ Failing(p) \in RunState
    BY FailingType DEF TypeOK
  <2>2. ASSUME Here(p) PROVE DOMAIN staging[run[p].dir].files \in SUBSET File
    BY <2>2 DEF TypeOK, Here, IsDirectory
  <2> QED BY <2>1, <2>2 DEF RunState, Phases, Staged
<1>2. run' = [run EXCEPT ![p] = to] /\ work' = Put(work, Target[p], Held(Target[p]))
  BY DEF OpenWork, Step
<1>3. UNCHANGED <<archives, clock, staging>>
  BY DEF OpenWork
<1>4. WorkOK'
  <2>1. WorkOK /\ Target[p] \in WorkDir
    BY DrillAssumption DEF TypeOK, WorkOK
  <2>2. IsDirectory(Held(Target[p]))
    BY <2>1, HeldType
  <2> QED BY <1>2, <2>1, <2>2 DEF WorkOK, Put
<1>5. CountOK'
  BY CountSame DEF OpenWork
<1> HIDE DEF to
<1> QED BY <1>1, <1>2, <1>3, <1>4, <1>5, StagingSame, RunStepType

LEMMA MoveType ==
    ASSUME TypeOK, NEW p \in Drill, Move(p),
           Here(p) => First(run[p].pending) \in DOMAIN staging[run[p].dir].files
    PROVE  TypeOK'
<1> DEFINE m == First(run[p].pending)
           d == run[p].dir
           w == Target[p]
<1>1. UNCHANGED <<archives, clock>>
  BY DEF Move
<1>2. CountOK' /\ run[p] \in RunState
  BY CountSame DEF Move, TypeOK
<1>3. CASE Here(p)
  <2>1. /\ run' = [run EXCEPT ![p] = [run[p] EXCEPT !.pending = @ \ {m}]]
        /\ work' = [work EXCEPT ![w] = Put(work[w], m, staging[d].files[m])]
        /\ staging' = [staging EXCEPT ![d] =
                         [files |-> Keep(staging[d].files, DOMAIN staging[d].files \ {m}),
                          mtime |-> clock]]
    BY <1>3 DEF Move, Step
  <2>2. [run[p] EXCEPT !.pending = @ \ {m}] \in RunState
    BY <1>2 DEF RunState
  <2>3. d \in DOMAIN staging /\ d \in StagingName /\ IsDirectory(staging[d].files)
    BY <1>3 DEF Here, TypeOK
  <2>4. StagingOK'
    <3> DEFINE c == Keep(staging[d].files, DOMAIN staging[d].files \ {m})
    <3>1. IsDirectory(c)
      BY <2>3, KeepType
    <3>2. /\ DOMAIN staging' = DOMAIN staging \cup {d}
          /\ staging'[d] = [files |-> c, mtime |-> clock]
          /\ \A e \in DOMAIN staging : e # d => staging'[e] = staging[e]
      BY <2>1, <2>3
    <3> HIDE DEF c, m, d
    <3> QED BY <2>3, <3>1, <3>2, StagingSet
  <2>5. WorkOK'
    <3> DEFINE c == Put(work[w], m, staging[d].files[m])
    <3>1. w \in DOMAIN work => IsDirectory(c)
      <4>1. w \in DOMAIN work => IsDirectory(work[w])
        BY DEF TypeOK
      <4> QED BY <4>1, <1>3, <2>3, PutFileType
    <3>2. WorkOK
      BY DEF TypeOK, WorkOK
    <3>3. work' = [work EXCEPT ![w] = c]
      BY <2>1
    <3> HIDE DEF c, m, d, w
    <3>4. DOMAIN work' = DOMAIN work /\ \A e \in DOMAIN work : work'[e] = IF e = w THEN c ELSE work[e]
      BY <3>3
    <3> QED BY <3>1, <3>2, <3>4 DEF WorkOK
  <2> QED BY <1>1, <1>2, <2>1, <2>2, <2>4, <2>5, RunStepType
<1>4. CASE ~Here(p)
  <2>1. run' = [run EXCEPT ![p] = Failing(p)] /\ UNCHANGED <<work, staging>>
    BY <1>4 DEF Move, Step
  <2> QED BY <1>1, <1>2, <2>1, FailingType, StagingSame, WorkSame, RunStepType
<1> QED BY <1>3, <1>4

LEMMA SweptType ==
    ASSUME NEW p \in Drill, run[p] \in RunState, TypeOK PROVE Swept(p) \in RunState
<1>1. [run[p] EXCEPT !.pc = "readback", !.dir = NoName] \in RunState
  BY DEF RunState, Phases
<1> QED BY <1>1, EndedType DEF Swept, Resting

LEMMA CleanupType ==
    ASSUME TypeOK, NEW p \in Drill, Cleanup(p) PROVE TypeOK'
<1>1. Swept(p) \in RunState
  BY SweptType DEF TypeOK
<1>2. /\ run' = [run EXCEPT ![p] = Swept(p)]
      /\ staging' = Keep(staging, DOMAIN staging \ {run[p].dir})
      /\ UNCHANGED <<archives, work, clock, faults, strays>>
  BY DEF Cleanup, Step
<1> QED BY <1>1, <1>2, CountSame, StagingLess, WorkSame, RunStepType

(***************************************************************************)
(* What a fault does to drill p: it ends the run or sends it to its        *)
(* cleanup, and changes no staging directory but the run's own.            *)
(***************************************************************************)
FaultStep(p) == CleanupIgnored(p) \/ SweepRaises(p) \/ IOError(p) \/ Kill(p)

LEMMA FaultIs ==
    ASSUME TypeOK, NEW p \in Drill, FaultStep(p)
    PROVE  /\ UNCHANGED <<archives, work, clock>> /\ run[p].pc \notin Resting /\ Fault
           /\ \A q \in Drill : q # p => run'[q] = run[q]
           /\ \/ /\ run' = [run EXCEPT ![p] = Failing(p)] /\ UNCHANGED <<staging, strays>>
                 /\ run[p].pc \in Staged
              \/ /\ \/ run' = [run EXCEPT ![p] = Swept(p)] /\ run[p].pc = "cleanup"
                    \/ run' = [run EXCEPT ![p] = Ended(p, "failed")]
                    \/ run' = [run EXCEPT ![p] = Fresh(run[p].of)]
                 /\ \/ strays' = strays + 1
                    \/ UNCHANGED <<staging, strays>> /\ (run[p].pc \notin Staged \/ ~Here(p))
           /\ DOMAIN staging' = DOMAIN staging /\ StagingOK'
           /\ \A d \in DOMAIN staging : d # run[p].dir => staging'[d] = staging[d]
<1>0. StagingOK /\ clock \in Instant /\ run \in [Drill -> RunState]
  BY DEF TypeOK, StagingOK
<1>1. UNCHANGED <<archives, work, clock>> /\ run[p].pc \notin Resting /\ Fault
  BY DEF FaultStep, CleanupIgnored, SweepRaises, IOError, Kill, StrayFault, Step, Resting
<1>2. ASSUME NEW t \in Instant, Abandon(p, t)
      PROVE  /\ DOMAIN staging' = DOMAIN staging /\ StagingOK'
             /\ \A d \in DOMAIN staging : d # run[p].dir => staging'[d] = staging[d]
  <2> DEFINE c == [files |-> NoFiles, mtime |-> t]
  <2>1. DOMAIN c = {"files", "mtime"} /\ IsDirectory(c.files) /\ c.mtime \in Instant
    BY NoFilesType
  <2>2. staging' = [d \in DOMAIN staging |-> IF d = run[p].dir THEN c ELSE staging[d]]
    BY <1>2 DEF Abandon
  <2> HIDE DEF c
  <2> QED BY <1>0, <2>1, <2>2 DEF StagingOK
<1>3. Here(p) => staging[run[p].dir].mtime \in Instant
  BY <1>0 DEF StagingOK, Here
<1>4. UNCHANGED staging => StagingOK'
  BY <1>0 DEF StagingOK
<1>5. \A to : run' = [run EXCEPT ![p] = to] => \A q \in Drill : q # p => run'[q] = run[q]
  BY <1>0
<1>6. CASE CleanupIgnored(p)
  <2>1. \E t \in Instant : Abandon(p, t)
    BY <1>0, <1>3, <1>6 DEF CleanupIgnored
  <2>2. run' = [run EXCEPT ![p] = Swept(p)] /\ run[p].pc = "cleanup" /\ strays' = strays + 1
    BY <1>6 DEF CleanupIgnored, Step
  <2> QED BY <1>1, <1>2, <1>5, <2>1, <2>2
<1>7. CASE SweepRaises(p)
  <2>1. \E t \in Instant : Abandon(p, t)
    BY <1>3, <1>7 DEF SweepRaises
  <2>2. run' = [run EXCEPT ![p] = Ended(p, "failed")] /\ strays' = strays + 1
    BY <1>7 DEF SweepRaises, Step
  <2> QED BY <1>1, <1>2, <1>5, <2>1, <2>2
<1>8. CASE IOError(p)
  <2>1. UNCHANGED <<staging, strays>>
    BY <1>8 DEF IOError
  <2>2. \/ run' = [run EXCEPT ![p] = Ended(p, "failed")] /\ run[p].pc \notin Staged
        \/ run' = [run EXCEPT ![p] = Failing(p)] /\ run[p].pc \in Staged
    BY <1>8 DEF IOError, Staged
  <2> QED BY <1>1, <1>4, <1>5, <2>1, <2>2
<1>9. CASE Kill(p)
  <2>1. run' = [run EXCEPT ![p] = Fresh(run[p].of)]
    BY <1>9 DEF Kill
  <2>2. CASE Here(p) /\ Abandon(p, staging[run[p].dir].mtime) /\ strays' = strays + 1
    BY <1>1, <1>2, <1>3, <1>5, <2>1, <2>2
  <2>3. CASE ~Here(p) /\ UNCHANGED <<staging, strays>>
    BY <1>1, <1>4, <1>5, <2>1, <2>3
  <2> QED BY <1>9, <2>2, <2>3 DEF Kill
<1> QED BY <1>6, <1>7, <1>8, <1>9 DEF FaultStep

LEMMA FaultType ==
    ASSUME TypeOK, NEW p \in Drill, FaultStep(p) PROVE TypeOK'
<1>1. run[p] \in RunState
  BY DEF TypeOK
<1>2. \E to \in RunState : run' = [run EXCEPT ![p] = to]
  <2>1. Fresh(run[p].of) \in RunState
    BY <1>1, FreshType DEF RunState
  <2> QED BY <1>1, <2>1, FaultIs, FailingType, SweptType, EndedType DEF Resting
<1>3. CountOK' /\ StagingOK' /\ UNCHANGED <<archives, work, clock>>
  BY FaultIs, CountMore
<1> QED BY <1>2, <1>3, WorkSame, RunStepType

(***************************************************************************)
(* The inductive invariant.  A drill is safe because nobody else writes    *)
(* its staging directory and no sweep takes it; what it copies of a file   *)
(* that was not touched since the archive was verified is what the         *)
(* manifest attests; and of the others the chain walk lets through only    *)
(* what makes a chain.                                                     *)
(***************************************************************************)
Copying == Staged \ {"cleanup"}
Looking == {"target", "stage", "copy", "compare"}
InStaging(p) == staging[run[p].dir].files
AttestedFiles(p) == Vault[run[p].of].files
Manifest(p) == Vault[run[p].of].manifest

NoneTorn(d) == \A s \in Segments(d) : ~d[s].torn
Owned == \A p, q \in Drill : p # q /\ run[p].dir = run[q].dir => run[p].dir = NoName
Timely ==
    /\ \A p \in Drill : run[p].cutoff <= clock
    /\ \A d \in DOMAIN staging : Live(d) => clock - staging[d].mtime <= StaleAge

\* The archive holds no file the manifest does not, and as attested those the drill
\* awaits and nothing touched.
ArchiveOK(p) ==
    run[p].pc \in Looking =>
        /\ DOMAIN archives[run[p].of] \subseteq DOMAIN Manifest(p)
        /\ \A f \in DOMAIN Manifest(p) \ run[p].touched : f \in Awaited(p) =>
              /\ f \in DOMAIN archives[run[p].of]
              /\ archives[run[p].of][f] = Manifest(p)[f]

\* The members listed are the manifest's, but for what was lost before the listing.
Moving(p) == run[p].pc \in {"move", "readback"} \/ (run[p].pc = "cleanup" /\ ~run[p].failed)
MembersOK(p) ==
    run[p].pc \in Copying \/ Moving(p) =>
        /\ run[p].members \subseteq DOMAIN Manifest(p)
        /\ DOMAIN Manifest(p) \ run[p].touched \subseteq run[p].members

\* What of d was not touched is as the manifest attests it.
AsAttested(p, d) ==
    \A f \in DOMAIN d \ run[p].touched : f \in DOMAIN Manifest(p) /\ d[f] = Manifest(p)[f]

\* What is staged: the conjunct of LiveStagingKept, and what the files are worth.
StagedOK(p) ==
    run[p].pc \in Copying =>
        /\ Here(p)
        /\ run[p].pc = "copy" => DOMAIN InStaging(p) = run[p].members \ run[p].pending
        /\ run[p].pc = "compare" =>
             DOMAIN InStaging(p) = (run[p].members \ run[p].pending) \cup {First(run[p].pending)}
        /\ run[p].pc = "open" => DOMAIN InStaging(p) = run[p].members /\ ChainOK(InStaging(p))
        /\ run[p].pc = "move" => DOMAIN InStaging(p) = run[p].pending /\ NoneTorn(InStaging(p))
        /\ AsAttested(p, InStaging(p))
PendingOK(p) ==
    /\ run[p].pc \in {"copy", "compare", "move"} => run[p].pending \subseteq run[p].members
    /\ run[p].pc = "compare" => run[p].pending # {}
    /\ run[p].pc = "open" => run[p].pending = {}

\* A work directory of one's own is empty up to the move, and from then on holds
\* what was moved; what is still to be moved completes the chain.
Whole(p) == [f \in run[p].members |-> IF f \in run[p].pending THEN InStaging(p)[f]
                                      ELSE work[Target[p]][f]]
InPlace(p) ==
    /\ run[p].pc \in {"stage", "copy", "compare", "open"} => DOMAIN Held(Target[p]) = {}
    /\ Moving(p) =>
        /\ Target[p] \in DOMAIN work
        /\ DOMAIN work[Target[p]] = run[p].members \ run[p].pending
        /\ AsAttested(p, work[Target[p]])
        /\ run[p].pc = "move" => ChainOK(Whole(p))
        /\ run[p].pc # "move" => run[p].pending = {} /\ ChainOK(work[Target[p]])
Good(p) ==
    ArchiveOK(p) /\ MembersOK(p) /\ StagedOK(p) /\ PendingOK(p) /\ (OwnTargets => InPlace(p))

DrillInv == TypeOK /\ Owned /\ Timely /\ WorkHoldsSound /\ \A p \in Drill : Good(p)

LEMMA AwaitedIs ==
    ASSUME NEW p
    PROVE  /\ run[p].pc \in {"target", "stage"} => Awaited(p) = File
           /\ run[p].pc \in {"copy", "compare"} => Awaited(p) = run[p].pending
  BY DEF Awaited

\* The run moves on over the same archive and the same members.
LEMMA StillOK ==
    ASSUME NEW p, ArchiveOK(p), MembersOK(p), UNCHANGED archives,
           run'[p].of = run[p].of, run'[p].touched = run[p].touched,
           run'[p].members = run[p].members,
           run'[p].pc \in Looking => run[p].pc \in Looking /\ Awaited(p)' \subseteq Awaited(p),
           run'[p].pc \in Copying \/ Moving(p)' => run[p].pc \in Copying \/ Moving(p)
    PROVE  ArchiveOK(p)' /\ MembersOK(p)'
<1>1. Manifest(p)' = Manifest(p)
  BY DEF Manifest
<1>2. ArchiveOK(p)'
  BY <1>1 DEF ArchiveOK
<1>3. MembersOK(p)'
  BY <1>1 DEF MembersOK
<1> QED BY <1>2, <1>3

\* AsAttested survives what is remembered of more damage.
LEMMA AttestedStays ==
    ASSUME NEW p, NEW d, AsAttested(p, d), run'[p].of = run[p].of,
           run[p].touched \subseteq run'[p].touched
    PROVE  \A f \in DOMAIN d \ run'[p].touched : f \in DOMAIN Manifest(p)' /\ d[f] = Manifest(p)'[f]
  BY DEF AsAttested, Manifest

LEMMA InitInv == Init => DrillInv
<1> SUFFICES ASSUME Init PROVE DrillInv
  OBVIOUS
<1>1. \A p \in Drill : run[p].pc = "idle" /\ run[p].dir = NoName /\ run[p].cutoff = 0
  BY DEF Init, Fresh
<1>3. Owned /\ Timely
  BY <1>1 DEF Init, Owned, Timely
<1>4. WorkHoldsSound
  BY DEF Init, WorkHoldsSound, Segments, NoFiles
<1>5. \A p \in Drill : Good(p)
  BY <1>1 DEF Good, ArchiveOK, MembersOK, Looking, StagedOK, PendingOK, InPlace, Moving, Copying,
              Staged
<1> QED BY <1>3, <1>4, <1>5, InitType DEF DrillInv

\* Damage takes from what a drill awaits only what the drill remembers as touched.
LEMMA DamageInv ==
    ASSUME DrillInv, NEW a \in Archive, NEW f \in File, Damage(a, f) PROVE DrillInv'
<1>0. TypeOK /\ TypeOK' /\ UNCHANGED <<work, clock, staging>>
  BY SurroundingsType, DamageIs DEF DrillInv, Surroundings
<1>1. ASSUME NEW p \in Drill
      PROVE  /\ run'[p].pc = run[p].pc /\ run'[p].of = run[p].of /\ run'[p].dir = run[p].dir
             /\ run'[p].members = run[p].members /\ run'[p].pending = run[p].pending
             /\ run'[p].cutoff = run[p].cutoff /\ run'[p].failed = run[p].failed
             /\ run[p].touched \subseteq run'[p].touched
             /\ run[p].of = a /\ f \in Awaited(p) => f \in run'[p].touched
  BY <1>0, <1>1, DamageRun
<1>2. Owned' /\ Timely' /\ WorkHoldsSound'
  <2>1. Owned'
    BY <1>1 DEF DrillInv, Owned
  <2>2. \A d : Live(d)' = Live(d)
    BY <1>1 DEF Live
  <2> QED BY <1>0, <1>1, <2>1, <2>2 DEF DrillInv, Timely, WorkHoldsSound
<1>3. ASSUME NEW p \in Drill PROVE Good(p)'
  <2>1. Good(p) /\ run[p].of \in Archive
    BY <1>0 DEF DrillInv, TypeOK, RunState
  <2>2. /\ Manifest(p)' = Manifest(p) /\ Awaited(p)' = Awaited(p) /\ Moving(p)' = Moving(p)
        /\ InStaging(p)' = InStaging(p) /\ Here(p)' = Here(p)
        /\ Whole(p)' = Whole(p) /\ Held(Target[p])' = Held(Target[p])
    BY <1>0, <1>1 DEF Manifest, Awaited, Moving, InStaging, Here, Whole, Held
  <2>3. ArchiveOK(p)'
    <3>1. /\ \A b \in Archive : b # a => archives'[b] = archives[b]
          /\ DOMAIN archives'[a] \subseteq DOMAIN archives[a]
          /\ \A g \in DOMAIN archives[a] : g # f =>
                 g \in DOMAIN archives'[a] /\ archives'[a][g] = archives[a][g]
      BY <1>0, DamageIs
    <3> QED BY <1>1, <2>1, <2>2, <3>1 DEF Good, ArchiveOK
  <2>4. MembersOK(p)'
    BY <1>1, <2>1, <2>2 DEF Good, MembersOK
  <2>5. \A d : AsAttested(p, d) =>
          \A g \in DOMAIN d \ run'[p].touched : g \in DOMAIN Manifest(p)' /\ d[g] = Manifest(p)'[g]
    BY <1>1, AttestedStays
  <2>6. StagedOK(p)'
    <3>1. ASSUME run[p].pc \in Copying PROVE AsAttested(p, InStaging(p))'
      BY <2>1, <2>2, <2>5, <3>1 DEF Good, StagedOK, AsAttested
    <3> QED BY <1>1, <2>1, <2>2, <3>1 DEF Good, StagedOK
  <2>7. PendingOK(p)'
    BY <1>1, <2>1 DEF Good, PendingOK
  <2>8. ASSUME OwnTargets PROVE InPlace(p)'
    <3>1. ASSUME Moving(p) PROVE AsAttested(p, work[Target[p]])'
      BY <1>0, <2>1, <2>5, <2>8, <3>1 DEF Good, InPlace, AsAttested
    <3> QED BY <1>0, <1>1, <2>1, <2>2, <2>8, <3>1 DEF Good, InPlace
  <2> QED BY <2>3, <2>4, <2>6, <2>7, <2>8 DEF Good
<1> QED BY <1>0, <1>2, <1>3 DEF DrillInv

\* Time passes, an archive is damaged, the operator clears a directory.
LEMMA SurroundingsInv == DrillInv /\ Surroundings => DrillInv'
<1>1. ASSUME DrillInv, NEW a \in Archive, NEW f \in File, Damage(a, f) PROVE DrillInv'
  BY <1>1, DamageInv
<1>2. ASSUME DrillInv, Tick \/ \E w \in WorkDir : Clear(w) PROVE DrillInv'
  <2>0. TypeOK /\ TypeOK' /\ UNCHANGED <<archives, staging, run>>
    BY <1>2, SurroundingsType DEF DrillInv, Surroundings, Tick, Clear
  <2>1. Owned' /\ \A p \in Drill : ArchiveOK(p)' /\ MembersOK(p)' /\ StagedOK(p)' /\ PendingOK(p)'
    <3>1. Owned'
      BY <1>2, <2>0 DEF DrillInv, Owned
    <3>2. ASSUME NEW p \in Drill PROVE ArchiveOK(p)' /\ MembersOK(p)' /\ StagedOK(p)' /\ PendingOK(p)'
      <4>1. Good(p)
        BY <1>2 DEF DrillInv
      <4>2. StagedOK(p)' /\ PendingOK(p)'
        BY <2>0, <4>1 DEF Good, StagedOK, PendingOK, Here, InStaging, AsAttested, Manifest
      <4>3. ArchiveOK(p)' /\ MembersOK(p)'
        BY <2>0, <4>1 DEF Good, ArchiveOK, MembersOK, Moving, Awaited, Manifest
      <4> QED BY <4>2, <4>3
    <3> QED BY <3>1, <3>2
  <2>2. CASE Tick
    <3>1. UNCHANGED work
      BY <2>2 DEF Tick
    <3>2. Timely'
      <4>0. clock \in Instant /\ clock' = clock + 1 /\ \A p \in Drill : run[p].cutoff \in Instant
        BY <2>0, <2>2 DEF Tick, TypeOK, RunState
      <4>1. clock \in Int /\ clock' = clock + 1 /\ \A p \in Drill : run[p].cutoff \in Int
        BY <4>0, DrillAssumption DEF Instant
      <4>2. \A d \in DOMAIN staging : Live(d) => clock + 1 - staging[d].mtime <= StaleAge
        BY <2>2 DEF Tick
      <4>3. \A p \in Drill : run[p].cutoff <= clock'
        BY <1>2, <4>1 DEF DrillInv, Timely
      <4>4. \A d \in DOMAIN staging' : Live(d)' => clock' - staging'[d].mtime <= StaleAge
        <5>1. ASSUME NEW d \in DOMAIN staging, Live(d) PROVE clock' - staging[d].mtime <= StaleAge
          <6>1. clock + 1 - staging[d].mtime <= StaleAge
            BY <4>2, <5>1
          <6>2. staging[d].mtime \in Int /\ StaleAge \in Int
            BY <2>0, DrillAssumption DEF TypeOK, Instant
          <6> QED BY <4>1, <6>1, <6>2
        <5>2. \A d \in DOMAIN staging : Live(d)' = Live(d)
          BY <2>0 DEF Live
        <5> QED BY <2>0, <5>1, <5>2
      <4> QED BY <2>0, <4>3, <4>4 DEF Timely
    <3>3. \A p \in Drill : InPlace(p)' = InPlace(p)
      BY <2>0, <3>1 DEF InPlace, Held, Moving, Whole, InStaging, AsAttested, Manifest
    <3> QED BY <1>2, <2>0, <2>1, <3>1, <3>2, <3>3 DEF DrillInv, Good, WorkHoldsSound
  <2>3. ASSUME NEW w \in WorkDir, Clear(w) PROVE DrillInv'
    <3>1. UNCHANGED clock /\ work' = Keep(work, DOMAIN work \ {w})
      BY <2>3 DEF Clear
    <3>2. WorkHoldsSound'
      BY <1>2, <3>1 DEF DrillInv, WorkHoldsSound, Keep
    <3>3. ASSUME NEW p \in Drill, OwnTargets PROVE InPlace(p)'
      <4>1. CASE Target[p] = w
        <5>1. run[p].pc \in Resting
          BY <2>3, <4>1 DEF Clear
        <5> QED BY <2>0, <5>1 DEF InPlace, Moving, Resting
      <4>2. CASE Target[p] # w
        <5>1. (Target[p] \in DOMAIN work') = (Target[p] \in DOMAIN work)
              /\ (Target[p] \in DOMAIN work => work'[Target[p]] = work[Target[p]])
          BY <3>1, <4>2 DEF Keep
        <5>2. Held(Target[p])' = Held(Target[p])
          BY <5>1 DEF Held
        <5>3. InPlace(p)
          BY <1>2, <3>3 DEF DrillInv, Good
        <5>4. Target[p] \in DOMAIN work => Whole(p)' = Whole(p)
          BY <2>0, <5>1 DEF Whole, InStaging
        <5> QED BY <2>0, <5>1, <5>2, <5>3, <5>4 DEF InPlace, Moving, AsAttested, Manifest
      <4> QED BY <4>1, <4>2
    <3> QED BY <1>2, <2>0, <2>1, <3>1, <3>2, <3>3 DEF DrillInv, Good, Timely, Live
  <2> QED BY <1>2, <2>2, <2>3
<1> QED BY <1>1, <1>2 DEF Surroundings

(***************************************************************************)
(* One step of drill p.                                                    *)
(***************************************************************************)
\* What a step of p must leave to the others, and what it must see to for itself.
LEMMA OwnStep ==
    ASSUME DrillInv, TypeOK', NEW p \in Drill,
           \A q \in Drill : q # p => run'[q] = run[q],
           UNCHANGED <<archives, clock>>,
           run'[p].cutoff <= clock,
           \A d \in DOMAIN staging : d # run[p].dir /\ Live(d) =>
               d \in DOMAIN staging' /\ staging'[d] = staging[d],
           \A d \in DOMAIN staging' : d \notin {run[p].dir, run'[p].dir} =>
               d \in DOMAIN staging /\ staging'[d] = staging[d],
           \/ run'[p].dir \in {run[p].dir, NoName}
           \/ \A q \in Drill : run[q].dir # run'[p].dir,
           run'[p].pc \in Staged /\ run'[p].dir \in DOMAIN staging' =>
               clock - staging'[run'[p].dir].mtime <= StaleAge,
           \A w : w # Target[p] => /\ (w \in DOMAIN work') = (w \in DOMAIN work)
                                   /\ w \in DOMAIN work => work'[w] = work[w],
           Good(p)', WorkHoldsSound'
    PROVE  DrillInv'
<1>0. TypeOK /\ Owned /\ Timely /\ \A q \in Drill : Good(q)
  BY DEF DrillInv
<1>2. Owned'
  <2>1. ASSUME NEW q \in Drill, q # p, run'[q].dir = run'[p].dir PROVE run'[p].dir = NoName
    BY <1>0, <2>1 DEF Owned
  <2>2. ASSUME NEW q \in Drill, NEW r \in Drill, q # r, q # p, r # p, run'[q].dir = run'[r].dir
        PROVE  run'[q].dir = NoName
    BY <1>0, <2>2 DEF Owned
  <2> QED BY <2>1, <2>2 DEF Owned
<1>3. ASSUME NEW q \in Drill, q # p, run[q].dir \in DOMAIN staging
      PROVE  run[q].dir # run[p].dir /\ run[q].dir # run'[p].dir
  <2>1. run[q].dir # NoName
    BY <1>0, <1>3, DrillAssumption DEF TypeOK
  <2> QED BY <1>0, <1>2, <1>3, <2>1 DEF Owned
<1>4. Timely'
  <2>1. \A q \in Drill : run'[q].cutoff <= clock'
    BY <1>0 DEF Timely
  <2>2. ASSUME NEW d \in DOMAIN staging', NEW q \in Drill, run'[q].pc \in Staged, run'[q].dir = d
        PROVE  clock' - staging'[d].mtime <= StaleAge
    <3>1. CASE q = p
      BY <2>2, <3>1
    <3>2. CASE q # p
      <4>1. run[q].dir = d /\ Live(d) /\ d # NoName
        BY <2>2, <3>2, DrillAssumption DEF Live, TypeOK
      <4>2. d # run'[p].dir /\ d # run[p].dir
        BY <1>0, <1>2, <2>2, <3>2, <4>1 DEF Owned
      <4> QED BY <1>0, <4>1, <4>2 DEF Timely
    <3> QED BY <3>1, <3>2
  <2> QED BY <2>1, <2>2 DEF Timely, Live
<1>5. ASSUME NEW q \in Drill, q # p PROVE Good(q)'
  <2>0. Manifest(q)' = Manifest(q) /\ \A d : AsAttested(q, d)' = AsAttested(q, d)
    BY <1>5 DEF Manifest, AsAttested
  <2>1. ASSUME run[q].pc \in Copying PROVE Here(q)' /\ InStaging(q)' = InStaging(q)
    <3>1. Here(q) /\ Live(run[q].dir)
      BY <1>0, <1>5, <2>1 DEF Good, StagedOK, Copying, Live
    <3> QED BY <1>3, <1>5, <3>1 DEF Here, InStaging
  <2>6. ASSUME run[q].pc \in Copying PROVE AsAttested(q, InStaging(q))'
    <3>1. AsAttested(q, InStaging(q))
      BY <1>0, <1>5, <2>6 DEF Good, StagedOK
    <3> QED BY <1>5, <2>0, <2>1, <2>6, <3>1 DEF AsAttested
  <2>2. StagedOK(q)'
    <3>1. SUFFICES ASSUME run[q].pc \in Copying PROVE StagedOK(q)'
      BY <1>5 DEF StagedOK
    <3>2. StagedOK(q) /\ Here(q)' /\ InStaging(q)' = InStaging(q) /\ AsAttested(q, InStaging(q))'
      BY <1>0, <1>5, <2>1, <2>6, <3>1 DEF Good
    <3> QED BY <1>5, <3>1, <3>2 DEF StagedOK
  <2>3. PendingOK(q)'
    BY <1>0, <1>5 DEF Good, PendingOK
  <2>4. ArchiveOK(q)' /\ MembersOK(q)'
    BY <1>0, <1>5, <2>0 DEF Good, ArchiveOK, MembersOK, Moving, Awaited
  <2>5. ASSUME OwnTargets PROVE InPlace(q)'
    <3>1. Target[q] # Target[p]
      BY <1>5, <2>5 DEF OwnTargets
    <3>2. /\ (Target[q] \in DOMAIN work') = (Target[q] \in DOMAIN work)
          /\ Target[q] \in DOMAIN work => work'[Target[q]] = work[Target[q]]
          /\ Held(Target[q])' = Held(Target[q])
      BY <3>1 DEF Held
    <3>3. InPlace(q)
      BY <1>0, <2>5 DEF Good
    <3>4. run[q].pc = "move" /\ Target[q] \in DOMAIN work => Whole(q)' = Whole(q)
      BY <1>5, <2>1, <3>2 DEF Whole, Copying, Staged
    <3> QED BY <1>5, <2>0, <3>2, <3>3, <3>4 DEF InPlace, Moving, AsAttested
  <2> QED BY <2>2, <2>3, <2>4, <2>5 DEF Good
<1> QED BY <1>2, <1>4, <1>5 DEF DrillInv

\* A drill that rests or has failed owes nothing.
LEMMA NothingOwed ==
    ASSUME NEW p \in Drill,
           run'[p].pc \in Resting \/ (run'[p].pc = "cleanup" /\ run'[p].failed)
    PROVE  Good(p)'
  BY DEF Good, ArchiveOK, MembersOK, Looking, StagedOK, PendingOK, InPlace, Moving, Copying, Staged,
         Resting

\* A step that changes no directory.
LEMMA QuietStep ==
    ASSUME DrillInv, TypeOK', NEW p \in Drill, NEW to, run' = [run EXCEPT ![p] = to],
           to.cutoff <= clock, to.dir \in {run[p].dir, NoName},
           to.pc \in Staged => run[p].pc \in Staged /\ to.dir = run[p].dir,
           UNCHANGED <<archives, work, clock, staging>>, Good(p)'
    PROVE  DrillInv'
<1>1. run'[p] = to /\ \A q \in Drill : q # p => run'[q] = run[q]
  BY DEF DrillInv, TypeOK
<1>2. WorkHoldsSound'
  BY DEF DrillInv, WorkHoldsSound
<1>3. to.pc \in Staged /\ to.dir \in DOMAIN staging' => clock - staging'[to.dir].mtime <= StaleAge
  BY DEF DrillInv, Timely, Live
<1> QED BY <1>1, <1>2, <1>3, OwnStep

\* What Failing and Ended leave of the run.
LEMMA FailingRun ==
    ASSUME TypeOK, NEW p \in Drill
    PROVE  /\ Failing(p).pc = "cleanup" /\ Failing(p).failed
           /\ Failing(p).dir = run[p].dir /\ Failing(p).cutoff = run[p].cutoff
<1>1. run[p] \in RunState
  BY DEF TypeOK
<1> QED BY <1>1 DEF Failing, RunState

LEMMA EndedRun ==
    ASSUME TypeOK, NEW p \in Drill, NEW verdict
    PROVE  /\ Ended(p, verdict).pc = verdict /\ Ended(p, verdict).dir = NoName
           /\ Ended(p, verdict).cutoff = 0 /\ Ended(p, verdict).of = run[p].of
  BY DEF Ended, Fresh

LEMMA ClockIsNatural == TypeOK => clock \in Nat /\ 0 <= clock
  BY DrillAssumption DEF TypeOK, Instant

LEMMA FailingInv ==
    ASSUME DrillInv, TypeOK', NEW p \in Drill, run' = [run EXCEPT ![p] = Failing(p)],
           run[p].pc \in Staged, UNCHANGED <<archives, work, clock, staging>>
    PROVE  DrillInv'
<1>1. TypeOK /\ run[p].cutoff <= clock
  BY DEF DrillInv, Timely
<1>2. Good(p)'
  <2>1. run'[p] = Failing(p)
    BY <1>1 DEF TypeOK
  <2> QED BY <1>1, <2>1, FailingRun, NothingOwed
<1> QED BY <1>1, <1>2, FailingRun, QuietStep

LEMMA EndedInv ==
    ASSUME DrillInv, TypeOK', NEW p \in Drill, NEW verdict \in Resting,
           run' = [run EXCEPT ![p] = Ended(p, verdict)],
           UNCHANGED <<archives, work, clock, staging>>
    PROVE  DrillInv'
<1>1. TypeOK /\ 0 <= clock /\ verdict \notin Staged
  BY ClockIsNatural DEF DrillInv, Resting, Staged
<1>2. Good(p)'
  <2>1. run'[p] = Ended(p, verdict)
    BY <1>1 DEF TypeOK
  <2> QED BY <1>1, <2>1, EndedRun, NothingOwed
<1> QED BY <1>1, <1>2, EndedRun, QuietStep

\* A drill begins on an archive that holds what its manifest attests.
LEMMA BeginInv ==
    ASSUME DrillInv, TypeOK', NEW p \in Drill, Begin(p) PROVE DrillInv'
<1>1. TypeOK /\ 0 <= clock
  BY ClockIsNatural DEF DrillInv
<1>2. PICK a \in Archive, c \in ConfigChoice, x \in {"target", "refused"} :
         /\ run' = [run EXCEPT ![p] = [Fresh(a) EXCEPT !.config = c, !.pc = x]]
         /\ x = "target" => Verified([Vault[a] EXCEPT !.files = archives[a]])
  BY DEF Begin
<1> DEFINE to == [Fresh(a) EXCEPT !.config = c, !.pc = x]
<1>3. to.pc = x /\ to.dir = NoName /\ to.cutoff = 0 /\ to.of = a /\ to.pending = {}
  BY DEF Fresh
<1>4. run' = [run EXCEPT ![p] = to] /\ run'[p] = to
  BY <1>1, <1>2 DEF TypeOK
<1>5. x \notin Staged /\ (x = "refused" => x \in Resting)
  BY DEF Resting, Staged
<1>6. UNCHANGED <<archives, work, clock, staging>>
  BY DEF Begin
<1> HIDE DEF to
<1>7. x = "target" => Vault[a].manifest = archives[a]
  <2>1. [Vault[a] EXCEPT !.files = archives[a]].files = archives[a]
        /\ [Vault[a] EXCEPT !.files = archives[a]].manifest = Vault[a].manifest
    BY DrillAssumption
  <2> QED BY <1>2, <2>1 DEF Verified
<1>8. Good(p)'
  <2>1. CASE x = "refused"
    BY <1>3, <1>4, <1>5, <2>1, NothingOwed
  <2>2. CASE x = "target"
    <3>1. Manifest(p)' = archives'[run'[p].of]
      BY <1>3, <1>4, <1>6, <1>7, <2>2 DEF Manifest
    <3>2. ArchiveOK(p)'
      BY <3>1 DEF ArchiveOK
    <3> QED BY <1>3, <1>4, <2>2, <3>2
            DEF Good, MembersOK, StagedOK, PendingOK, InPlace, Moving, Copying, Staged
  <2> QED BY <2>1, <2>2
<1> QED BY <1>1, <1>3, <1>4, <1>5, <1>6, <1>8, QuietStep

LEMMA CheckWorkInv ==
    ASSUME DrillInv, TypeOK', NEW p \in Drill, CheckWork(p) PROVE DrillInv'
<1>1. TypeOK /\ run[p] \in RunState /\ run[p].cutoff <= clock
  BY DEF DrillInv, TypeOK, Timely
<1>2. UNCHANGED <<archives, work, clock, staging>>
  BY DEF CheckWork
<1>3. CASE Held(Target[p]) = NoFiles
  <2> DEFINE to == [run[p] EXCEPT !.pc = "stage"]
  <2>1. run' = [run EXCEPT ![p] = to]
    BY <1>3 DEF CheckWork, Step
  <2>2. /\ to.pc = "stage" /\ to.dir = run[p].dir /\ to.cutoff = run[p].cutoff /\ run'[p] = to
        /\ to.of = run[p].of /\ to.touched = run[p].touched
    BY <1>1, <2>1 DEF RunState, TypeOK
  <2> HIDE DEF to
  <2>3. DOMAIN Held(Target[p])' = {}
    BY <1>2, <1>3 DEF Held, NoFiles
  <2>6. ArchiveOK(p)'
    <3>1. run[p].pc = "target" /\ Good(p)
      BY DEF CheckWork, Step, DrillInv
    <3>2. Awaited(p)' = Awaited(p) /\ Manifest(p)' = Manifest(p)
      BY <2>2, <3>1 DEF Awaited, Manifest
    <3> QED BY <1>2, <2>2, <3>1, <3>2 DEF Good, ArchiveOK, Looking
  <2>4. Good(p)'
    BY <2>2, <2>3, <2>6 DEF Good, MembersOK, StagedOK, PendingOK, InPlace, Moving, Copying, Staged
  <2>5. "stage" \notin Staged
    BY DEF Staged
  <2> QED BY <1>1, <1>2, <2>1, <2>2, <2>4, <2>5, QuietStep
<1>4. CASE Held(Target[p]) # NoFiles
  <2>1. run' = [run EXCEPT ![p] = Ended(p, "refused")]
    BY <1>4 DEF CheckWork, Step
  <2> QED BY <1>2, <2>1, EndedInv DEF Resting
<1> QED BY <1>3, <1>4

LEMMA EndingsInv ==
    ASSUME DrillInv, TypeOK', NEW p \in Drill, NothingToRestore(p) \/ Readback(p)
    PROVE  DrillInv'
<1>1. UNCHANGED <<archives, work, clock, staging>>
  BY DEF NothingToRestore, Readback
<1>2. \E verdict \in Resting : run' = [run EXCEPT ![p] = Ended(p, verdict)]
  BY DEF NothingToRestore, Readback, Step, Resting
<1> QED BY <1>1, <1>2, EndedInv

\* The digests agree: one member fewer to copy.
LEMMA CompareInv ==
    ASSUME DrillInv, TypeOK', NEW p \in Drill, Compare(p) PROVE DrillInv'
<1> DEFINE m == First(run[p].pending)
<1>1. TypeOK /\ run[p] \in RunState /\ run[p].cutoff <= clock /\ Good(p)
  BY DEF DrillInv, TypeOK, Timely
<1>2. UNCHANGED <<archives, work, clock, staging>> /\ run[p].pc = "compare"
  BY DEF Compare, Step
<1>3. CASE run' = [run EXCEPT ![p] = Failing(p)]
  BY <1>2, <1>3, FailingInv DEF Staged
<1>4. CASE run' = [run EXCEPT ![p] = [run[p] EXCEPT !.pc = "copy", !.pending = @ \ {m}]]
  <2> DEFINE to == [run[p] EXCEPT !.pc = "copy", !.pending = @ \ {m}]
  <2>1. /\ to.pc = "copy" /\ to.pending = run[p].pending \ {m} /\ to.dir = run[p].dir
        /\ to.cutoff = run[p].cutoff /\ to.members = run[p].members /\ to.of = run[p].of
        /\ to.touched = run[p].touched
    BY <1>1 DEF RunState
  <2>2. run' = [run EXCEPT ![p] = to] /\ run'[p] = to
    BY <1>1, <1>4 DEF TypeOK
  <2>3. m \in run[p].pending /\ run[p].pending \subseteq run[p].members
    <3>1. run[p].pending # {} /\ run[p].pending \subseteq run[p].members
      BY <1>1, <1>2 DEF Good, PendingOK
    <3> QED BY <1>1, <3>1, FirstIsMember DEF RunState
  <2> HIDE DEF to, m
  <2>4. StagedOK(p)'
    <3>1. /\ Here(p) /\ AsAttested(p, InStaging(p))
          /\ DOMAIN InStaging(p) = (run[p].members \ run[p].pending) \cup {m}
      BY <1>1, <1>2 DEF Good, StagedOK, Copying, Staged, m
    <3>2. (run[p].members \ run[p].pending) \cup {m} = run[p].members \ (run[p].pending \ {m})
      BY <2>3
    <3>3. Here(p)' /\ InStaging(p)' = InStaging(p) /\ Manifest(p)' = Manifest(p)
      BY <1>2, <2>1, <2>2, <3>1 DEF Here, InStaging, Manifest
    <3> QED BY <2>1, <2>2, <3>1, <3>2, <3>3 DEF StagedOK, AsAttested
  <2>5. PendingOK(p)'
    BY <2>1, <2>2, <2>3 DEF PendingOK
  <2>6. OwnTargets => InPlace(p)'
    <3>1. OwnTargets => DOMAIN Held(Target[p]) = {}
      BY <1>1, <1>2 DEF Good, InPlace
    <3>2. Held(Target[p])' = Held(Target[p])
      BY <1>2 DEF Held
    <3> QED BY <2>1, <2>2, <3>1, <3>2 DEF InPlace, Moving
  <2>8. ArchiveOK(p)' /\ MembersOK(p)'
    <3>1. Awaited(p) = run[p].pending /\ Awaited(p)' = run'[p].pending
      BY <1>2, <2>1, <2>2 DEF Awaited
    <3>2. run[p].pc \in Looking /\ run[p].pc \in Copying
      BY <1>2 DEF Looking, Copying, Staged
    <3> QED BY <1>1, <1>2, <2>1, <2>2, <3>1, <3>2, StillOK DEF Good
  <2>7. Good(p)'
    BY <2>4, <2>5, <2>6, <2>8 DEF Good
  <2> QED BY <1>1, <1>2, <2>1, <2>2, <2>7, QuietStep DEF Staged
<1> QED BY <1>3, <1>4 DEF Compare, Step

\* The chain of the copies verifies, so none of them is cut short.
LEMMA VerifyStagedInv ==
    ASSUME DrillInv, TypeOK', NEW p \in Drill, VerifyStaged(p) PROVE DrillInv'
<1>1. TypeOK /\ run[p] \in RunState /\ run[p].cutoff <= clock /\ Good(p)
  BY DEF DrillInv, TypeOK, Timely
<1>2. UNCHANGED <<archives, work, clock, staging>> /\ run[p].pc = "copy" /\ run[p].pending = {}
  BY DEF VerifyStaged, Step
<1>3. CASE run' = [run EXCEPT ![p] = Failing(p)]
  BY <1>2, <1>3, FailingInv DEF Staged
<1>4. CASE /\ run' = [run EXCEPT ![p] = [run[p] EXCEPT !.pc = "open"]]
           /\ ChainOK(InStaging(p))
  <2> DEFINE to == [run[p] EXCEPT !.pc = "open"]
  <2>1. /\ to.pc = "open" /\ to.pending = {} /\ to.dir = run[p].dir
        /\ to.cutoff = run[p].cutoff /\ to.members = run[p].members /\ to.of = run[p].of
        /\ to.touched = run[p].touched
    BY <1>1, <1>2 DEF RunState
  <2>2. run' = [run EXCEPT ![p] = to] /\ run'[p] = to
    BY <1>1, <1>4 DEF TypeOK
  <2> HIDE DEF to
  <2>4. StagedOK(p)'
    <3>1. /\ Here(p) /\ AsAttested(p, InStaging(p))
          /\ DOMAIN InStaging(p) = run[p].members
      BY <1>1, <1>2 DEF Good, StagedOK, Copying, Staged
    <3>2. Here(p)' /\ InStaging(p)' = InStaging(p) /\ Manifest(p)' = Manifest(p)
      BY <1>2, <2>1, <2>2, <3>1 DEF Here, InStaging, Manifest
    <3> QED BY <1>4, <2>1, <2>2, <3>1, <3>2 DEF StagedOK, AsAttested
  <2>5. PendingOK(p)'
    BY <2>1, <2>2 DEF PendingOK
  <2>6. OwnTargets => InPlace(p)'
    <3>1. OwnTargets => DOMAIN Held(Target[p]) = {}
      BY <1>1, <1>2 DEF Good, InPlace
    <3>2. Held(Target[p])' = Held(Target[p])
      BY <1>2 DEF Held
    <3> QED BY <2>1, <2>2, <3>1, <3>2 DEF InPlace, Moving
  <2>8. ArchiveOK(p)' /\ MembersOK(p)'
    <3>1. run[p].pc \in Copying /\ run'[p].pc \notin Looking
      BY <1>2, <2>1, <2>2 DEF Looking, Copying, Staged
    <3> QED BY <1>1, <1>2, <2>1, <2>2, <3>1, StillOK DEF Good
  <2>7. Good(p)'
    BY <2>4, <2>5, <2>6, <2>8 DEF Good
  <2> QED BY <1>1, <1>2, <2>1, <2>2, <2>7, QuietStep DEF Staged
<1> QED BY <1>3, <1>4 DEF VerifyStaged, Step, InStaging

LEMMA MovedInv ==
    ASSUME DrillInv, TypeOK', NEW p \in Drill, Moved(p) PROVE DrillInv'
<1>1. TypeOK /\ run[p] \in RunState /\ run[p].cutoff <= clock /\ Good(p)
  BY DEF DrillInv, TypeOK, Timely
<1>2. UNCHANGED <<archives, work, clock, staging>> /\ run[p].pc = "move" /\ run[p].pending = {}
  BY DEF Moved, Step
<1> DEFINE to == [run[p] EXCEPT !.pc = "cleanup"]
<1>3. /\ to.pc = "cleanup" /\ to.pending = {} /\ to.dir = run[p].dir
      /\ to.cutoff = run[p].cutoff /\ to.members = run[p].members /\ to.of = run[p].of
      /\ to.touched = run[p].touched
  BY <1>1, <1>2 DEF RunState
<1>4. run' = [run EXCEPT ![p] = to] /\ run'[p] = to
  BY <1>1 DEF TypeOK, Moved, Step
<1> HIDE DEF to
<1>5. OwnTargets => InPlace(p)'
  <2>1. SUFFICES ASSUME OwnTargets PROVE InPlace(p)'
    OBVIOUS
  <2>2. /\ Target[p] \in DOMAIN work /\ DOMAIN work[Target[p]] = run[p].members
        /\ AsAttested(p, work[Target[p]]) /\ ChainOK(Whole(p))
    BY <1>1, <1>2, <2>1 DEF Good, InPlace, Moving
  <2>3. ChainOK(work[Target[p]])
    <3>1. DOMAIN Whole(p) = run[p].members /\ \A f \in run[p].members : Whole(p)[f] = work[Target[p]][f]
      BY <1>2 DEF Whole
    <3> QED BY <2>2, <3>1, SameFilesSameVerdict
  <2>4. Manifest(p)' = Manifest(p)
    BY <1>3, <1>4 DEF Manifest
  <2> QED BY <1>2, <1>3, <1>4, <2>2, <2>3, <2>4 DEF InPlace, AsAttested
<1>6. ArchiveOK(p)' /\ MembersOK(p)'
  <2>1. run[p].pc \in Copying /\ run'[p].pc \notin Looking
    BY <1>2, <1>3, <1>4 DEF Looking, Copying, Staged
  <2> QED BY <1>1, <1>2, <1>3, <1>4, <2>1, StillOK DEF Good
<1>7. Good(p)'
  BY <1>3, <1>4, <1>5, <1>6 DEF Good, StagedOK, PendingOK, Copying
<1> QED BY <1>1, <1>2, <1>3, <1>4, <1>7, QuietStep DEF Staged

\* The name mkdtemp draws is nobody's, and what is in it is from now.
LEMMA MakeStagingInv ==
    ASSUME DrillInv, TypeOK', NEW p \in Drill, MakeStaging(p) PROVE DrillInv'
<1>1. TypeOK /\ run[p] \in RunState /\ Good(p)
  BY DEF DrillInv, TypeOK
<1>2. UNCHANGED <<archives, work, clock, faults>> /\ run[p].pc = "stage"
  BY DEF MakeStaging, Step
<1>3. PICK d \in StagingName :
         /\ d \notin DOMAIN staging /\ \A q \in Drill : run[q].dir # d
         /\ run' = [run EXCEPT ![p] = [run[p] EXCEPT !.pc = "copy", !.dir = d,
                                !.cutoff = clock, !.todo = DOMAIN staging,
                                !.members = DOMAIN archives[run[p].of],
                                !.pending = DOMAIN archives[run[p].of]]]
         /\ staging' = Put(staging, d, [files |-> NoFiles, mtime |-> clock])
  BY DEF MakeStaging, Step
<1> DEFINE to == [run[p] EXCEPT !.pc = "copy", !.dir = d,
                                !.cutoff = clock, !.todo = DOMAIN staging,
                                !.members = DOMAIN archives[run[p].of],
                                !.pending = DOMAIN archives[run[p].of]]
<1>4. /\ to.pc = "copy" /\ to.pending = to.members /\ to.dir = d /\ to.cutoff = clock
      /\ to.members = DOMAIN archives[run[p].of] /\ to.of = run[p].of /\ to.touched = run[p].touched
  BY <1>1 DEF RunState
<1>5. run'[p] = to /\ \A q \in Drill : q # p => run'[q] = run[q]
  BY <1>1, <1>3 DEF TypeOK
<1> HIDE DEF to
<1>6. /\ d \in DOMAIN staging' /\ staging'[d].files = NoFiles /\ staging'[d].mtime = clock
      /\ DOMAIN staging' = DOMAIN staging \cup {d}
      /\ \A e \in DOMAIN staging : staging'[e] = staging[e]
  BY <1>3 DEF Put
<1>7. StagedOK(p)'
  BY <1>4, <1>5, <1>6 DEF StagedOK, Here, InStaging, AsAttested, NoFiles
<1>12. ArchiveOK(p)' /\ MembersOK(p)'
  <2>1. /\ DOMAIN archives[run[p].of] \subseteq DOMAIN Manifest(p)
        /\ \A f \in DOMAIN Manifest(p) \ run[p].touched : f \in File =>
              /\ f \in DOMAIN archives[run[p].of]
              /\ archives[run[p].of][f] = Manifest(p)[f]
    BY <1>1, <1>2, AwaitedIs DEF Good, ArchiveOK, Looking
  <2>2. DOMAIN Manifest(p) \subseteq File /\ Manifest(p)' = Manifest(p)
    BY <1>1, <1>4, <1>5, DrillAssumption DEF Manifest, RunState, IsDirectory
  <2>3. ArchiveOK(p)'
    BY <1>2, <1>4, <1>5, <2>1, <2>2 DEF ArchiveOK
  <2>4. MembersOK(p)'
    BY <1>4, <1>5, <2>1, <2>2 DEF MembersOK
  <2> QED BY <2>3, <2>4
<1>8. PendingOK(p)'
  BY <1>4, <1>5 DEF PendingOK
<1>9. OwnTargets => InPlace(p)'
  <2>1. OwnTargets => DOMAIN Held(Target[p]) = {}
    BY <1>1, <1>2 DEF Good, InPlace
  <2>2. Held(Target[p])' = Held(Target[p])
    BY <1>2 DEF Held
  <2> QED BY <1>4, <1>5, <2>1, <2>2 DEF InPlace, Moving
<1>10. Good(p)' /\ WorkHoldsSound'
  BY <1>2, <1>7, <1>8, <1>9, <1>12 DEF Good, DrillInv, WorkHoldsSound
<1>11. clock <= clock /\ clock - clock <= StaleAge
  BY <1>1, ClockIsNatural, DrillAssumption
<1> QED BY <1>2, <1>3, <1>4, <1>5, <1>6, <1>10, <1>11, OwnStep

\* A live directory is younger than the cutoff of any sweep.
LEMMA StaleIsNobodys ==
    ASSUME DrillInv, NEW p \in Drill, NEW d \in DOMAIN staging, Stale(p, d) PROVE ~Live(d)
<1>1. TypeOK /\ Timely /\ run[p] \in RunState
  BY DEF DrillInv, TypeOK
<1>2. /\ clock \in Int /\ run[p].cutoff \in Int /\ staging[d].mtime \in Int /\ StaleAge \in Int
  BY <1>1, DrillAssumption DEF TypeOK, Instant, RunState
<1>3. run[p].cutoff <= clock /\ staging[d].mtime < run[p].cutoff - StaleAge
  BY <1>1 DEF Timely, Stale
<1>4. ~ (clock - staging[d].mtime <= StaleAge)
  BY <1>2, <1>3
<1> QED BY <1>1, <1>4 DEF Timely

\* So a sweep takes nobody's.
LEMMA SweepInv ==
    ASSUME DrillInv, TypeOK', NEW p \in Drill, Sweep(p) PROVE DrillInv'
<1>1. TypeOK /\ Timely /\ run[p] \in RunState /\ Good(p)
  BY DEF DrillInv, TypeOK
<1>2. UNCHANGED <<archives, work, clock>> /\ run[p].pc = "copy"
  BY DEF Sweep
<1>3. PICK d \in run[p].todo :
         SweepGone(p, d) \/ SweepYoung(p, d) \/ SweepStale(p, d) \/ SweepRefused(p, d)
  BY DEF Sweep
<1>4. PICK reported \in BOOLEAN : Seen(p, d, reported)
  BY <1>3 DEF SweepGone, SweepYoung, SweepStale, SweepRefused
<1>5. /\ run'[p].pc = "copy" /\ run'[p].dir = run[p].dir /\ run'[p].cutoff = run[p].cutoff
      /\ run'[p].members = run[p].members /\ run'[p].pending = run[p].pending
      /\ run'[p].of = run[p].of /\ run'[p].touched = run[p].touched
      /\ \A q \in Drill : q # p => run'[q] = run[q]
  BY <1>1, <1>2, <1>4 DEF Seen, RunState, TypeOK
<1>6. /\ DOMAIN staging' \subseteq DOMAIN staging
      /\ \A e \in DOMAIN staging' : staging'[e] = staging[e]
      /\ \A e \in DOMAIN staging : Live(e) => e \in DOMAIN staging'
  <2>1. CASE UNCHANGED staging
    BY <2>1
  <2>2. CASE SweepStale(p, d)
    <3>1. staging' = Keep(staging, DOMAIN staging \ {d}) /\ Stale(p, d) /\ d \in DOMAIN staging
      BY <2>2 DEF SweepStale
    <3>2. ~Live(d)
      BY <3>1, StaleIsNobodys
    <3> QED BY <3>1, <3>2 DEF Keep
  <2> QED BY <1>3, <2>1, <2>2 DEF SweepGone, SweepYoung, SweepRefused
<1>7. run[p].pc \in Staged /\ (Here(p) => Live(run[p].dir))
  BY <1>2 DEF Staged, Live
<1>8. StagedOK(p)'
  <2>1. StagedOK(p) /\ Here(p)
    BY <1>1, <1>2 DEF Good, StagedOK, Copying, Staged
  <2>2. Here(p)' /\ InStaging(p)' = InStaging(p) /\ Manifest(p)' = Manifest(p)
    BY <1>5, <1>6, <1>7, <2>1 DEF Here, InStaging, Manifest
  <2> QED BY <1>2, <1>5, <2>1, <2>2 DEF StagedOK, Copying, Staged, AsAttested
<1>14. ArchiveOK(p)' /\ MembersOK(p)'
  <2>1. Awaited(p)' = Awaited(p) /\ run[p].pc \in Looking /\ run[p].pc \in Copying
    BY <1>2, <1>5 DEF Awaited, Looking, Copying, Staged
  <2> QED BY <1>1, <1>2, <1>5, <2>1, StillOK DEF Good
<1>9. PendingOK(p)'
  BY <1>1, <1>2, <1>5 DEF Good, PendingOK
<1>10. OwnTargets => InPlace(p)'
  <2>1. OwnTargets => DOMAIN Held(Target[p]) = {}
    BY <1>1, <1>2 DEF Good, InPlace
  <2>2. Held(Target[p])' = Held(Target[p])
    BY <1>2 DEF Held
  <2> QED BY <1>5, <2>1, <2>2 DEF InPlace, Moving
<1>11. Good(p)' /\ WorkHoldsSound'
  BY <1>2, <1>8, <1>9, <1>10, <1>14 DEF Good, DrillInv, WorkHoldsSound
<1>12. run'[p].cutoff <= clock
  BY <1>1, <1>5 DEF Timely
<1>13. run[p].dir \in DOMAIN staging' => clock - staging'[run[p].dir].mtime <= StaleAge
  BY <1>1, <1>6, <1>7 DEF Timely, Here
<1> QED BY <1>2, <1>5, <1>6, <1>11, <1>12, <1>13, OwnStep

\* A copy of an untouched file is as attested; of another, the chain walk has to say.
LEMMA CopyInv ==
    ASSUME DrillInv, TypeOK', NEW p \in Drill, Copy(p) PROVE DrillInv'
<1> DEFINE m == First(run[p].pending)
           a == archives[run[p].of]
           d == run[p].dir
<1>1. TypeOK /\ run[p] \in RunState /\ run[p].cutoff <= clock /\ Good(p)
  BY DEF DrillInv, TypeOK, Timely
<1>2. /\ UNCHANGED <<archives, work, clock>> /\ run[p].pc = "copy" /\ run[p].pending # {}
  BY DEF Copy, Step
<1>3. CASE run' = [run EXCEPT ![p] = Failing(p)] /\ UNCHANGED staging
  BY <1>2, <1>3, FailingInv DEF Staged
<1>4. CASE /\ m \in DOMAIN a /\ d \in DOMAIN staging
           /\ run' = [run EXCEPT ![p] = [run[p] EXCEPT !.pc = "compare"]]
           /\ staging' = [staging EXCEPT ![d] = [files |-> Put(@.files, m, a[m]), mtime |-> clock]]
  <2>1. /\ run'[p].pc = "compare" /\ run'[p].pending = run[p].pending /\ run'[p].dir = d
        /\ run'[p].cutoff = run[p].cutoff /\ run'[p].members = run[p].members
        /\ run'[p].of = run[p].of /\ run'[p].touched = run[p].touched
        /\ \A q \in Drill : q # p => run'[q] = run[q]
    BY <1>1, <1>4 DEF RunState, TypeOK
  <2>2. /\ DOMAIN staging' = DOMAIN staging
        /\ staging'[d].files = Put(staging[d].files, m, a[m]) /\ staging'[d].mtime = clock
        /\ \A e \in DOMAIN staging : e # d => staging'[e] = staging[e]
    BY <1>4
  <2>3. /\ DOMAIN staging[d].files = run[p].members \ run[p].pending
        /\ AsAttested(p, staging[d].files)
    BY <1>1, <1>2 DEF Good, StagedOK, Copying, Staged, InStaging
  <2>4. m \notin run[p].touched => m \in DOMAIN Manifest(p) /\ a[m] = Manifest(p)[m]
    <3>1. m \in run[p].pending /\ m \in DOMAIN a
      BY <1>1, <1>2, <1>4, FirstIsMember DEF RunState
    <3>2. Awaited(p) = run[p].pending /\ run[p].pc \in Looking
      BY <1>2 DEF Awaited, Looking
    <3>3. ArchiveOK(p)
      BY <1>1 DEF Good
    <3> HIDE DEF m
    <3> QED BY <3>1, <3>2, <3>3 DEF ArchiveOK
  <2>5. AsAttested(p, Put(staging[d].files, m, a[m]))
    <3> HIDE DEF m, a, d
    <3> QED BY <2>3, <2>4 DEF AsAttested, Put
  <2>6. StagedOK(p)'
    <3>1. InStaging(p)' = Put(staging[d].files, m, a[m]) /\ Here(p)'
      BY <1>4, <2>1, <2>2 DEF InStaging, Here
    <3>2. Manifest(p)' = Manifest(p) /\ First(run'[p].pending) = m
      BY <2>1 DEF Manifest
    <3>3. DOMAIN Put(staging[d].files, m, a[m]) = (run[p].members \ run[p].pending) \cup {m}
      BY <2>3 DEF Put
    <3> HIDE DEF m, a, d
    <3>4. AsAttested(p, InStaging(p))'
      BY <2>1, <2>5, <3>1, <3>2 DEF AsAttested
    <3> QED BY <2>1, <3>1, <3>2, <3>3, <3>4 DEF StagedOK
  <2>11. ArchiveOK(p)' /\ MembersOK(p)'
    <3>1. Awaited(p) = run[p].pending /\ Awaited(p)' = run'[p].pending
      BY <1>2, <2>1 DEF Awaited
    <3>2. run[p].pc \in Looking /\ run[p].pc \in Copying
      BY <1>2 DEF Looking, Copying, Staged
    <3> QED BY <1>1, <1>2, <2>1, <3>1, <3>2, StillOK DEF Good
  <2>7. PendingOK(p)'
    BY <1>1, <1>2, <2>1 DEF Good, PendingOK
  <2>8. OwnTargets => InPlace(p)'
    <3>1. OwnTargets => DOMAIN Held(Target[p]) = {}
      BY <1>1, <1>2 DEF Good, InPlace
    <3>2. Held(Target[p])' = Held(Target[p])
      BY <1>2 DEF Held
    <3> QED BY <2>1, <3>1, <3>2 DEF InPlace, Moving
  <2>9. Good(p)' /\ WorkHoldsSound'
    BY <1>2, <2>6, <2>7, <2>8, <2>11 DEF Good, DrillInv, WorkHoldsSound
  <2>10. clock - clock <= StaleAge
    BY <1>1, ClockIsNatural, DrillAssumption
  <2> HIDE DEF m, a
  <2> QED BY <1>1, <1>2, <2>1, <2>2, <2>9, <2>10, OwnStep
<1> QED BY <1>3, <1>4 DEF Copy, Step, Here

\* The files about to be moved are a chain, and all of the members.
LEMMA OpenWorkInv ==
    ASSUME DrillInv, TypeOK', NEW p \in Drill, OpenWork(p) PROVE DrillInv'
<1> DEFINE w == Target[p]
<1>1. TypeOK /\ run[p] \in RunState /\ run[p].cutoff <= clock /\ Good(p)
  BY DEF DrillInv, TypeOK, Timely
<1>2. /\ UNCHANGED <<archives, clock, staging>> /\ run[p].pc = "open"
      /\ work' = Put(work, w, Held(w))
  BY DEF OpenWork, Step
<1>3. /\ Here(p) /\ DOMAIN InStaging(p) = run[p].members /\ ChainOK(InStaging(p))
      /\ AsAttested(p, InStaging(p))
  BY <1>1, <1>2 DEF Good, StagedOK, Copying, Staged
<1>4. NoneTorn(InStaging(p))
  BY <1>3 DEF ChainOK, NoneTorn
<1> DEFINE to == [run[p] EXCEPT !.pc = "move", !.pending = DOMAIN InStaging(p)]
<1>5. /\ to.pc = "move" /\ to.pending = run[p].members /\ to.dir = run[p].dir
      /\ to.cutoff = run[p].cutoff /\ to.members = run[p].members /\ to.of = run[p].of
      /\ to.touched = run[p].touched
  BY <1>1, <1>3 DEF RunState
<1>6. run' = [run EXCEPT ![p] = to]
  BY <1>3 DEF OpenWork, Step, InStaging
<1>7. run'[p] = to /\ \A q \in Drill : q # p => run'[q] = run[q]
  BY <1>1, <1>6 DEF TypeOK
<1> HIDE DEF to
<1>8. Here(p)' /\ InStaging(p)' = InStaging(p) /\ Manifest(p)' = Manifest(p)
  BY <1>2, <1>3, <1>5, <1>7 DEF Here, InStaging, Manifest
<1>9. StagedOK(p)' /\ PendingOK(p)'
  BY <1>3, <1>4, <1>5, <1>7, <1>8 DEF StagedOK, PendingOK, AsAttested
<1>10. ChainOK(Whole(p)')
  <2>1. /\ DOMAIN Whole(p)' = run[p].members
        /\ \A f \in run[p].members : Whole(p)'[f] = InStaging(p)[f]
    BY <1>5, <1>7, <1>8 DEF Whole
  <2> QED BY <1>3, <2>1, SameFilesSameVerdict
<1>16. ArchiveOK(p)' /\ MembersOK(p)'
  <2>1. run[p].pc \in Copying /\ run'[p].pc \notin Looking
    BY <1>2, <1>5, <1>7 DEF Looking, Copying, Staged
  <2> QED BY <1>1, <1>2, <1>5, <1>7, <2>1, StillOK DEF Good
<1>11. /\ DOMAIN work' = DOMAIN work \cup {w} /\ work'[w] = Held(w)
       /\ \A v \in DOMAIN work : v # w => work'[v] = work[v]
  BY <1>2 DEF Put
<1>12. OwnTargets => InPlace(p)'
  <2>1. SUFFICES ASSUME OwnTargets PROVE InPlace(p)'
    OBVIOUS
  <2>2. DOMAIN Held(w) = {}
    BY <1>1, <1>2, <2>1 DEF Good, InPlace
  <2> QED BY <1>5, <1>7, <1>8, <1>10, <1>11, <2>2 DEF InPlace, AsAttested
<1>13. WorkHoldsSound'
  <2>1. NoneTorn(Held(w))
    BY DEF DrillInv, WorkHoldsSound, Held, NoneTorn, Segments, NoFiles
  <2> QED BY <1>11, <2>1 DEF DrillInv, WorkHoldsSound, NoneTorn
<1>14. Good(p)'
  BY <1>9, <1>12, <1>16 DEF Good
<1>15. run[p].dir \in DOMAIN staging' => clock - staging'[run[p].dir].mtime <= StaleAge
  BY <1>1, <1>2 DEF DrillInv, Timely, Live, Staged
<1> QED BY <1>1, <1>2, <1>5, <1>7, <1>11, <1>13, <1>14, <1>15, OwnStep

\* One file more is in place, one less is staged: the chain is the same.
LEMMA MoveInv ==
    ASSUME DrillInv, TypeOK', NEW p \in Drill, Move(p) PROVE DrillInv'
<1> DEFINE m == First(run[p].pending)
           d == run[p].dir
           w == Target[p]
           left == Keep(staging[d].files, DOMAIN staging[d].files \ {m})
           put == Put(work[w], m, staging[d].files[m])
<1>1. TypeOK /\ run[p] \in RunState /\ run[p].cutoff <= clock /\ Good(p)
  BY DEF DrillInv, TypeOK, Timely
<1>2. /\ UNCHANGED <<archives, clock>> /\ run[p].pc = "move" /\ run[p].pending # {}
  BY DEF Move, Step
<1>3. /\ d \in DOMAIN staging /\ DOMAIN staging[d].files = run[p].pending
      /\ NoneTorn(staging[d].files) /\ AsAttested(p, staging[d].files)
  BY <1>1, <1>2 DEF Good, StagedOK, Copying, Staged, InStaging, Here
<1>4. /\ run' = [run EXCEPT ![p] = [run[p] EXCEPT !.pending = @ \ {m}]]
      /\ work' = [work EXCEPT ![w] = put]
      /\ staging' = [staging EXCEPT ![d] = [files |-> left, mtime |-> clock]]
  BY <1>3 DEF Move, Step, Here
<1>5. m \in run[p].pending /\ run[p].pending \subseteq run[p].members
  BY <1>1, <1>2, FirstIsMember DEF Good, PendingOK, RunState
<1>6. m \notin run[p].touched => m \in DOMAIN Manifest(p) /\ staging[d].files[m] = Manifest(p)[m]
  <2> HIDE DEF m, d
  <2> QED BY <1>3, <1>5 DEF AsAttested
<1>7. /\ run'[p].pc = "move" /\ run'[p].pending = run[p].pending \ {m} /\ run'[p].dir = d
      /\ run'[p].cutoff = run[p].cutoff /\ run'[p].members = run[p].members
      /\ run'[p].of = run[p].of /\ run'[p].touched = run[p].touched
      /\ \A q \in Drill : q # p => run'[q] = run[q]
  BY <1>1, <1>2, <1>4 DEF RunState, TypeOK
<1>8. /\ DOMAIN staging' = DOMAIN staging
      /\ staging'[d].files = left /\ staging'[d].mtime = clock
      /\ \A e \in DOMAIN staging : e # d => staging'[e] = staging[e]
  BY <1>3, <1>4
<1>9. /\ DOMAIN work' = DOMAIN work
      /\ w \in DOMAIN work => work'[w] = put
      /\ \A v \in DOMAIN work : v # w => work'[v] = work[v]
  BY <1>4
<1>10. DOMAIN left = run[p].pending \ {m} /\ NoneTorn(left) /\ AsAttested(p, left)
  <2> HIDE DEF m, d
  <2> QED BY <1>3 DEF left, Keep, NoneTorn, AsAttested, Segments
<1>11. Manifest(p)' = Manifest(p)
  BY <1>7 DEF Manifest
<1>18. InStaging(p)' = left /\ Here(p)' /\ InStaging(p) = staging[d].files
  BY <1>3, <1>7, <1>8 DEF InStaging, Here
<1>12. StagedOK(p)'
  <2> HIDE DEF m, left
  <2>1. AsAttested(p, InStaging(p))'
    BY <1>7, <1>10, <1>11, <1>18 DEF AsAttested
  <2> QED BY <1>7, <1>10, <1>11, <1>18, <2>1 DEF StagedOK
<1>13. PendingOK(p)'
  BY <1>5, <1>7 DEF PendingOK
<1>14. OwnTargets => InPlace(p)'
  <2>1. SUFFICES ASSUME OwnTargets PROVE InPlace(p)'
    OBVIOUS
  <2>2. /\ w \in DOMAIN work /\ DOMAIN work[w] = run[p].members \ run[p].pending
        /\ AsAttested(p, work[w]) /\ ChainOK(Whole(p))
    BY <1>1, <1>2, <2>1 DEF Good, InPlace, Moving
  <2>3. DOMAIN put = DOMAIN work[w] \cup {m} /\ AsAttested(p, put)
    <3> HIDE DEF m, d, w
    <3> QED BY <1>6, <2>2 DEF put, Put, AsAttested
  <2>4. DOMAIN put = run[p].members \ (run[p].pending \ {m})
    BY <1>5, <2>2, <2>3
  <2>5. ChainOK(Whole(p)')
    <3>1. DOMAIN Whole(p)' = run[p].members /\ DOMAIN Whole(p) = run[p].members
      BY <1>7 DEF Whole
    <3>2. ASSUME NEW f \in run[p].members PROVE Whole(p)'[f] = Whole(p)[f]
      <4>1. Whole(p)[f] = IF f \in run[p].pending THEN staging[d].files[f] ELSE work[w][f]
        BY <1>18 DEF Whole
      <4>2. Whole(p)'[f] = IF f \in run[p].pending \ {m} THEN left[f] ELSE put[f]
        BY <1>7, <1>9, <1>18, <2>2 DEF Whole
      <4>3. f \in run[p].pending \ {m} => left[f] = staging[d].files[f]
        BY <1>3 DEF Keep
      <4>4. f \notin run[p].pending \ {m} =>
              put[f] = IF f \in run[p].pending THEN staging[d].files[f] ELSE work[w][f]
        <5> HIDE DEF m, d, w
        <5> QED BY <1>5, <2>2, <3>2 DEF put, Put
      <4> HIDE DEF m, d, w, left, put
      <4> QED BY <4>1, <4>2, <4>3, <4>4
    <3> QED BY <2>2, <3>1, <3>2, SameFilesSameVerdict
  <2>6. AsAttested(p, work[w])'
    <3> HIDE DEF put
    <3> QED BY <1>7, <1>9, <1>11, <2>2, <2>3 DEF AsAttested
  <2> HIDE DEF put, m
  <2> QED BY <1>7, <1>9, <2>2, <2>3, <2>4, <2>5, <2>6 DEF InPlace
<1>15. WorkHoldsSound'
  <2>1. ASSUME w \in DOMAIN work PROVE NoneTorn(put)
    <3>1. NoneTorn(work[w])
      BY <2>1 DEF DrillInv, WorkHoldsSound, NoneTorn
    <3>2. m \in SegmentId => ~staging[d].files[m].torn
      BY <1>3, <1>5 DEF NoneTorn, Segments
    <3> HIDE DEF m, d, w
    <3> QED BY <3>1, <3>2 DEF put, Put, NoneTorn, Segments
  <2> HIDE DEF put, w
  <2> QED BY <1>9, <2>1 DEF DrillInv, WorkHoldsSound, NoneTorn
<1>19. ArchiveOK(p)' /\ MembersOK(p)'
  <2>1. run[p].pc \in Copying /\ run'[p].pc \notin Looking
    BY <1>2, <1>7 DEF Looking, Copying, Staged
  <2> HIDE DEF m, d
  <2> QED BY <1>1, <1>2, <1>7, <2>1, StillOK DEF Good
<1>16. Good(p)'
  BY <1>12, <1>13, <1>14, <1>19 DEF Good
<1>17. clock - clock <= StaleAge
  BY <1>1, ClockIsNatural, DrillAssumption
<1> HIDE DEF m, left, put
<1> QED BY <1>1, <1>2, <1>7, <1>8, <1>9, <1>15, <1>16, <1>17, OwnStep

\* A restore that succeeded leaves what was moved where it is.
LEMMA SweptGood ==
    ASSUME TypeOK, NEW p \in Drill, Good(p), run[p].pc = "cleanup",
           run'[p] = Swept(p), UNCHANGED <<archives, work>>
    PROVE  /\ Good(p)' /\ run'[p].dir = NoName /\ run'[p].pc \notin Staged
           /\ run'[p].cutoff \in {0, run[p].cutoff}
<1>1. run[p] \in RunState
  BY DEF TypeOK
<1>2. CASE Swept(p) = Ended(p, "failed")
  <2>1. run'[p].pc = "failed" /\ run'[p].dir = NoName /\ run'[p].cutoff = 0
    BY <1>2, EndedRun
  <2>2. "failed" \in Resting /\ "failed" \notin Staged
    BY DEF Resting, Staged
  <2> QED BY <2>1, <2>2, NothingOwed
<1>3. CASE ~run[p].failed /\ Swept(p) = [run[p] EXCEPT !.pc = "readback", !.dir = NoName]
  <2>1. /\ run'[p].pc = "readback" /\ run'[p].pending = run[p].pending /\ run'[p].dir = NoName
        /\ run'[p].cutoff = run[p].cutoff /\ run'[p].members = run[p].members
        /\ run'[p].of = run[p].of /\ run'[p].touched = run[p].touched
    BY <1>1, <1>3 DEF RunState
  <2>2. Moving(p) /\ run'[p].pc \notin Looking
    BY <1>3, <2>1 DEF Moving, Looking
  <2>3. ArchiveOK(p)' /\ MembersOK(p)'
    BY <2>1, <2>2, StillOK DEF Good
  <2>4. OwnTargets => InPlace(p)'
    <3>1. SUFFICES ASSUME OwnTargets PROVE InPlace(p)'
      OBVIOUS
    <3>2. /\ Target[p] \in DOMAIN work /\ run[p].pending = {}
          /\ DOMAIN work[Target[p]] = run[p].members \ run[p].pending
          /\ AsAttested(p, work[Target[p]]) /\ ChainOK(work[Target[p]])
      BY <2>2, <3>1 DEF Good, InPlace
    <3>3. Manifest(p)' = Manifest(p)
      BY <2>1 DEF Manifest
    <3> QED BY <2>1, <3>2, <3>3 DEF InPlace, AsAttested
  <2>5. "readback" \notin Staged
    BY DEF Staged
  <2> QED BY <2>1, <2>3, <2>4, <2>5 DEF Good, StagedOK, PendingOK, Copying
<1> QED BY <1>1, <1>2, <1>3, SweptIs

\* Only its own staging directory is removed.
LEMMA CleanupInv ==
    ASSUME DrillInv, TypeOK', NEW p \in Drill, Cleanup(p) PROVE DrillInv'
<1>1. TypeOK /\ run[p].cutoff <= clock /\ Good(p) /\ 0 <= clock
  BY ClockIsNatural DEF DrillInv, Timely
<1>2. /\ UNCHANGED <<archives, work, clock>> /\ run[p].pc = "cleanup"
      /\ run' = [run EXCEPT ![p] = Swept(p)]
      /\ staging' = Keep(staging, DOMAIN staging \ {run[p].dir})
  BY DEF Cleanup, Step
<1>3. /\ DOMAIN staging' = DOMAIN staging \ {run[p].dir}
      /\ \A d \in DOMAIN staging' : staging'[d] = staging[d]
  BY <1>2 DEF Keep
<1>4. run'[p] = Swept(p) /\ \A q \in Drill : q # p => run'[q] = run[q]
  BY <1>1, <1>2 DEF TypeOK
<1>5. /\ Good(p)' /\ run'[p].dir = NoName /\ run'[p].pc \notin Staged /\ run'[p].cutoff <= clock
  BY <1>1, <1>2, <1>4, SweptGood
<1>6. WorkHoldsSound'
  BY <1>2 DEF DrillInv, WorkHoldsSound
<1> QED BY <1>2, <1>3, <1>4, <1>5, <1>6, OwnStep

\* What a fault leaves is nobody's.
LEMMA FaultInv ==
    ASSUME DrillInv, TypeOK', NEW p \in Drill, FaultStep(p) PROVE DrillInv'
<1>1. TypeOK /\ Good(p) /\ 0 <= clock /\ run[p].cutoff <= clock
  BY ClockIsNatural DEF DrillInv, Timely
<1>2. /\ UNCHANGED <<archives, work, clock>> /\ DOMAIN staging' = DOMAIN staging
      /\ \A q \in Drill : q # p => run'[q] = run[q]
      /\ \A d \in DOMAIN staging : d # run[p].dir => staging'[d] = staging[d]
  BY <1>1, FaultIs
<1>3. CASE run' = [run EXCEPT ![p] = Failing(p)] /\ UNCHANGED staging /\ run[p].pc \in Staged
  BY <1>2, <1>3, FailingInv
<1>4. ASSUME Good(p)', run'[p].dir = NoName, run'[p].pc \notin Staged, run'[p].cutoff <= clock
      PROVE  DrillInv'
  <2>1. WorkHoldsSound'
    BY <1>2 DEF DrillInv, WorkHoldsSound
  <2> QED BY <1>2, <1>4, <2>1, OwnStep
<1>5. CASE run' = [run EXCEPT ![p] = Swept(p)] /\ run[p].pc = "cleanup"
  <2>1. run'[p] = Swept(p)
    BY <1>1, <1>5 DEF TypeOK
  <2> QED BY <1>1, <1>2, <1>4, <1>5, <2>1, SweptGood
<1>6. CASE \/ run' = [run EXCEPT ![p] = Ended(p, "failed")]
           \/ run' = [run EXCEPT ![p] = Fresh(run[p].of)]
  <2>1. run'[p] = Ended(p, "failed") \/ run'[p] = Fresh(run[p].of)
    BY <1>1, <1>6 DEF TypeOK
  <2>2. run'[p].pc \in {"failed", "idle"} /\ run'[p].dir = NoName /\ run'[p].cutoff = 0
    BY <1>1, <2>1, EndedRun DEF Fresh
  <2>3. run'[p].pc \in Resting /\ run'[p].pc \notin Staged
    BY <2>2 DEF Resting, Staged
  <2> QED BY <1>1, <1>4, <2>2, <2>3, NothingOwed
<1> QED BY <1>1, <1>3, <1>5, <1>6, FaultIs

(***************************************************************************)
(* The theorems.                                                           *)
(***************************************************************************)
LEMMA StepKeepsInv == DrillInv /\ [Next]_vars => DrillInv'
<1> SUFFICES ASSUME DrillInv, [Next]_vars PROVE DrillInv'
  OBVIOUS
<1>0. TypeOK
  BY DEF DrillInv
<1>1. CASE UNCHANGED vars
  BY <1>1 DEF vars, DrillInv, TypeOK, Owned, Timely, Live, WorkHoldsSound, Good, ArchiveOK,
              MembersOK, Awaited, StagedOK, PendingOK, InPlace, Moving, Held, Here, InStaging,
              AsAttested, Manifest, Whole
<1>2. CASE Surroundings
  BY <1>2, SurroundingsInv
<1>3. ASSUME NEW p \in Drill, Restoring(p) PROVE DrillInv'
  <2>1. CASE Begin(p)
    BY <1>0, <2>1, RunOnlyType, BeginInv
  <2>2. CASE CheckWork(p)
    BY <1>0, <2>2, RunOnlyType, CheckWorkInv
  <2>3. CASE NothingToRestore(p) \/ Readback(p)
    BY <1>0, <2>3, RunOnlyType, EndingsInv
  <2>4. CASE MakeStaging(p)
    BY <1>0, <2>4, MakeStagingType, MakeStagingInv
  <2>5. CASE Sweep(p)
    BY <1>0, <2>5, SweepType, SweepInv
  <2>6. CASE Copy(p)
    BY <1>0, <2>6, CopyType, CopyInv
  <2>7. CASE Compare(p)
    BY <1>0, <2>7, RunOnlyType, CompareInv
  <2>8. CASE VerifyStaged(p)
    BY <1>0, <2>8, RunOnlyType, VerifyStagedInv
  <2>9. CASE OpenWork(p)
    BY <1>0, <2>9, OpenWorkType, OpenWorkInv
  <2>10. CASE Move(p)
    <3>1. run[p].pc = "move" /\ run[p].pending # {} /\ StagedOK(p) /\ run[p].pending \in SUBSET File
      BY <2>10, <1>0 DEF Move, Step, DrillInv, Good, TypeOK, RunState
    <3>2. First(run[p].pending) \in DOMAIN staging[run[p].dir].files
      BY <3>1, FirstIsMember DEF StagedOK, Copying, Staged, InStaging
    <3> QED BY <1>0, <2>10, <3>2, MoveType, MoveInv
  <2>11. CASE Moved(p)
    BY <1>0, <2>11, RunOnlyType, MovedInv
  <2>12. CASE Cleanup(p)
    BY <1>0, <2>12, CleanupType, CleanupInv
  <2>13. CASE FaultStep(p)
    BY <1>0, <2>13, FaultType, FaultInv
  <2> QED BY <1>3, <2>1, <2>2, <2>3, <2>4, <2>5, <2>6, <2>7, <2>8, <2>9, <2>10, <2>11, <2>12,
             <2>13 DEF Restoring, Work, FaultStep
<1> QED BY <1>1, <1>2, <1>3 DEF Next

THEOREM DrillInvariant == Spec => []DrillInv
  BY InitInv, StepKeepsInv, PTL DEF Spec

\* Type correctness, and nothing the chain walk would refuse lands in a work directory.
THEOREM OnlySoundWork == Spec => []DrillsSound
<1>1. DrillInv => DrillsSound
  BY DEF DrillInv, DrillsSound
<1> QED BY <1>1, DrillInvariant, PTL

LEMMA InvKeepsLive == DrillInv => LiveStagingKept
<1>1. SUFFICES ASSUME DrillInv, NEW p \in Drill, run[p].pc \in Staged \ {"cleanup"}
      PROVE  /\ Here(p)
             /\ DOMAIN InStaging(p) =
                  CASE run[p].pc = "copy" -> run[p].members \ run[p].pending
                    [] run[p].pc = "compare" ->
                         (run[p].members \ run[p].pending) \cup {First(run[p].pending)}
                    [] run[p].pc = "move" -> run[p].pending
                    [] OTHER -> run[p].members
  BY DEF LiveStagingKept, InStaging
<1>2. StagedOK(p) /\ run[p].pc \in {"copy", "compare", "open", "move"}
  BY <1>1 DEF DrillInv, Good, Staged
<1> QED BY <1>2 DEF StagedOK, Copying, Staged

(***************************************************************************)
(* Leftovers.  Only what counts as a stray leaves one.                     *)
(***************************************************************************)
Leftover == {d \in DOMAIN staging : ~Live(d)}
LeftoversCounted == IsFiniteSet(DOMAIN staging) /\ Cardinality(Leftover) <= strays

LEMMA StraysAreNatural == TypeOK => strays \in Nat
  BY DrillAssumption DEF TypeOK

LEMMA LeftoversFinite == LeftoversCounted => IsFiniteSet(Leftover)
<1>1. Leftover \in SUBSET DOMAIN staging
  BY DEF Leftover
<1> QED BY <1>1, FS_Subset DEF LeftoversCounted

\* What a step of p owes the count: it stays on its directory, or the directory goes.
LEMMA NoneLeft ==
    ASSUME TypeOK, LeftoversCounted, NEW p \in Drill, UNCHANGED strays,
           \A q \in Drill : q # p => run'[q] = run[q],
           run[p].pc \in Staged =>
               \/ run'[p].pc \in Staged /\ run'[p].dir = run[p].dir
               \/ run[p].dir \notin DOMAIN staging',
           \/ DOMAIN staging' \subseteq DOMAIN staging
           \/ /\ run'[p].pc \in Staged
              /\ DOMAIN staging' \subseteq DOMAIN staging \cup {run'[p].dir}
    PROVE  LeftoversCounted'
<1>1. strays \in Nat
  BY StraysAreNatural
<1>2. IsFiniteSet(DOMAIN staging')
  <2>1. IsFiniteSet(DOMAIN staging \cup {run'[p].dir})
    BY FS_AddElement DEF LeftoversCounted
  <2>2. DOMAIN staging' \in SUBSET (DOMAIN staging \cup {run'[p].dir})
    OBVIOUS
  <2> QED BY <2>1, <2>2, FS_Subset
<1>3. Leftover' \subseteq Leftover
  <2>1. SUFFICES ASSUME NEW d \in DOMAIN staging', ~Live(d)'
        PROVE  d \in DOMAIN staging /\ ~Live(d)
    BY DEF Leftover
  <2>2. d \in DOMAIN staging
    BY <2>1 DEF Live
  <2>3. ASSUME NEW q \in Drill, run[q].pc \in Staged, run[q].dir = d PROVE FALSE
    <3>1. CASE q = p
      BY <2>1, <2>3, <3>1 DEF Live
    <3>2. CASE q # p
      BY <2>1, <2>3, <3>2 DEF Live
    <3> QED BY <3>1, <3>2
  <2> QED BY <2>2, <2>3 DEF Live
<1>4. Cardinality(Leftover') <= strays
  BY <1>1, <1>3, LeftoversFinite, NoneMore DEF LeftoversCounted
<1> QED BY <1>2, <1>4 DEF LeftoversCounted

\* What counts as a stray leaves one more at most.
LEMMA StrayLeavesOne ==
    ASSUME TypeOK, LeftoversCounted, NEW p \in Drill, strays' = strays + 1,
           \A q \in Drill : q # p => run'[q] = run[q], DOMAIN staging' = DOMAIN staging
    PROVE  LeftoversCounted'
<1>1. strays \in Nat
  BY StraysAreNatural
<1>2. Leftover' \subseteq Leftover \cup {run[p].dir}
  BY DEF Leftover, Live
<1>3. Cardinality(Leftover') <= strays + 1
  BY <1>1, <1>2, LeftoversFinite, OneMore DEF LeftoversCounted
<1> QED BY <1>3 DEF LeftoversCounted

LEMMA StepCounts == TypeOK /\ LeftoversCounted /\ [Next]_vars => LeftoversCounted'
<1> SUFFICES ASSUME TypeOK, LeftoversCounted, [Next]_vars PROVE LeftoversCounted'
  OBVIOUS
<1>0. \A p \in Drill : run[p] \in RunState
  BY DEF TypeOK
<1>1. CASE UNCHANGED vars
  BY <1>1 DEF vars, LeftoversCounted, Leftover, Live
<1>2. CASE Surroundings
  <2>1. UNCHANGED <<staging, strays>>
    BY <1>2 DEF Surroundings, Tick, Damage, Clear
  <2>2. \A p \in Drill : run'[p].pc = run[p].pc /\ run'[p].dir = run[p].dir
    BY <1>2, DamageRun DEF Surroundings, Tick, Clear
  <2>3. Leftover' = Leftover
    BY <2>1, <2>2 DEF Leftover, Live
  <2> QED BY <2>1, <2>3 DEF LeftoversCounted
<1>3. ASSUME NEW p \in Drill, Restoring(p) PROVE LeftoversCounted'
  <2>0. ~FaultStep(p) => \A q \in Drill : q # p => run'[q] = run[q]
    <3>1. ~FaultStep(p) => \E to : run' = [run EXCEPT ![p] = to]
      BY <1>3 DEF Restoring, Work, Begin, CheckWork, NothingToRestore, MakeStaging, Sweep,
                  SweepGone, SweepYoung, SweepStale, SweepRefused, Seen, Copy, Compare,
                  VerifyStaged, OpenWork, Move, Moved, Cleanup, Readback, FaultStep, Step
    <3> QED BY <3>1 DEF TypeOK
  <2>1. CASE ~FaultStep(p) /\ (Begin(p) \/ CheckWork(p) \/ NothingToRestore(p) \/ Readback(p))
    <3>1. UNCHANGED <<staging, strays>> /\ run[p].pc \notin Staged
      BY <2>1 DEF Begin, CheckWork, NothingToRestore, Readback, Step, Resting, Staged
    <3> QED BY <2>0, <2>1, <3>1, NoneLeft
  <2>2. CASE ~FaultStep(p) /\ MakeStaging(p)
    <3>1. /\ run[p].pc = "stage" /\ UNCHANGED strays
          /\ run'[p].pc = "copy" /\ DOMAIN staging' \subseteq DOMAIN staging \cup {run'[p].dir}
      BY <1>0, <2>2 DEF MakeStaging, Step, RunState, Put, TypeOK
    <3> QED BY <2>0, <2>2, <3>1, NoneLeft DEF Staged
  <2>3. CASE ~FaultStep(p) /\ Sweep(p)
    <3>1. PICK d, reported : Seen(p, d, reported)
      BY <2>3 DEF Sweep, SweepGone, SweepYoung, SweepStale, SweepRefused
    <3>2. run'[p].pc = run[p].pc /\ run'[p].dir = run[p].dir
      BY <1>0, <3>1 DEF Seen, RunState, TypeOK
    <3>3. DOMAIN staging' \subseteq DOMAIN staging /\ UNCHANGED strays
      BY <2>3 DEF Sweep, SweepGone, SweepYoung, SweepStale, SweepRefused, Keep
    <3> QED BY <2>0, <2>3, <3>2, <3>3, NoneLeft
  <2>4. CASE /\ ~FaultStep(p)
             /\ Copy(p) \/ Compare(p) \/ VerifyStaged(p) \/ OpenWork(p) \/ Move(p) \/ Moved(p)
    <3>1. DOMAIN staging' = DOMAIN staging /\ UNCHANGED strays
      BY <2>4 DEF Copy, Compare, VerifyStaged, OpenWork, Move, Moved
    <3>2. run'[p].dir = run[p].dir /\ run'[p].pc \in Staged
      <4>1. CASE run' = [run EXCEPT ![p] = Failing(p)]
        BY <4>1, FailingRun DEF TypeOK, Staged
      <4>2. CASE run' # [run EXCEPT ![p] = Failing(p)]
        <5>1. CASE Copy(p)
          BY <1>0, <4>2, <5>1 DEF Copy, Step, RunState, TypeOK, Staged
        <5>2. CASE Compare(p)
          <6>1. run' = [run EXCEPT ![p] = [run[p] EXCEPT !.pc = "copy",
                                             !.pending = @ \ {First(run[p].pending)}]]
            BY <4>2, <5>2 DEF Compare, Step
          <6> QED BY <1>0, <6>1 DEF RunState, TypeOK, Staged
        <5>3. CASE VerifyStaged(p)
          BY <1>0, <4>2, <5>3 DEF VerifyStaged, Step, RunState, TypeOK, Staged
        <5>4. CASE OpenWork(p)
          <6>1. run' = [run EXCEPT ![p] = [run[p] EXCEPT !.pc = "move",
                                             !.pending = DOMAIN staging[run[p].dir].files]]
            BY <4>2, <5>4 DEF OpenWork, Step
          <6> QED BY <1>0, <6>1 DEF RunState, TypeOK, Staged
        <5>5. CASE Move(p)
          <6>1. /\ run' = [run EXCEPT ![p] = [run[p] EXCEPT !.pending = @ \ {First(run[p].pending)}]]
                /\ run[p].pc = "move"
            BY <4>2, <5>5 DEF Move, Step
          <6> QED BY <1>0, <6>1 DEF RunState, TypeOK, Staged
        <5>6. CASE Moved(p)
          BY <1>0, <5>6 DEF Moved, Step, RunState, TypeOK, Staged
        <5> QED BY <2>4, <5>1, <5>2, <5>3, <5>4, <5>5, <5>6
      <4> QED BY <4>1, <4>2
    <3> QED BY <2>0, <2>4, <3>1, <3>2, NoneLeft
  <2>5. CASE ~FaultStep(p) /\ Cleanup(p)
    <3>1. DOMAIN staging' = DOMAIN staging \ {run[p].dir} /\ UNCHANGED strays
      BY <2>5 DEF Cleanup, Keep
    <3> QED BY <2>0, <2>5, <3>1, NoneLeft
  <2>6. CASE FaultStep(p)
    <3>1. DOMAIN staging' = DOMAIN staging /\ \A q \in Drill : q # p => run'[q] = run[q]
      BY <2>6, FaultIs
    <3>2. CASE strays' = strays + 1
      BY <3>1, <3>2, StrayLeavesOne
    <3>3. CASE UNCHANGED <<staging, strays>> /\ (run[p].pc \notin Staged \/ ~Here(p))
      BY <3>1, <3>3, NoneLeft DEF Here
    <3>4. CASE /\ UNCHANGED <<staging, strays>> /\ run' = [run EXCEPT ![p] = Failing(p)]
               /\ run[p].pc \in Staged
      <4>1. run'[p].dir = run[p].dir /\ run'[p].pc \in Staged
        BY <3>4, FailingRun DEF TypeOK, Staged
      <4> QED BY <3>1, <3>4, <4>1, NoneLeft
    <3> QED BY <2>6, <3>2, <3>3, <3>4, FaultIs
  <2> QED BY <1>3, <2>1, <2>2, <2>3, <2>4, <2>5, <2>6 DEF Restoring, Work, FaultStep
<1> QED BY <1>1, <1>2, <1>3 DEF Next

\* No sweep takes what another drill is staging, and a drill that ends leaves nothing
\* staged, unless it was killed, its sweep raised before the try, or the removal came to
\* nothing: there are no more leftovers than there were of these.
THEOREM NothingTakenOrLeft == Spec => []DrillStagingSound
<1>1. Init => LeftoversCounted
  <2>1. ASSUME Init PROVE DOMAIN staging = {} /\ Leftover = {} /\ strays = 0
    BY <2>1 DEF Init, Leftover
  <2> QED BY <2>1, FS_EmptySet DEF LeftoversCounted
<1>2. DrillInv /\ LeftoversCounted /\ [Next]_vars => LeftoversCounted'
  BY StepCounts DEF DrillInv
<1>3. DrillInv /\ LeftoversCounted => DrillStagingSound
  BY InvKeepsLive DEF DrillStagingSound, NothingLeftBehind, LeftoversCounted, Leftover
<1> QED BY <1>1, <1>2, <1>3, DrillInvariant, PTL DEF Spec

\* Only a readback passes, and it leaves the work directory as the moves left it.
LEMMA StepPasses ==
    ASSUME DrillInv, [Next]_vars, NEW p \in Drill, OwnTargets,
           run[p].pc # "passed", run'[p].pc = "passed"
    PROVE  Restored(p)
<1>0. TypeOK /\ Good(p) /\ run[p] \in RunState
  BY DEF DrillInv, TypeOK
<1>1. Readback(p)
  <2>1. ASSUME UNCHANGED run PROVE FALSE
    BY <2>1
  <2>2. ASSUME Surroundings PROVE FALSE
    BY <1>0, <2>1, <2>2, DamageRun DEF Surroundings, Tick, Clear
  <2>3. ASSUME NEW q \in Drill, Restoring(q), q # p PROVE FALSE
    <3>1. ~FaultStep(q) => \E to : run' = [run EXCEPT ![q] = to]
      BY <2>3 DEF Restoring, Work, Begin, CheckWork, NothingToRestore, MakeStaging, Sweep,
                  SweepGone, SweepYoung, SweepStale, SweepRefused, Seen, Copy, Compare,
                  VerifyStaged, OpenWork, Move, Moved, Cleanup, Readback, FaultStep, Step
    <3>2. ~FaultStep(q) => run'[p] = run[p]
      BY <1>0, <2>3, <3>1 DEF TypeOK
    <3>3. FaultStep(q) => run'[p] = run[p]
      BY <1>0, <2>3, FaultIs
    <3> QED BY <3>2, <3>3
  <2>4. Restoring(p)
    BY <2>1, <2>2, <2>3 DEF Next, vars
  <2>5. \A to : run' = [run EXCEPT ![p] = to] => to.pc = "passed"
    BY <1>0 DEF TypeOK
  <2>6. CASE Begin(p)
    BY <2>5, <2>6 DEF Begin, Fresh
  <2>7. CASE CheckWork(p) \/ NothingToRestore(p)
    BY <1>0, <2>5, <2>7, EndedRun DEF CheckWork, NothingToRestore, Step, RunState
  <2>8. CASE MakeStaging(p)
    BY <1>0, <2>5, <2>8 DEF MakeStaging, Step, RunState
  <2>9. CASE Sweep(p)
    <3>1. PICK d, reported : Seen(p, d, reported)
      BY <2>9 DEF Sweep, SweepGone, SweepYoung, SweepStale, SweepRefused
    <3> QED BY <1>0, <2>9, <3>1 DEF Sweep, Seen, RunState, TypeOK
  <2>10. CASE Copy(p) \/ Compare(p) \/ VerifyStaged(p) \/ OpenWork(p) \/ Move(p) \/ Moved(p)
    <3>1. run' # [run EXCEPT ![p] = Failing(p)]
      BY <1>0, <2>5, FailingRun
    <3>2. run[p].pc \in {"copy", "compare", "open", "move"}
      BY <2>10 DEF Copy, Compare, VerifyStaged, OpenWork, Move, Moved, Step
    <3>3. CASE Copy(p)
      BY <1>0, <2>5, <3>1, <3>3 DEF Copy, Step, RunState
    <3>4. CASE Compare(p)
      <4>1. run' = [run EXCEPT ![p] = [run[p] EXCEPT !.pc = "copy", !.pending = @ \ {First(run[p].pending)}]]
        BY <3>1, <3>4 DEF Compare, Step
      <4> QED BY <1>0, <2>5, <4>1 DEF RunState
    <3>5. CASE VerifyStaged(p)
      BY <1>0, <2>5, <3>1, <3>5 DEF VerifyStaged, Step, RunState
    <3>6. CASE OpenWork(p)
      <4>1. run' = [run EXCEPT ![p] = [run[p] EXCEPT !.pc = "move",
                                         !.pending = DOMAIN staging[run[p].dir].files]]
        BY <3>1, <3>6 DEF OpenWork, Step
      <4> QED BY <1>0, <2>5, <4>1 DEF RunState
    <3>7. CASE Move(p)
      <4>1. run' = [run EXCEPT ![p] = [run[p] EXCEPT !.pending = @ \ {First(run[p].pending)}]]
        BY <3>1, <3>7 DEF Move, Step
      <4> QED BY <1>0, <2>5, <3>2, <4>1 DEF RunState
    <3>8. CASE Moved(p)
      BY <1>0, <2>5, <3>8 DEF Moved, Step, RunState
    <3> QED BY <2>10, <3>3, <3>4, <3>5, <3>6, <3>7, <3>8
  <2>11. run' # [run EXCEPT ![p] = Swept(p)]
    <3>1. [run[p] EXCEPT !.pc = "readback", !.dir = NoName].pc # "passed"
      BY <1>0 DEF RunState
    <3>2. Ended(p, "failed").pc # "passed"
      BY <1>0, EndedRun
    <3>3. Swept(p).pc # "passed"
      BY <1>0, <3>1, <3>2, SweptIs, Zenon
    <3> QED BY <2>5, <3>3
  <2>12. CASE Cleanup(p)
    BY <2>11, <2>12 DEF Cleanup, Step
  <2>13. CASE FaultStep(p)
    <3>1. Fresh(run[p].of).pc # "passed" /\ Ended(p, "failed").pc # "passed" /\ Failing(p).pc # "passed"
      BY <1>0, EndedRun, FailingRun DEF Fresh
    <3> QED BY <1>0, <2>5, <2>11, <2>13, <3>1, FaultIs
  <2> QED BY <2>4, <2>6, <2>7, <2>8, <2>9, <2>10, <2>12, <2>13 DEF Restoring, Work, FaultStep
<1>2. run[p].pc = "readback" /\ Reads(p)
  <2>1. run[p].pc = "readback"
    BY <1>1 DEF Readback, Step
  <2>2. ASSUME ~ (Reads(p) /\ run[p].config # "foreign") PROVE FALSE
    <3>1. run' = [run EXCEPT ![p] = Ended(p, "failed")]
      BY <1>1, <2>2 DEF Readback, Step
    <3> QED BY <1>0, <3>1, EndedRun DEF TypeOK
  <2> QED BY <2>1, <2>2
<1>3. /\ Target[p] \in DOMAIN work /\ DOMAIN work[Target[p]] = run[p].members
      /\ AsAttested(p, work[Target[p]]) /\ ChainOK(work[Target[p]])
      /\ run[p].members \subseteq DOMAIN Manifest(p)
      /\ DOMAIN Manifest(p) \ run[p].touched \subseteq run[p].members
  BY <1>0, <1>2 DEF Good, InPlace, MembersOK, Moving
<1>4. Held(Target[p]) = work[Target[p]]
  BY <1>3 DEF Held
<1> QED BY <1>2, <1>3, <1>4 DEF Restored, Reads, AsAttested, Manifest

\* A drill on a work directory of its own passes only with a restored chain in it: the
\* manifest's files as attested, but for those damaged between the archive's verification
\* and their copy, which got through only as a chain that verifies.
THEOREM PassedMeansRestored == Spec => PassMeansRestored
<1>1. DrillInv /\ [Next]_vars =>
        [\A p \in Drill :
            (OwnTargets /\ run[p].pc # "passed" /\ run'[p].pc = "passed") => Restored(p)]_vars
  BY StepPasses
<1> QED BY <1>1, DrillInvariant, PTL DEF Spec, PassMeansRestored

(***************************************************************************)
(* Nothing went wrong.  Then every archive is still what it was, and each  *)
(* drill is on course: what it stages is attested, and what it moved stays *)
(* in the work directory until it rests, even if others move theirs there  *)
(* too.                                                                    *)
(***************************************************************************)
HasIndex(p) == Vault[run[p].of].index => IndexFile \in DOMAIN AttestedFiles(p)
Landing == {"move", "cleanup", "readback"}

OnCourse(p) ==
    /\ ~run[p].failed
    /\ run[p].pc \notin Resting => ChainOK(AttestedFiles(p))
    /\ run[p].pc \in Staged \cup {"readback"} => run[p].members = DOMAIN AttestedFiles(p)
    /\ run[p].pc \in Copying =>
         \A f \in DOMAIN InStaging(p) : InStaging(p)[f] = AttestedFiles(p)[f]
    /\ run[p].pc \in {"cleanup", "readback"} => run[p].pending = {}
    /\ run[p].pc \in Landing =>
         /\ Target[p] \in DOMAIN work
         /\ run[p].members \ run[p].pending \subseteq DOMAIN work[Target[p]]
    /\ run[p].pc = "failed" /\ run[p].config \in {"none", "own"} /\ HasIndex(p) => run[p].reported

NoneEmpty(d) == \A s \in Segments(d) : d[s].first <= d[s].last
AsStored == \A a \in Archive : archives[a] = Vault[a].files
WorkFull == \A w \in DOMAIN work : NoneEmpty(work[w])

FaultlessInv == faults = 0 => AsStored /\ WorkFull /\ \A p \in Drill : OnCourse(p)

LEMMA InitFaultless == Init => FaultlessInv
<1> SUFFICES ASSUME Init PROVE FaultlessInv
  OBVIOUS
<1>1. ASSUME NEW p \in Drill PROVE OnCourse(p)
  <2>1. run[p].pc = "idle" /\ run[p].failed = FALSE
    BY DEF Init, Fresh
  <2> QED BY <2>1 DEF OnCourse, Resting, Copying, Staged, Landing
<1>2. WorkFull
  BY DEF Init, WorkFull, NoneEmpty, Segments, NoFiles
<1> QED BY <1>1, <1>2 DEF Init, FaultlessInv, AsStored

\* A step of another drill: it keeps its hands off the run and the live staging
\* directory of q, and takes no file out of a work directory.
LEMMA OthersLeave ==
    ASSUME DrillInv, NEW p \in Drill, NEW q \in Drill, q # p, Begin(p) \/ Work(p)
    PROVE  /\ run'[q] = run[q]
           /\ run[q].pc \in Copying => staging'[run[q].dir] = staging[run[q].dir]
           /\ \A w \in DOMAIN work : w \in DOMAIN work' /\ DOMAIN work[w] \subseteq DOMAIN work'[w]
<1>0. TypeOK /\ Owned /\ Good(q) /\ run \in [Drill -> RunState]
  BY DEF DrillInv, TypeOK
<1>1. run'[q] = run[q]
  <2>1. \E to : run' = [run EXCEPT ![p] = to]
    BY DEF Begin, Work, CheckWork, NothingToRestore, MakeStaging, Sweep, SweepGone, SweepYoung,
           SweepStale, SweepRefused, Seen, Copy, Compare, VerifyStaged, OpenWork, Move, Moved,
           Cleanup, Readback, Step
  <2> QED BY <1>0, <2>1
<1>2. ASSUME run[q].pc \in Copying PROVE staging'[run[q].dir] = staging[run[q].dir]
  <2> DEFINE e == run[q].dir
  <2>1. e \in DOMAIN staging /\ Live(e)
    BY <1>0, <1>2 DEF Good, StagedOK, Here, Live, Copying
  <2>2. e # run[p].dir
    <3>1. e # NoName
      BY <1>0, <2>1, DrillAssumption DEF TypeOK
    <3> QED BY <1>0, <3>1 DEF Owned
  <2>3. CASE Sweep(p)
    <3>1. PICK d : SweepGone(p, d) \/ SweepYoung(p, d) \/ SweepStale(p, d) \/ SweepRefused(p, d)
      BY <2>3 DEF Sweep
    <3>2. CASE SweepStale(p, d)
      <4>1. d # e
        BY <2>1, <3>2, StaleIsNobodys DEF SweepStale
      <4> QED BY <2>1, <3>2, <4>1 DEF SweepStale, Keep
    <3> QED BY <3>1, <3>2 DEF SweepGone, SweepYoung, SweepRefused
  <2>4. CASE MakeStaging(p)
    <3>1. PICK d : d \notin DOMAIN staging
                   /\ staging' = Put(staging, d, [files |-> NoFiles, mtime |-> clock])
      BY <2>4 DEF MakeStaging
    <3> QED BY <2>1, <3>1 DEF Put
  <2>5. CASE Copy(p) \/ Move(p)
    <3> DEFINE d == run[p].dir
               m == First(run[p].pending)
               copied == [files |-> Put(staging[d].files, m, archives[run[p].of][m]), mtime |-> clock]
               left == [files |-> Keep(staging[d].files, DOMAIN staging[d].files \ {m}),
                        mtime |-> clock]
    <3>1. \/ UNCHANGED staging
          \/ staging' = [staging EXCEPT ![d] = copied] \/ staging' = [staging EXCEPT ![d] = left]
      BY <2>5 DEF Copy, Move
    <3> HIDE DEF copied, left, e, d
    <3>2. e # d
      BY <2>2 DEF d
    <3>3. staging'[e] = staging[e]
      BY <2>1, <3>1, <3>2
    <3> QED BY <3>3 DEF e
  <2>6. CASE Cleanup(p)
    BY <2>1, <2>2, <2>6 DEF Cleanup, Keep
  <2>7. CASE UNCHANGED staging
    BY <2>7
  <2> QED BY <2>3, <2>4, <2>5, <2>6, <2>7
          DEF Begin, Work, CheckWork, NothingToRestore, Compare, VerifyStaged, OpenWork, Moved,
              Readback
<1>3. ASSUME NEW w \in DOMAIN work
      PROVE  w \in DOMAIN work' /\ DOMAIN work[w] \subseteq DOMAIN work'[w]
  <2>1. CASE OpenWork(p)
    <3>1. work' = Put(work, Target[p], Held(Target[p]))
      BY <2>1 DEF OpenWork
    <3> QED BY <3>1 DEF Put, Held
  <2>2. CASE Move(p)
    <3>1. CASE UNCHANGED work
      BY <3>1
    <3>2. CASE Here(p)
      <4> DEFINE m == First(run[p].pending)
                 c == staging[run[p].dir].files[m]
      <4>1. work' = [work EXCEPT ![Target[p]] = Put(work[Target[p]], m, c)]
        BY <2>2, <3>2 DEF Move
      <4> HIDE DEF m, c
      <4>2. work'[w] = work[w] \/ work'[w] = Put(work[w], m, c)
        BY <4>1
      <4>3. w \in DOMAIN work' /\ DOMAIN work[w] \subseteq DOMAIN Put(work[w], m, c)
        BY <4>1 DEF Put
      <4> QED BY <4>2, <4>3
    <3> QED BY <2>2, <3>1, <3>2 DEF Move
  <2>3. CASE UNCHANGED work
    BY <2>3
  <2> QED BY <2>1, <2>2, <2>3
          DEF Begin, Work, CheckWork, NothingToRestore, MakeStaging, Sweep, Copy, Compare,
              VerifyStaged, Moved, Cleanup, Readback
<1> QED BY <1>1, <1>2, <1>3

LEMMA OthersOnCourse ==
    ASSUME DrillInv, NEW q \in Drill, OnCourse(q), run'[q] = run[q],
           run[q].pc \in Copying => staging'[run[q].dir] = staging[run[q].dir],
           run[q].pc \in Landing => \A w \in DOMAIN work :
               w = Target[q] => w \in DOMAIN work' /\ DOMAIN work[w] \subseteq DOMAIN work'[w]
    PROVE  OnCourse(q)'
<1>1. AttestedFiles(q)' = AttestedFiles(q) /\ HasIndex(q)' = HasIndex(q)
  BY DEF AttestedFiles, HasIndex
<1>2. run[q].pc \in Copying => InStaging(q)' = InStaging(q)
  BY DEF InStaging
<1>3. run[q].pc \in Landing =>
         /\ Target[q] \in DOMAIN work'
         /\ run[q].members \ run[q].pending \subseteq DOMAIN work'[Target[q]]
  BY DEF OnCourse
<1> QED BY <1>1, <1>2, <1>3 DEF OnCourse

\* A drill that ends in a verdict owes the report of its sweep, if it failed.
LEMMA EndedOnCourse ==
    ASSUME TypeOK, NEW p \in Drill, NEW verdict \in Resting, run' = [run EXCEPT ![p] = Ended(p, verdict)],
           verdict = "failed" /\ run[p].config \in {"none", "own"} /\ HasIndex(p) => run[p].reported
    PROVE  OnCourse(p)'
<1>1. run'[p] = Ended(p, verdict)
  BY DEF TypeOK
<1>2. /\ Ended(p, verdict).pc = verdict /\ Ended(p, verdict).failed = FALSE
      /\ Ended(p, verdict).of = run[p].of /\ Ended(p, verdict).config = run[p].config
      /\ Ended(p, verdict).reported = run[p].reported
  BY DEF Ended, Fresh
<1>3. run'[p].pc = verdict /\ ~run'[p].failed /\ run'[p].of = run[p].of
  BY <1>1, <1>2
<1>4. HasIndex(p)' = HasIndex(p)
  BY <1>3 DEF HasIndex, AttestedFiles
<1>5. verdict \notin Staged \cup {"readback"} /\ verdict \notin Landing /\ verdict \notin Copying
      /\ verdict \notin {"cleanup", "readback"}
  BY DEF Resting, Staged, Landing, Copying
<1>6. run'[p].pc = "failed" /\ run'[p].config \in {"none", "own"} /\ HasIndex(p)' => run'[p].reported
  BY <1>1, <1>2, <1>4, Zenon
<1>7. run'[p].pc \in Resting
  BY <1>3
<1> QED BY <1>3, <1>5, <1>6, <1>7, Zenon DEF OnCourse

\* A drill that has staged nothing yet.
LEMMA EarlyOnCourse ==
    ASSUME FaultlessInv, DrillInv, faults = 0, NEW p \in Drill,
           Begin(p) \/ CheckWork(p) \/ NothingToRestore(p)
    PROVE  OnCourse(p)'
<1>0. TypeOK /\ run[p] \in RunState /\ run \in [Drill -> RunState] /\ OnCourse(p) /\ AsStored
  BY DEF DrillInv, TypeOK, FaultlessInv
<1>1. ASSUME run'[p].pc \in {"target", "stage"}, ~run'[p].failed, ChainOK(AttestedFiles(p)')
      PROVE  OnCourse(p)'
  BY <1>1 DEF OnCourse, Copying, Staged, Landing, Resting
<1>2. CASE Begin(p)
  <2>1. PICK a \in Archive, c \in ConfigChoice :
          run' = [run EXCEPT ![p] =
                    [Fresh(a) EXCEPT !.config = c,
                        !.pc = IF Verified([Vault[a] EXCEPT !.files = archives[a]]) /\ c # "unreadable"
                                 THEN "target" ELSE "refused"]]
    BY <1>2 DEF Begin
  <2> DEFINE good == Verified([Vault[a] EXCEPT !.files = archives[a]]) /\ c # "unreadable"
             to == [Fresh(a) EXCEPT !.config = c, !.pc = IF good THEN "target" ELSE "refused"]
  <2>2. good => ChainOK(archives[a])
    <3>1. [Vault[a] EXCEPT !.files = archives[a]].files = archives[a]
      BY DrillAssumption
    <3> QED BY <3>1 DEF Verified
  <2> HIDE DEF good
  <2>3. run'[p] = to
    BY <1>0, <2>1 DEF good
  <2>4. /\ to.pc = (IF good THEN "target" ELSE "refused") /\ to.failed = FALSE /\ to.of = a
    BY DEF Fresh
  <2> HIDE DEF to
  <2>5. CASE good
    <3>1. AttestedFiles(p)' = archives[a]
      BY <1>0, <2>3, <2>4 DEF AttestedFiles, AsStored
    <3> QED BY <1>1, <2>2, <2>3, <2>4, <2>5, <3>1
  <2>6. CASE ~good
    BY <2>3, <2>4, <2>6 DEF OnCourse, Copying, Staged, Landing, Resting
  <2> QED BY <2>5, <2>6
<1>3. ASSUME run' = [run EXCEPT ![p] = Ended(p, "refused")] PROVE OnCourse(p)'
  BY <1>0, <1>3, EndedOnCourse DEF Resting
<1>4. CASE CheckWork(p)
  <2>1. CASE run' = [run EXCEPT ![p] = [run[p] EXCEPT !.pc = "stage"]]
    <3>1. run'[p].pc = "stage" /\ run'[p].failed = run[p].failed /\ run'[p].of = run[p].of
      BY <1>0, <2>1 DEF RunState
    <3>2. run[p].pc \notin Resting
      BY <1>4 DEF CheckWork, Step, Resting
    <3>3. AttestedFiles(p)' = AttestedFiles(p)
      BY <3>1 DEF AttestedFiles
    <3> QED BY <1>0, <1>1, <3>1, <3>2, <3>3 DEF OnCourse
  <2> QED BY <1>3, <1>4, <2>1 DEF CheckWork, Step
<1> QED BY <1>2, <1>3, <1>4 DEF NothingToRestore, Step

\* A drill that moves on over the same staging directory and work directory.
LEMMA OnwardOnCourse ==
    ASSUME NEW p \in Drill, OnCourse(p), run[p].pc \in Staged, run'[p].pc \in Staged,
           run'[p].failed = run[p].failed, run'[p].of = run[p].of, run'[p].members = run[p].members,
           run'[p].pc \in Copying =>
               \A f \in DOMAIN InStaging(p)' : InStaging(p)'[f] = AttestedFiles(p)[f],
           run'[p].pc = "cleanup" => run'[p].pending = {},
           run'[p].pc \in Landing =>
               /\ Target[p] \in DOMAIN work'
               /\ run[p].members \ run'[p].pending \subseteq DOMAIN work'[Target[p]]
    PROVE  OnCourse(p)'
<1>1. AttestedFiles(p)' = AttestedFiles(p)
  BY DEF AttestedFiles
<1>2. run[p].pc \notin Resting /\ run'[p].pc \notin {"failed", "readback"}
  BY DEF Resting, Staged
<1> QED BY <1>1, <1>2 DEF OnCourse

LEMMA StagingOnCourse ==
    ASSUME FaultlessInv, DrillInv, faults = 0, faults' = 0, NEW p \in Drill,
           MakeStaging(p) \/ Sweep(p) \/ Copy(p) \/ Compare(p) \/ VerifyStaged(p)
    PROVE  OnCourse(p)'
<1>0. TypeOK /\ run[p] \in RunState /\ run \in [Drill -> RunState] /\ OnCourse(p) /\ Good(p) /\ AsStored
  BY DEF DrillInv, TypeOK, FaultlessInv
<1>1. archives[run[p].of] = AttestedFiles(p) /\ run[p].of \in Archive
  BY <1>0 DEF AsStored, AttestedFiles, RunState
<1>2. CASE MakeStaging(p)
  <2>1. PICK d \in StagingName :
          /\ run' = [run EXCEPT ![p] = [run[p] EXCEPT !.pc = "copy", !.dir = d,
                                 !.cutoff = clock, !.todo = DOMAIN staging,
                                 !.members = DOMAIN archives[run[p].of],
                                 !.pending = DOMAIN archives[run[p].of]]]
          /\ staging' = Put(staging, d, [files |-> NoFiles, mtime |-> clock])
    BY <1>2 DEF MakeStaging, Step
  <2>2. /\ run'[p].pc = "copy" /\ run'[p].failed = run[p].failed /\ run'[p].of = run[p].of
        /\ run'[p].members = DOMAIN AttestedFiles(p) /\ run'[p].dir = d
    BY <1>0, <1>1, <2>1 DEF RunState
  <2>3. DOMAIN InStaging(p)' = {}
    BY <2>1, <2>2 DEF InStaging, Put, NoFiles
  <2>4. run[p].pc \notin Resting
    BY <1>2 DEF MakeStaging, Step, Resting
  <2>5. AttestedFiles(p)' = AttestedFiles(p)
    BY <2>2 DEF AttestedFiles
  <2> QED BY <1>0, <2>2, <2>3, <2>4, <2>5 DEF OnCourse, Landing
<1>3. CASE ~MakeStaging(p)
  <2>1. /\ run[p].pc \in {"copy", "compare"} /\ run[p].pc \in Copying /\ run[p].pc \in Staged
    BY <1>3 DEF Sweep, Copy, Compare, VerifyStaged, Step, Copying, Staged
  <2>2. /\ Here(p) /\ run[p].members = DOMAIN AttestedFiles(p)
        /\ \A f \in DOMAIN InStaging(p) : InStaging(p)[f] = AttestedFiles(p)[f]
        /\ run[p].pending \subseteq run[p].members
    BY <1>0, <2>1 DEF Good, StagedOK, PendingOK, OnCourse
  <2>3. run[p].pending # {} => First(run[p].pending) \in run[p].pending
    BY <1>0, FirstIsMember DEF RunState
  <2>4. CASE Sweep(p)
    <3>1. PICK d, reported : Seen(p, d, reported)
      BY <2>4 DEF Sweep, SweepGone, SweepYoung, SweepStale, SweepRefused
    <3>2. /\ run'[p].pc = "copy" /\ run'[p].failed = run[p].failed /\ run'[p].of = run[p].of
          /\ run'[p].members = run[p].members /\ run'[p].dir = run[p].dir
      BY <1>0, <2>4, <3>1 DEF Sweep, Seen, RunState
    <3>3. staging'[run[p].dir] = staging[run[p].dir]
      <4>1. PICK e : SweepGone(p, e) \/ SweepYoung(p, e) \/ SweepStale(p, e) \/ SweepRefused(p, e)
        BY <2>4 DEF Sweep
      <4>2. CASE SweepStale(p, e)
        <5>1. Live(run[p].dir)
          BY <2>1 DEF Live
        <5>2. e # run[p].dir
          BY <2>2, <4>2, <5>1, StaleIsNobodys DEF SweepStale, Here
        <5> QED BY <2>2, <4>2, <5>2 DEF SweepStale, Keep, Here
      <4> QED BY <4>1, <4>2 DEF SweepGone, SweepYoung, SweepRefused
    <3>4. InStaging(p)' = InStaging(p)
      BY <3>2, <3>3 DEF InStaging
    <3> QED BY <1>0, <2>1, <2>2, <3>2, <3>4, OnwardOnCourse DEF Landing, Staged
  <2>5. CASE Copy(p)
    <3> DEFINE m == First(run[p].pending)
               d == run[p].dir
    <3>1. m \in run[p].pending /\ m \in DOMAIN archives[run[p].of]
      BY <1>1, <2>2, <2>3, <2>5 DEF Copy
    <3>2. /\ run' = [run EXCEPT ![p] = [run[p] EXCEPT !.pc = "compare"]]
          /\ staging' = [staging EXCEPT ![d] =
                           [files |-> Put(@.files, m, archives[run[p].of][m]), mtime |-> clock]]
      BY <2>2, <2>5, <3>1 DEF Copy, Step
    <3>3. /\ run'[p].pc = "compare" /\ run'[p].failed = run[p].failed /\ run'[p].of = run[p].of
          /\ run'[p].members = run[p].members /\ run'[p].dir = run[p].dir
      BY <1>0, <3>2 DEF RunState
    <3>4. staging'[d].files = Put(staging[d].files, m, AttestedFiles(p)[m])
      BY <1>1, <2>2, <3>2 DEF Here
    <3>5. InStaging(p)' = Put(InStaging(p), m, AttestedFiles(p)[m])
      BY <3>3, <3>4 DEF InStaging
    <3> HIDE DEF m, d
    <3>6. \A f \in DOMAIN InStaging(p)' : InStaging(p)'[f] = AttestedFiles(p)[f]
      BY <2>2, <3>5 DEF Put
    <3> QED BY <1>0, <2>1, <3>3, <3>6, OnwardOnCourse DEF Landing, Staged
  <2>6. CASE Compare(p)
    <3> DEFINE m == First(run[p].pending)
    <3>1. run[p].pc = "compare" /\ UNCHANGED staging
      BY <2>6 DEF Compare, Step
    <3>2. m \in run[p].pending /\ m \in DOMAIN InStaging(p)
      BY <1>0, <2>1, <2>3, <3>1 DEF Good, StagedOK, PendingOK
    <3>3. m \in DOMAIN archives[run[p].of] /\ archives[run[p].of][m] = staging[run[p].dir].files[m]
      BY <1>1, <2>2, <3>2 DEF InStaging
    <3>4. run' = [run EXCEPT ![p] = [run[p] EXCEPT !.pc = "copy", !.pending = @ \ {m}]]
      BY <2>2, <2>6, <3>3 DEF Compare, Step
    <3> HIDE DEF m
    <3>5. /\ run'[p].pc = "copy" /\ run'[p].failed = run[p].failed /\ run'[p].of = run[p].of
          /\ run'[p].members = run[p].members /\ run'[p].dir = run[p].dir
      BY <1>0, <3>4 DEF RunState
    <3>6. InStaging(p)' = InStaging(p)
      BY <3>1, <3>5 DEF InStaging
    <3> QED BY <1>0, <2>1, <2>2, <3>5, <3>6, OnwardOnCourse DEF Landing, Staged
  <2>7. CASE VerifyStaged(p)
    <3>1. run[p].pc = "copy" /\ run[p].pending = {} /\ UNCHANGED staging
      BY <2>7 DEF VerifyStaged, Step
    <3>2. DOMAIN InStaging(p) = DOMAIN AttestedFiles(p)
      BY <1>0, <2>1, <2>2, <3>1 DEF Good, StagedOK
    <3>3. ChainOK(AttestedFiles(p))
      BY <1>0, <2>1 DEF OnCourse, Resting, Copying, Staged
    <3>4. ChainOK(InStaging(p))
      BY <2>2, <3>2, <3>3, SameFilesSameVerdict
    <3>5. run' = [run EXCEPT ![p] = [run[p] EXCEPT !.pc = "open"]]
      BY <2>2, <2>7, <3>4 DEF VerifyStaged, Step, InStaging
    <3>6. /\ run'[p].pc = "open" /\ run'[p].failed = run[p].failed /\ run'[p].of = run[p].of
          /\ run'[p].members = run[p].members /\ run'[p].dir = run[p].dir
      BY <1>0, <3>5 DEF RunState
    <3>7. InStaging(p)' = InStaging(p)
      BY <3>1, <3>6 DEF InStaging
    <3> QED BY <1>0, <2>1, <2>2, <3>6, <3>7, OnwardOnCourse DEF Landing, Staged
  <2> QED BY <1>3, <2>4, <2>5, <2>6, <2>7
<1> QED BY <1>2, <1>3

\* A verified chain has no empty segment, so nothing empty lands.
LEMMA MoveIs ==
    ASSUME FaultlessInv, DrillInv, faults = 0, NEW p \in Drill, Move(p)
    PROVE  \E m \in run[p].pending :
             /\ Here(p) /\ m \in DOMAIN InStaging(p) /\ run[p].pc = "move"
             /\ run' = [run EXCEPT ![p] = [run[p] EXCEPT !.pending = @ \ {m}]]
             /\ Target[p] \in DOMAIN work
             /\ work' = [work EXCEPT ![Target[p]] = Put(work[Target[p]], m, AttestedFiles(p)[m])]
             /\ staging' = [staging EXCEPT ![run[p].dir] =
                              [files |-> Keep(InStaging(p), DOMAIN InStaging(p) \ {m}), mtime |-> clock]]
             /\ m \in Segments(AttestedFiles(p)) =>
                  AttestedFiles(p)[m].first <= AttestedFiles(p)[m].last
             /\ m \in DOMAIN AttestedFiles(p)
<1>0. TypeOK /\ run[p] \in RunState /\ OnCourse(p) /\ Good(p)
  BY DEF DrillInv, TypeOK, FaultlessInv
<1>1. run[p].pc = "move" /\ run[p].pending # {} /\ run[p].pc \in Copying
  BY DEF Move, Step, Copying, Staged
<1> DEFINE m == First(run[p].pending)
<1>2. m \in run[p].pending /\ Here(p) /\ DOMAIN InStaging(p) = run[p].pending
  BY <1>0, <1>1, FirstIsMember DEF RunState, Good, StagedOK
<1>3. staging[run[p].dir].files[m] = AttestedFiles(p)[m]
  BY <1>0, <1>1, <1>2 DEF OnCourse, InStaging
<1>4. /\ run' = [run EXCEPT ![p] = [run[p] EXCEPT !.pending = @ \ {m}]]
      /\ work' = [work EXCEPT ![Target[p]] = Put(work[Target[p]], m, AttestedFiles(p)[m])]
      /\ staging' = [staging EXCEPT ![run[p].dir] =
                       [files |-> Keep(InStaging(p), DOMAIN InStaging(p) \ {m}), mtime |-> clock]]
  BY <1>2, <1>3 DEF Move, Step, InStaging
<1>5. Target[p] \in DOMAIN work
  BY <1>0, <1>1 DEF OnCourse, Landing
<1>6. ChainOK(AttestedFiles(p))
  BY <1>0, <1>1 DEF OnCourse, Resting
<1>7. m \in Segments(AttestedFiles(p)) => AttestedFiles(p)[m].first <= AttestedFiles(p)[m].last
  BY <1>6 DEF ChainOK
<1>8. m \in DOMAIN AttestedFiles(p)
  BY <1>0, <1>1, <1>2 DEF OnCourse, Good, PendingOK, Staged
<1> HIDE DEF m
<1> QED BY <1>1, <1>2, <1>4, <1>5, <1>7, <1>8

LEMMA LandingOnCourse ==
    ASSUME FaultlessInv, DrillInv, faults = 0, NEW p \in Drill, OpenWork(p) \/ Move(p) \/ Moved(p)
    PROVE  OnCourse(p)'
<1>0. TypeOK /\ run[p] \in RunState /\ run \in [Drill -> RunState] /\ OnCourse(p) /\ Good(p)
  BY DEF DrillInv, TypeOK, FaultlessInv
<1>1. CASE OpenWork(p)
  <2>1. run[p].pc = "open" /\ run[p].pc \in Copying /\ run[p].pc \in Staged
        /\ UNCHANGED staging /\ work' = Put(work, Target[p], Held(Target[p]))
    BY <1>1 DEF OpenWork, Step, Copying, Staged
  <2>2. /\ Here(p) /\ DOMAIN InStaging(p) = run[p].members
        /\ \A f \in DOMAIN InStaging(p) : InStaging(p)[f] = AttestedFiles(p)[f]
    BY <1>0, <2>1 DEF Good, StagedOK, OnCourse
  <2>3. run' = [run EXCEPT ![p] = [run[p] EXCEPT !.pc = "move", !.pending = run[p].members]]
    BY <1>1, <2>2 DEF OpenWork, Step, InStaging
  <2>4. /\ run'[p].pc = "move" /\ run'[p].failed = run[p].failed /\ run'[p].of = run[p].of
        /\ run'[p].members = run[p].members /\ run'[p].dir = run[p].dir
        /\ run'[p].pending = run[p].members
    BY <1>0, <2>3 DEF RunState
  <2>5. InStaging(p)' = InStaging(p)
    BY <2>1, <2>4 DEF InStaging
  <2>6. Target[p] \in DOMAIN work'
    BY <2>1 DEF Put
  <2> QED BY <1>0, <2>1, <2>2, <2>4, <2>5, <2>6, OnwardOnCourse DEF Staged
<1>2. CASE Move(p)
  <2>1. PICK m \in run[p].pending :
          /\ Here(p) /\ m \in DOMAIN InStaging(p) /\ run[p].pc = "move"
          /\ run' = [run EXCEPT ![p] = [run[p] EXCEPT !.pending = @ \ {m}]]
          /\ Target[p] \in DOMAIN work
          /\ work' = [work EXCEPT ![Target[p]] = Put(work[Target[p]], m, AttestedFiles(p)[m])]
          /\ staging' = [staging EXCEPT ![run[p].dir] =
                           [files |-> Keep(InStaging(p), DOMAIN InStaging(p) \ {m}), mtime |-> clock]]
    BY <1>2, MoveIs
  <2>2. /\ run'[p].pc = "move" /\ run'[p].failed = run[p].failed /\ run'[p].of = run[p].of
        /\ run'[p].members = run[p].members /\ run'[p].dir = run[p].dir
        /\ run'[p].pending = run[p].pending \ {m}
    BY <1>0, <2>1 DEF RunState
  <2>3. staging'[run[p].dir].files = Keep(InStaging(p), DOMAIN InStaging(p) \ {m})
    BY <2>1 DEF Here
  <2>4. InStaging(p)' = Keep(InStaging(p), DOMAIN InStaging(p) \ {m})
    BY <2>2, <2>3 DEF InStaging
  <2>5. \A f \in DOMAIN InStaging(p) : InStaging(p)[f] = AttestedFiles(p)[f]
    BY <1>0, <2>1 DEF OnCourse, Copying, Staged
  <2>6. \A f \in DOMAIN InStaging(p)' : InStaging(p)'[f] = AttestedFiles(p)[f]
    BY <2>4, <2>5 DEF Keep
  <2>7. run[p].members \ run[p].pending \subseteq DOMAIN work[Target[p]]
    BY <1>0, <2>1 DEF OnCourse, Landing
  <2>8. /\ DOMAIN work' = DOMAIN work
        /\ work'[Target[p]] = Put(work[Target[p]], m, AttestedFiles(p)[m])
    BY <2>1
  <2>9. DOMAIN work'[Target[p]] = DOMAIN work[Target[p]] \cup {m}
    BY <2>8 DEF Put
  <2> QED BY <1>0, <2>1, <2>2, <2>6, <2>7, <2>8, <2>9, OnwardOnCourse DEF Staged
<1>3. CASE Moved(p)
  <2>1. run[p].pc = "move" /\ run[p].pending = {} /\ UNCHANGED work
        /\ run' = [run EXCEPT ![p] = [run[p] EXCEPT !.pc = "cleanup"]]
    BY <1>3 DEF Moved, Step
  <2>2. /\ run'[p].pc = "cleanup" /\ run'[p].failed = run[p].failed /\ run'[p].of = run[p].of
        /\ run'[p].members = run[p].members /\ run'[p].pending = run[p].pending
    BY <1>0, <2>1 DEF RunState
  <2>3. Target[p] \in DOMAIN work /\ run[p].members \ run[p].pending \subseteq DOMAIN work[Target[p]]
    BY <1>0, <2>1 DEF OnCourse, Landing
  <2> QED BY <1>0, <2>1, <2>2, <2>3, OnwardOnCourse DEF Staged, Copying
<1> QED BY <1>1, <1>2, <1>3

\* The work directory of a drill that is on course has a record, and its index.
LEMMA CourseReads ==
    ASSUME FaultlessInv, DrillInv, faults = 0, NEW p \in Drill, run[p].pc = "readback", HasIndex(p)
    PROVE  Reads(p)
<1>0. TypeOK /\ OnCourse(p) /\ WorkFull
  BY DEF DrillInv, FaultlessInv
<1> DEFINE d == work[Target[p]]
<1>1. /\ Target[p] \in DOMAIN work /\ DOMAIN AttestedFiles(p) \subseteq DOMAIN d
      /\ ChainOK(AttestedFiles(p))
  BY <1>0 DEF OnCourse, Landing, Resting
<1>2. Held(Target[p]) = d /\ NoneEmpty(d) /\ IsDirectory(d)
  BY <1>0, <1>1 DEF Held, WorkFull, TypeOK
<1> HIDE DEF d
<1>3. PICK s \in Segments(AttestedFiles(p)) : TRUE
  BY <1>1 DEF ChainOK
<1>4. s \in Segments(d) /\ d[s].first <= d[s].last
  BY <1>1, <1>2, <1>3 DEF Segments, NoneEmpty
<1>5. d[s].first \in d[s].first..d[s].last
  <2>1. d[s].first \in Int /\ d[s].last \in Int
    BY <1>2, <1>4, SegmentType, DirectoryAssumption DEF SegmentContent
  <2> QED BY <1>4, <2>1
<1>6. d[s].first \in Records(d)
  BY <1>4, <1>5 DEF Records
<1>7. Vault[run[p].of].index => IndexFile \in DOMAIN d
  BY <1>1 DEF HasIndex
<1> QED BY <1>2, <1>6, <1>7 DEF Reads

LEMMA EndingOnCourse ==
    ASSUME FaultlessInv, DrillInv, faults = 0, NEW p \in Drill, Cleanup(p) \/ Readback(p)
    PROVE  OnCourse(p)'
<1>0. TypeOK /\ run[p] \in RunState /\ run \in [Drill -> RunState] /\ OnCourse(p)
  BY DEF DrillInv, TypeOK, FaultlessInv
<1>1. CASE Cleanup(p)
  <2>1. run[p].pc = "cleanup" /\ UNCHANGED work /\ ~run[p].failed
        /\ run' = [run EXCEPT ![p] = Swept(p)]
    BY <1>0, <1>1 DEF Cleanup, Step, OnCourse
  <2>2. CASE run[p].reported
    <3>1. run' = [run EXCEPT ![p] = Ended(p, "failed")]
      BY <2>1, <2>2 DEF Swept
    <3> QED BY <1>0, <2>2, <3>1, EndedOnCourse DEF Resting
  <2>3. CASE ~run[p].reported
    <3>1. run' = [run EXCEPT ![p] = [run[p] EXCEPT !.pc = "readback", !.dir = NoName]]
      BY <2>1, <2>3 DEF Swept
    <3>2. /\ run'[p].pc = "readback" /\ run'[p].failed = run[p].failed /\ run'[p].of = run[p].of
          /\ run'[p].members = run[p].members /\ run'[p].pending = run[p].pending
      BY <1>0, <3>1 DEF RunState
    <3>3. /\ ChainOK(AttestedFiles(p)) /\ run[p].members = DOMAIN AttestedFiles(p)
          /\ run[p].pending = {} /\ Target[p] \in DOMAIN work
          /\ run[p].members \ run[p].pending \subseteq DOMAIN work[Target[p]]
      BY <1>0, <2>1 DEF OnCourse, Landing, Staged, Resting
    <3>4. AttestedFiles(p)' = AttestedFiles(p)
      BY <3>2 DEF AttestedFiles
    <3> QED BY <2>1, <3>2, <3>3, <3>4 DEF OnCourse, Copying, Staged
  <2> QED BY <2>2, <2>3
<1>2. CASE Readback(p)
  <2>1. run[p].pc = "readback"
    BY <1>2 DEF Readback, Step
  <2>2. PICK verdict \in {"passed", "failed"} :
          /\ run' = [run EXCEPT ![p] = Ended(p, verdict)]
          /\ verdict = "failed" => ~Reads(p) \/ run[p].config = "foreign"
    BY <1>2 DEF Readback, Step
  <2>3. verdict \in Resting
    BY DEF Resting
  <2>4. ~(verdict = "failed" /\ run[p].config \in {"none", "own"} /\ HasIndex(p))
    BY <2>1, <2>2, CourseReads
  <2> QED BY <1>0, <2>2, <2>3, <2>4, EndedOnCourse
<1> QED BY <1>1, <1>2

\* While nothing goes wrong, archives stay as they are and nothing empty lands.
LEMMA WorkStaysFull ==
    ASSUME FaultlessInv, DrillInv, faults = 0, NEW p \in Drill, Begin(p) \/ Work(p)
    PROVE  WorkFull'
<1>0. WorkFull
  BY DEF FaultlessInv
<1>1. CASE OpenWork(p)
  <2>1. work' = Put(work, Target[p], Held(Target[p]))
    BY <1>1 DEF OpenWork
  <2>2. NoneEmpty(Held(Target[p]))
    BY <1>0 DEF WorkFull, Held, NoneEmpty, Segments, NoFiles
  <2>3. \A w \in DOMAIN work' : NoneEmpty(work'[w])
    BY <1>0, <2>1, <2>2 DEF WorkFull, Put
  <2> QED BY <2>3 DEF WorkFull, NoneEmpty, Segments
<1>2. CASE Move(p)
  <2>1. PICK m \in run[p].pending :
          /\ Target[p] \in DOMAIN work
          /\ work' = [work EXCEPT ![Target[p]] = Put(work[Target[p]], m, AttestedFiles(p)[m])]
          /\ m \in Segments(AttestedFiles(p)) =>
               AttestedFiles(p)[m].first <= AttestedFiles(p)[m].last
          /\ m \in DOMAIN AttestedFiles(p)
    BY <1>2, MoveIs
  <2> DEFINE c == AttestedFiles(p)[m]
             w == Target[p]
  <2>2. m \in SegmentId => c.first <= c.last
    BY <2>1 DEF Segments
  <2>3. w \in DOMAIN work /\ work' = [work EXCEPT ![w] = Put(work[w], m, c)]
    BY <2>1
  <2> HIDE DEF c, w
  <2>4. NoneEmpty(Put(work[w], m, c))
    BY <1>0, <2>2, <2>3 DEF WorkFull, NoneEmpty, Segments, Put
  <2>5. \A v \in DOMAIN work' : NoneEmpty(work'[v])
    BY <1>0, <2>3, <2>4 DEF WorkFull
  <2> QED BY <2>5 DEF WorkFull, NoneEmpty, Segments
<1>3. CASE UNCHANGED work
  BY <1>0, <1>3 DEF WorkFull, NoneEmpty, Segments
<1> QED BY <1>1, <1>2, <1>3
        DEF Begin, Work, CheckWork, NothingToRestore, MakeStaging, Sweep, Copy, Compare,
            VerifyStaged, Moved, Cleanup, Readback

LEMMA StepStaysFaultless == DrillInv /\ FaultlessInv /\ [Next]_vars => FaultlessInv'
<1> SUFFICES ASSUME DrillInv, FaultlessInv, [Next]_vars, faults' = 0 PROVE FaultlessInv'
  BY DEF FaultlessInv
<1>0. TypeOK /\ faults \in Nat
  BY DrillAssumption DEF DrillInv, TypeOK
<1>1. CASE UNCHANGED <<archives, work, staging, run, faults>>
  <2>1. AsStored' /\ WorkFull'
    BY <1>1 DEF FaultlessInv, AsStored, WorkFull, NoneEmpty, Segments
  <2>2. ASSUME NEW q \in Drill PROVE OnCourse(q)'
    BY <1>1, OthersOnCourse DEF FaultlessInv
  <2> QED BY <2>1, <2>2 DEF FaultlessInv
<1>2. CASE Surroundings
  <2>1. CASE Tick
    BY <1>1, <2>1 DEF Tick
  <2>2. ASSUME NEW a \in Archive, NEW f \in File, Damage(a, f) PROVE FALSE
    <3>1. faults' = faults + 1
      BY <2>2 DEF Damage, Fault
    <3> QED BY <1>0, <3>1
  <2>3. ASSUME NEW w \in WorkDir, Clear(w) PROVE FaultlessInv'
    <3>1. /\ UNCHANGED <<archives, staging, run, faults>>
          /\ work' = Keep(work, DOMAIN work \ {w})
          /\ \A p \in Drill : Target[p] = w => run[p].pc \in Resting
      BY <2>3 DEF Clear
    <3>2. AsStored'
      BY <3>1 DEF FaultlessInv, AsStored
    <3>3. \A v \in DOMAIN work' : NoneEmpty(work'[v])
      BY <3>1 DEF FaultlessInv, WorkFull, Keep
    <3>4. WorkFull'
      BY <3>3 DEF WorkFull, NoneEmpty, Segments
    <3>5. ASSUME NEW q \in Drill PROVE OnCourse(q)'
      <4>1. run[q].pc \in Landing => Target[q] # w
        BY <3>1 DEF Landing, Resting
      <4>2. run[q].pc \in Landing => \A v \in DOMAIN work :
               v = Target[q] => v \in DOMAIN work' /\ DOMAIN work[v] \subseteq DOMAIN work'[v]
        BY <3>1, <4>1 DEF Keep
      <4> QED BY <3>1, <4>2, OthersOnCourse DEF FaultlessInv
    <3> QED BY <3>2, <3>4, <3>5 DEF FaultlessInv
  <2> QED BY <1>2, <2>1, <2>2, <2>3 DEF Surroundings
<1>3. ASSUME NEW p \in Drill, Restoring(p) PROVE FaultlessInv'
  <2>0. faults' # faults + 1
    BY <1>0
  <2>1. Begin(p) \/ Work(p)
    <3>1. ~FaultStep(p)
      BY <1>0, <2>0, FaultIs DEF Fault
    <3> QED BY <1>3, <3>1 DEF FaultStep, Restoring
  <2>2. faults = 0 /\ UNCHANGED archives
    BY <2>0, <2>1 DEF Fault, Begin, Work, CheckWork, NothingToRestore, MakeStaging, Sweep, Copy, Compare,
                      VerifyStaged, OpenWork, Move, Moved, Cleanup, Readback
  <2>3. AsStored'
    BY <2>2 DEF FaultlessInv, AsStored
  <2>4. WorkFull'
    BY <2>1, <2>2, WorkStaysFull
  <2>5. ASSUME NEW q \in Drill, q # p PROVE OnCourse(q)'
    <3>1. OnCourse(q)
      BY <2>2 DEF FaultlessInv
    <3> QED BY <2>1, <2>5, <3>1, OthersLeave, OthersOnCourse
  <2>6. OnCourse(p)'
    BY <2>1, <2>2, EarlyOnCourse, StagingOnCourse, LandingOnCourse, EndingOnCourse DEF Work
  <2> QED BY <2>3, <2>4, <2>5, <2>6 DEF FaultlessInv
<1> QED BY <1>1, <1>2, <1>3 DEF Next, vars

\* With no fault and its own config, or none, a drill of an archive that holds the
\* index its manifest names fails in one way only, also where drills share a work
\* directory.
THEOREM GoodDrillsPass == Spec => []GoodDrillPasses
<1>1. FaultlessInv => GoodDrillPasses
  BY DEF FaultlessInv, OnCourse, HasIndex, AttestedFiles, GoodDrillPasses
<1> QED BY <1>1, InitInv, StepKeepsInv, InitFaultless, StepStaysFaultless, PTL DEF Spec

(***************************************************************************)
(* Exports beside drills, as CopiesMC composes them.  What is proved of an *)
(* export root and of drills, each alone, holds of the composition: each   *)
(* of its steps is a step of one group and leaves the other as it was.     *)
(***************************************************************************)
XP == INSTANCE ExportServiceProofs WITH
    clock <- exportClock, staging <- exportStaging, archives <- root, run <- export,
    faults <- exportFaults, strays <- exportStrays, StagingName <- ExportStaging, MaxClock <- ExportClock,
    LockChoice <- {FALSE}

\* The exports that are composed are the ones the theorems are about.
LEMMA SameExports ==
    /\ X!Init <=> XP!Init
    /\ X!Server <=> XP!Server
    /\ X!Tick <=> XP!Tick
    /\ \A p \in Exporter : X!Export(p) <=> XP!Export(p)
    /\ X!ExportsSound <=> XP!ExportsSound
<1>1. X!Init <=> XP!Init
  BY DEF X!Init, XP!Init, X!Fresh, XP!Fresh
<1>2. X!Server <=> XP!Server
  BY DEF X!Server, XP!Server, X!BeginAppend, XP!BeginAppend, X!EndAppend, XP!EndAppend,
         X!Expire, XP!Expire, X!IndexFile, XP!IndexFile, X!Keep, XP!Keep, X!Newest, XP!Newest,
         X!Put, XP!Put, X!Rotate, XP!Rotate, X!SegmentId, XP!SegmentId, X!Segments, XP!Segments,
         X!WriteIndex, XP!WriteIndex
<1>3. X!Tick <=> XP!Tick
  BY DEF X!Tick, XP!Tick, X!Live, XP!Live, X!Staged, XP!Staged
<1>4. ASSUME NEW p \in Exporter PROVE X!Export(p) <=> XP!Export(p)
  BY DEF X!Export, XP!Export, X!Abandon, XP!Abandon, X!CleanupIgnored, XP!CleanupIgnored,
         X!Fault, XP!Fault, X!StrayFault, XP!StrayFault, X!SweepRaises, XP!SweepRaises,
         X!Refused, XP!Refused, X!Verdict, XP!Verdict, X!Attest, XP!Attest, X!ChainOK, XP!ChainOK, X!Cleanup, XP!Cleanup,
         X!Compare, XP!Compare, X!Copy, XP!Copy, X!Current, XP!Current, X!Empty, XP!Empty,
         X!Failing, XP!Failing, X!Final, XP!Final, X!Fresh, XP!Fresh, X!HasRecords,
         XP!HasRecords, X!Here, XP!Here, X!IOError, XP!IOError, X!IndexFile, XP!IndexFile,
         X!Keep, XP!Keep, X!Kill, XP!Kill, X!LinksBack, XP!LinksBack, X!List, XP!List,
         X!MakeStaging, XP!MakeStaging, X!Name, XP!Name, X!Publish, XP!Publish, X!Put, XP!Put,
         X!Records, XP!Records, X!Redo, XP!Redo, X!RenameRaises, XP!RenameRaises, X!Resting,
         XP!Resting, X!SameEvidence, XP!SameEvidence, X!Seen, XP!Seen, X!SegmentId,
         XP!SegmentId, X!Segments, XP!Segments, X!Stale, XP!Stale, X!Start, XP!Start, X!Step,
         XP!Step, X!Sweep, XP!Sweep, X!SweepGone, XP!SweepGone, X!SweepLocked, XP!SweepLocked,
         X!SweepStale, XP!SweepStale, X!SweepYoung, XP!SweepYoung, X!Verified, XP!Verified,
         X!VerifyCopy, XP!VerifyCopy, X!Work, XP!Work
<1>5. X!ExportsSound <=> XP!ExportsSound
  BY DEF X!ExportsSound, XP!ExportsSound, X!ArchivesOK, XP!ArchivesOK, X!ArchivesRestorable,
         XP!ArchivesRestorable, X!ChainOK, XP!ChainOK, X!Empty, XP!Empty, X!File, XP!File,
         X!IndexContent, XP!IndexContent, X!IndexFile, XP!IndexFile, X!Instant, XP!Instant,
         X!IsDirectory, XP!IsDirectory, X!LinksBack, XP!LinksBack, X!Phases, XP!Phases,
         X!Records, XP!Records, X!Resting, XP!Resting, X!RunState, XP!RunState,
         X!SegmentContent, XP!SegmentContent, X!SegmentId, XP!SegmentId, X!Segments,
         XP!Segments, X!SourceOK, XP!SourceOK, X!Staged, XP!Staged, X!StagingOK, XP!StagingOK,
         X!SuccessCovers, XP!SuccessCovers, X!TypeOK, XP!TypeOK, X!Verified, XP!Verified
<1> QED BY <1>1, <1>2, <1>3, <1>4, <1>5

LEMMA ComposedExports == CopiesSpec => XP!Spec
<1>1. CopiesInit => XP!Init
  BY SameExports DEF CopiesInit
<1>2. [CopiesNext]_copiesVars => [XP!Next]_(XP!vars)
  <2> SUFFICES ASSUME [CopiesNext]_copiesVars PROVE [XP!Next]_(XP!vars)
    OBVIOUS
  <2>1. CASE X!Server
    BY <2>1, SameExports DEF XP!Next
  <2>2. CASE X!Tick
    BY <2>2, SameExports DEF XP!Next
  <2>3. CASE \E p \in Exporter : X!Export(p)
    BY <2>3, SameExports DEF XP!Next
  <2>4. CASE UNCHANGED exportVars
    BY <2>4 DEF exportVars, XP!vars
  <2> QED BY <2>1, <2>2, <2>3, <2>4 DEF CopiesNext, copiesVars, ExportsRest
<1> QED BY <1>1, <1>2, PTL DEF CopiesSpec, XP!Spec

LEMMA ComposedDrills == CopiesSpec => Spec
<1>1. CopiesInit => Init
  BY DEF CopiesInit
<1>2. [CopiesNext]_copiesVars => [Next]_vars
  <2> SUFFICES ASSUME [CopiesNext]_copiesVars PROVE [Next]_vars
    OBVIOUS
  <2>1. CASE Surroundings
    BY <2>1 DEF Next
  <2>2. CASE \E p \in Drill : Restoring(p)
    BY <2>2 DEF Next
  <2> QED BY <2>1, <2>2 DEF CopiesNext, copiesVars, DrillsRest
<1> QED BY <1>1, <1>2, PTL DEF CopiesSpec, Spec

\* Beside one another, exports leave only archives that verify and hold what a success
\* promised, and drills keep all they keep alone.
THEOREM CopiesAreSound ==
    CopiesSpec => /\ [](ExportsSound /\ DrillsSound /\ DrillStagingSound /\ GoodDrillPasses)
                  /\ PassMeansRestored
<1>1. XP!Spec => []XP!ExportsSound
  BY XP!ExportsAreSound, CopiesAssumption, DrillAssumption, DirectoryAssumption, ZenonT(30)
<1>2. XP!ExportsSound => ExportsSound
  BY SameExports DEF ExportsSound
<1>3. CopiesSpec => []ExportsSound
  BY <1>1, <1>2, ComposedExports, PTL
<1>4. CopiesSpec => [](DrillsSound /\ DrillStagingSound /\ GoodDrillPasses)
  BY ComposedDrills, OnlySoundWork, NothingTakenOrLeft, GoodDrillsPass, PTL
<1>5. CopiesSpec => PassMeansRestored
  BY ComposedDrills, PassedMeansRestored, PTL
<1> QED BY <1>3, <1>4, <1>5, PTL
=============================================================================
