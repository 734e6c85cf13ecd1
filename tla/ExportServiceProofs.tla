------------------------ MODULE ExportServiceProofs ------------------------
(***************************************************************************)
(* Proofs that an export keeps what it promises: exit code 0 means that    *)
(* every record the preflight saw is in the archive of that name, no sweep *)
(* takes what a live run is staging, and the exports together implement    *)
(* the service of ArchiveStore.                                            *)
(***************************************************************************)
EXTENDS ArchiveExport, DirectoryProofs

(***************************************************************************)
(* Runs.                                                                   *)
(***************************************************************************)
LEMMA StepType ==
    ASSUME run \in [Exporter -> RunState], NEW p \in Exporter, NEW from,
           NEW to \in RunState, Step(p, from, to)
    PROVE  run' \in [Exporter -> RunState]
  BY DEF Step

LEMMA FreshType == Fresh \in RunState /\ Refused \in RunState
<1>1. Fresh \in RunState
  BY BoundsAssumption, DirectoryAssumption DEF Fresh, RunState, Phases, Resting, Instant
<1>2. Refused.pc = "failed" /\ Refused = [Fresh EXCEPT !.pc = "failed"] /\ "failed" \in Phases
  BY DEF Refused, Fresh, Phases, Resting
<1> QED BY <1>1, <1>2 DEF RunState

LEMMA FailingType ==
    ASSUME run \in [Exporter -> RunState], NEW p \in Exporter
    PROVE  Failing(p, "cleanup") \in RunState
<1>1. 0 \in Instant /\ "cleanup" \in Phases
  BY BoundsAssumption DEF Instant, Phases, Staged
<1> QED BY <1>1, ZenonT(30) DEF Failing, RunState

LEMMA FailingIs ==
    ASSUME NEW p \in Exporter, run[p] \in RunState
    PROVE  /\ Failing(p, "cleanup").pc = "cleanup" /\ Failing(p, "cleanup").dir = run[p].dir
           /\ Failing(p, "cleanup").label = 0 /\ Failing(p, "cleanup").seen = run[p].seen
  BY DEF Failing, RunState

\* What a run comes to when its cleanup is over.
LEMMA VerdictIs ==
    ASSUME run \in [Exporter -> RunState], NEW p \in Exporter
    PROVE  /\ Verdict(p) \in RunState /\ Verdict(p).dir = NoName
           /\ \/ /\ run[p].failed \/ run[p].reported # {}
                 /\ Verdict(p) = [Refused EXCEPT !.reported = run[p].reported]
                 /\ Verdict(p).pc = "failed" /\ Verdict(p).label = 0 /\ Verdict(p).seen = {}
                 /\ Verdict(p).failed = FALSE /\ Verdict(p).mismatch = FALSE
                 /\ Verdict(p).reported = run[p].reported
              \/ /\ ~(run[p].failed \/ run[p].reported # {})
                 /\ Verdict(p) = [Fresh EXCEPT !.pc = "ok", !.label = run[p].label, !.seen = run[p].seen]
                 /\ Verdict(p).pc = "ok" /\ Verdict(p).label = run[p].label
                 /\ Verdict(p).seen = run[p].seen
                 /\ Verdict(p).failed = FALSE /\ Verdict(p).mismatch = FALSE
<1>1. run[p] \in RunState /\ "ok" \in Phases
  BY DEF Phases, Resting
<1>2. CASE run[p].failed \/ run[p].reported # {}
  <2>1. Verdict(p) = [Refused EXCEPT !.reported = run[p].reported]
    BY <1>2 DEF Verdict
  <2>2. Verdict(p) \in RunState
    BY <1>1, <2>1, FreshType DEF RunState
  <2> QED BY <1>2, <2>1, <2>2 DEF Refused, Fresh
<1>3. CASE ~(run[p].failed \/ run[p].reported # {})
  <2>1. Verdict(p) = [Fresh EXCEPT !.pc = "ok", !.label = run[p].label, !.seen = run[p].seen]
    BY <1>3 DEF Verdict
  <2>2. Verdict(p) \in RunState
    BY <1>1, <2>1, FreshType DEF RunState
  <2> QED BY <1>3, <2>1, <2>2 DEF Fresh
<1> QED BY <1>2, <1>3

FaultStep(p) == CleanupIgnored(p) \/ SweepRaises(p) \/ IOError(p) \/ Kill(p)

\* What a fault does: it ends the run or sends it to its cleanup, and changes no
\* staging directory but the run's own.
LEMMA FaultIs ==
    ASSUME run \in [Exporter -> RunState], StagingOK, clock \in Instant,
           NEW p \in Exporter, FaultStep(p)
    PROVE  /\ UNCHANGED <<source, clock, archives>> /\ run[p].pc \notin Resting
           /\ faults < MaxFaults /\ faults' = faults + 1
           /\ \A q \in Exporter : q # p => run'[q] = run[q]
           /\ \/ run' = [run EXCEPT ![p] = Failing(p, "cleanup")] /\ UNCHANGED <<staging, strays>>
                 /\ run[p].pc \in Staged
              \/ /\ \/ run' = [run EXCEPT ![p] = Verdict(p)] /\ run[p].pc = "cleanup"
                    \/ run' = [run EXCEPT ![p] = Refused]
                    \/ run' = [run EXCEPT ![p] = Fresh]
                 /\ \/ strays' = strays + 1
                    \/ UNCHANGED <<staging, strays>> /\ (run[p].pc \notin Staged \/ ~Here(p))
           /\ DOMAIN staging' = DOMAIN staging /\ StagingOK'
           /\ \A d \in DOMAIN staging : d # run[p].dir => staging'[d] = staging[d]
<1>1. /\ UNCHANGED <<source, clock, archives>> /\ run[p].pc \notin Resting
      /\ faults < MaxFaults /\ faults' = faults + 1
  BY DEF FaultStep, CleanupIgnored, SweepRaises, IOError, Kill, StrayFault, Fault, Step, Resting
<1>2. ASSUME NEW t \in Instant, Abandon(p, t)
      PROVE  /\ DOMAIN staging' = DOMAIN staging /\ StagingOK'
             /\ \A d \in DOMAIN staging : d # run[p].dir => staging'[d] = staging[d]
  <2>1. PICK lock : staging' = [d \in DOMAIN staging |->
            IF d = run[p].dir THEN [Empty EXCEPT !.mtime = t, !.locked = lock] ELSE staging[d]]
    BY <1>2 DEF Abandon
  <2> DEFINE c == [Empty EXCEPT !.mtime = t, !.locked = lock]
  <2>2. /\ DOMAIN c = DOMAIN Empty
        /\ IsDirectory(c.files) /\ IsDirectory(c.manifest) /\ c.mtime \in Instant
    BY DEF Empty, IsDirectory
  <2>3. staging' = [d \in DOMAIN staging |-> IF d = run[p].dir THEN c ELSE staging[d]]
    BY <2>1
  <2> HIDE DEF c
  <2> QED BY <2>2, <2>3 DEF StagingOK
<1>3. Here(p) => staging[run[p].dir].mtime \in Instant
  BY DEF StagingOK, Here
<1>4. UNCHANGED staging => StagingOK'
  BY DEF StagingOK
<1>5. \A to : run' = [run EXCEPT ![p] = to] => \A q \in Exporter : q # p => run'[q] = run[q]
  OBVIOUS
<1>6. CASE CleanupIgnored(p)
  <2>1. \E t \in Instant : Abandon(p, t)
    BY <1>3, <1>6 DEF CleanupIgnored
  <2>2. run' = [run EXCEPT ![p] = Verdict(p)] /\ run[p].pc = "cleanup" /\ strays' = strays + 1
    BY <1>6 DEF CleanupIgnored, Step
  <2> QED BY <1>1, <1>2, <1>5, <2>1, <2>2
<1>7. CASE SweepRaises(p)
  <2>1. \E t \in Instant : Abandon(p, t)
    BY <1>3, <1>7 DEF SweepRaises
  <2>2. run' = [run EXCEPT ![p] = Refused] /\ strays' = strays + 1
    BY <1>7 DEF SweepRaises, Step
  <2> QED BY <1>1, <1>2, <1>5, <2>1, <2>2
<1>8. CASE IOError(p)
  <2>1. UNCHANGED <<staging, strays>>
    BY <1>8 DEF IOError
  <2>2. \/ run' = [run EXCEPT ![p] = Refused] /\ run[p].pc \notin Staged
        \/ run' = [run EXCEPT ![p] = Failing(p, "cleanup")] /\ run[p].pc \in Staged
    BY <1>8 DEF IOError, Staged
  <2> QED BY <1>1, <1>4, <1>5, <2>1, <2>2
<1>9. CASE Kill(p)
  <2>1. run' = [run EXCEPT ![p] = Fresh]
    BY <1>9 DEF Kill
  <2>2. CASE Here(p) /\ Abandon(p, staging[run[p].dir].mtime) /\ strays' = strays + 1
    BY <1>1, <1>2, <1>3, <1>5, <2>1, <2>2
  <2>3. CASE ~Here(p) /\ UNCHANGED <<staging, strays>>
    BY <1>1, <1>4, <1>5, <2>1, <2>3
  <2> QED BY <1>9, <2>2, <2>3 DEF Kill
<1> QED BY <1>6, <1>7, <1>8, <1>9 DEF FaultStep

(***************************************************************************)
(* Type correctness.  A segment with a partly written record has room for  *)
(* that record; without this the record's number could leave its type.     *)
(***************************************************************************)
RoomForTorn ==
    \A s \in Segments(source) : source[s].torn => source[s].last < MaxRecord

TypeInv == TypeOK /\ RoomForTorn

LEMMA InitType == Init => TypeInv
<1> SUFFICES ASSUME Init PROVE TypeInv
  OBVIOUS
<1>1. 1 \in SegmentId /\ 1 \in File /\ IndexFile \notin {1}
  BY BoundsAssumption, DirectoryAssumption DEF SegmentId, File, IndexFile
<1>2. DOMAIN source = {1} /\ source[1] = [first |-> 1, last |-> 1, torn |-> FALSE]
  BY DEF Init
<1>3. source[1] \in SegmentContent
  BY <1>2, BoundsAssumption, DirectoryAssumption DEF SegmentContent
<1>6. SourceOK
  BY <1>1, <1>2, <1>3 DEF SourceOK, IsDirectory, Segments
<1>7. RoomForTorn
  BY <1>2 DEF RoomForTorn, Segments
<1>8. StagingOK /\ ArchivesOK
  BY DEF Init, StagingOK, ArchivesOK
<1>9. run \in [Exporter -> RunState]
  BY FreshType DEF Init
<1> QED BY <1>6, <1>7, <1>8, <1>9, BoundsAssumption, DirectoryAssumption DEF Init, TypeInv, TypeOK, Instant

\* What the server does to its own directory.
LEMMA ServerType == TypeInv /\ Server => TypeInv'
<1> SUFFICES ASSUME TypeInv, Server PROVE TypeInv'
  OBVIOUS
<1>0. SourceOK /\ RoomForTorn /\ IsDirectory(source)
  BY DEF TypeInv, TypeOK, SourceOK
<1>1. SourceOK' /\ RoomForTorn'
  <2>1. ASSUME NEW s \in SegmentId, NEW c \in SegmentContent, source' = Put(source, s, c),
               c.torn => c.last < MaxRecord
        PROVE  SourceOK' /\ RoomForTorn'
    <3>1. IsDirectory(source')
      BY <2>1, <1>0, PutSegmentType
    <3>2. DOMAIN source' = DOMAIN source \cup {s}
      BY <2>1 DEF Put
    <3>3. \A t \in Segments(source') : source'[t].torn => source'[t].last < MaxRecord
      BY <2>1, <1>0 DEF Put, Segments, RoomForTorn
    <3>4. s # IndexFile
      BY BoundsAssumption, DirectoryAssumption DEF SegmentId, IndexFile
    <3> QED BY <3>1, <3>2, <3>3, <3>4, <1>0, <2>1 DEF SourceOK, RoomForTorn, Segments
  <2>2. ASSUME NEW s \in SegmentId, BeginAppend(s) PROVE SourceOK' /\ RoomForTorn'
    <3>1. source[s] \in SegmentContent
      BY <2>2, <1>0, SegmentType DEF BeginAppend, Newest
    <3> DEFINE c == [source[s] EXCEPT !.torn = TRUE]
    <3>2. c \in SegmentContent /\ c.last = source[s].last
      BY <3>1 DEF SegmentContent
    <3>3. source' = Put(source, s, c) /\ source[s].last < MaxRecord
      BY <2>2 DEF BeginAppend
    <3> HIDE DEF c
    <3> QED BY <2>1, <3>2, <3>3
  <2>3. ASSUME NEW s \in SegmentId, EndAppend(s) PROVE SourceOK' /\ RoomForTorn'
    <3>1. source[s] \in SegmentContent /\ source[s].last < MaxRecord
      BY <2>3, <1>0, SegmentType DEF EndAppend, Newest, RoomForTorn
    <3> DEFINE c == [source[s] EXCEPT !.torn = FALSE, !.last = @ + 1]
    <3>2. c \in SegmentContent /\ ~c.torn
      <4>1. source[s].last \in 0..MaxRecord /\ source[s].first \in 1..(MaxRecord + 1)
        BY <3>1 DEF SegmentContent
      <4>3. source[s].last + 1 \in 0..MaxRecord
        BY <4>1, <3>1, BoundsAssumption, DirectoryAssumption
      <4> DEFINE b == [source[s] EXCEPT !.torn = FALSE]
      <4>4. b \in SegmentContent /\ ~b.torn /\ b.last = source[s].last
        BY <3>1 DEF SegmentContent
      <4>2. c = [b EXCEPT !.last = source[s].last + 1]
        OBVIOUS
      <4> HIDE DEF b, c
      <4> QED BY <4>4, <4>2, <4>3 DEF SegmentContent
    <3>3. source' = Put(source, s, c)
      BY <2>3 DEF EndAppend
    <3> HIDE DEF c
    <3> QED BY <2>1, <3>2, <3>3
  <2>4. ASSUME NEW s \in SegmentId, Rotate(s) PROVE SourceOK' /\ RoomForTorn'
    <3>1. source[s] \in SegmentContent
      BY <2>4, <1>0, SegmentType DEF Rotate, Newest
    <3>2. s + 1 \in SegmentId
      BY <2>4, BoundsAssumption, DirectoryAssumption DEF Rotate, SegmentId
    <3> DEFINE c == [first |-> source[s].last + 1, last |-> source[s].last, torn |-> FALSE]
    <3>3. c \in SegmentContent /\ ~c.torn
      BY <3>1, BoundsAssumption, DirectoryAssumption DEF SegmentContent
    <3>4. source' = Put(source, s + 1, c)
      BY <2>4 DEF Rotate
    <3> HIDE DEF c
    <3> QED BY <2>1, <3>2, <3>3, <3>4
  <2>5. ASSUME NEW s \in SegmentId, Expire(s) PROVE SourceOK' /\ RoomForTorn'
    <3>1. source' = Keep(source, DOMAIN source \ {s})
      BY <2>5 DEF Expire
    <3>2. IsDirectory(source')
      BY <3>1, <1>0, KeepType
    <3>3. PICK t \in Segments(source) : s < t
      BY <2>5 DEF Expire
    <3>4. t \in Segments(source') /\ DOMAIN source' = DOMAIN source \ {s}
      BY <3>1, <3>3, BoundsAssumption, DirectoryAssumption DEF Keep, Segments, SegmentId
    <3>5. s # IndexFile
      BY BoundsAssumption, DirectoryAssumption DEF SegmentId, IndexFile
    <3>6. RoomForTorn'
      BY <3>1, <1>0 DEF RoomForTorn, Keep, Segments
    <3> QED BY <3>2, <3>4, <3>5, <3>6, <1>0 DEF SourceOK
  <2>6. CASE WriteIndex
    <3> DEFINE c == [listed |-> Segments(source)]
    <3>1. c \in IndexContent
      BY DEF IndexContent, Segments
    <3>2. source' = Put(source, IndexFile, c)
      BY <2>6 DEF WriteIndex
    <3> HIDE DEF c
    <3>3. IsDirectory(source')
      BY <3>1, <3>2, <1>0, PutIndexType
    <3>4. IndexFile \notin SegmentId
      BY BoundsAssumption, DirectoryAssumption DEF SegmentId, IndexFile
    <3>5. Segments(source') = Segments(source) /\ \A s \in Segments(source) : source'[s] = source[s]
      BY <3>2, <3>4 DEF Put, Segments
    <3>6. Indexed
      BY <2>6 DEF WriteIndex
    <3> QED BY <3>3, <3>5, <3>6, <1>0 DEF SourceOK, RoomForTorn
  <2> QED BY <2>2, <2>3, <2>4, <2>5, <2>6 DEF Server
<1>2. UNCHANGED <<clock, staging, archives, run, faults, strays>>
  BY DEF Server, BeginAppend, EndAppend, Rotate, Expire, WriteIndex
<1> QED BY <1>1, <1>2 DEF TypeInv, TypeOK, StagingOK, ArchivesOK

(***************************************************************************)
(* What one export does.  No step of it writes the evidence directory.     *)
(***************************************************************************)
\* A run that takes a step between two typed states leaves the types alone.
LEMMA RunStepType ==
    ASSUME TypeInv, NEW p \in Exporter, NEW to \in RunState,
           run' = [run EXCEPT ![p] = to], UNCHANGED <<source, clock, faults, strays>>,
           StagingOK', ArchivesOK'
    PROVE  TypeInv'
<1>1. run' \in [Exporter -> RunState]
  BY DEF TypeInv, TypeOK
<1> QED BY <1>1 DEF TypeInv, TypeOK, SourceOK, RoomForTorn

\* What is staged stays typed while only the runs change.
LEMMA StagingSame ==
    ASSUME TypeInv, UNCHANGED <<staging, archives>>
    PROVE  StagingOK' /\ ArchivesOK'
  BY DEF TypeInv, TypeOK, StagingOK, ArchivesOK

\* Removing staging directories leaves the types alone.
LEMMA StagingLess ==
    ASSUME StagingOK, NEW D, staging' = Keep(staging, DOMAIN staging \ D)
    PROVE  StagingOK'
  BY DEF StagingOK, Keep

\* A typed staging directory may be added or replaced.
LEMMA StagingPut ==
    ASSUME StagingOK, NEW d \in StagingName, NEW c,
           DOMAIN c = DOMAIN Empty, IsDirectory(c.files), IsDirectory(c.manifest),
           c.mtime \in Instant, staging' = Put(staging, d, c)
    PROVE  StagingOK'
  BY DEF StagingOK, Put

LEMMA RunType ==
    ASSUME TypeInv, NEW p \in Exporter
    PROVE  run[p] \in RunState
  BY DEF TypeInv, TypeOK

LEMMA TickType == TypeInv /\ Tick => TypeInv'
<1> SUFFICES ASSUME TypeInv, Tick PROVE TypeInv'
  OBVIOUS
<1>1. clock' \in Instant
  BY BoundsAssumption, DirectoryAssumption DEF Tick, TypeInv, TypeOK, Instant
<1>2. UNCHANGED <<source, staging, archives, run, faults, strays>>
  BY DEF Tick
<1> QED BY <1>1, <1>2 DEF TypeInv, TypeOK, SourceOK, StagingOK, ArchivesOK, RoomForTorn

LEMMA StartType ==
    ASSUME TypeInv, NEW p \in Exporter, Start(p) PROVE TypeInv'
<1>1. Records(source) \in SUBSET (1..MaxRecord)
  BY RecordsType DEF TypeInv, TypeOK, SourceOK
<1> DEFINE to == IF ChainOK(source) THEN [Fresh EXCEPT !.pc = "list", !.seen = Records(source)]
                 ELSE Refused
<1>2. to \in RunState
  BY <1>1, FreshType DEF RunState, Fresh, Phases, Resting
<1>3. run' = [run EXCEPT ![p] = to] /\ UNCHANGED <<source, clock, staging, archives, faults, strays>>
  BY DEF Start
<1> HIDE DEF to
<1> QED BY <1>2, <1>3, StagingSame, RunStepType

LEMMA ListType ==
    ASSUME TypeInv, NEW p \in Exporter, List(p) PROVE TypeInv'
<1> DEFINE to == IF \E s \in Segments(source) : source[s].last < source[s].first /\ ~source[s].torn
                   THEN Refused
                   ELSE [run[p] EXCEPT !.pc = "name", !.members = DOMAIN source]
<1>1. DOMAIN source \in SUBSET File
  BY DEF TypeInv, TypeOK, SourceOK, IsDirectory
<1>2. to \in RunState
  BY <1>1, FreshType, RunType DEF RunState, Fresh, Phases, Resting
<1>3. run' = [run EXCEPT ![p] = to] /\ UNCHANGED <<source, clock, staging, archives, faults, strays>>
  BY DEF List, Step
<1> HIDE DEF to
<1> QED BY <1>2, <1>3, StagingSame, RunStepType

LEMMA NameType ==
    ASSUME TypeInv, NEW p \in Exporter, Name(p) PROVE TypeInv'
<1> DEFINE to == [run[p] EXCEPT !.pc = "sweep", !.label = clock, !.todo = DOMAIN staging]
<1>1. clock \in Instant /\ DOMAIN staging \in SUBSET StagingName
  BY DEF TypeInv, TypeOK, StagingOK
<1>2. to \in RunState
  BY <1>1, RunType DEF RunState, Phases
<1>3. run' = [run EXCEPT ![p] = to] /\ UNCHANGED <<source, clock, staging, archives, faults, strays>>
  BY DEF Name, Step
<1> HIDE DEF to
<1> QED BY <1>2, <1>3, StagingSame, RunStepType

LEMMA SweepType ==
    ASSUME TypeInv, NEW p \in Exporter, Sweep(p) PROVE TypeInv'
<1>1. PICK d \in run[p].todo :
         SweepGone(p, d) \/ SweepYoung(p, d) \/ SweepLocked(p, d) \/ SweepStale(p, d)
  BY DEF Sweep
<1>2. PICK reported \in BOOLEAN : Seen(p, d, reported)
  BY <1>1 DEF SweepGone, SweepYoung, SweepLocked, SweepStale
<1> DEFINE to == [run[p] EXCEPT !.todo = @ \ {d},
                                !.reported = IF reported THEN @ \cup {d} ELSE @]
<1>3. to \in RunState
  BY RunType, ZenonT(60) DEF RunState
<1>4. run' = [run EXCEPT ![p] = to]
  <2>1. run[p] \in RunState /\ run \in [Exporter -> RunState]
    BY RunType DEF TypeInv, TypeOK
  <2> QED BY <1>2, <2>1 DEF Seen
<1>5. UNCHANGED <<source, clock, archives, faults, strays>>
  BY DEF Sweep
<1>6. StagingOK' /\ ArchivesOK'
  <2>1. StagingOK /\ ArchivesOK
    BY DEF TypeInv, TypeOK
  <2>2. ArchivesOK'
    BY <1>5, <2>1 DEF ArchivesOK
  <2>3. UNCHANGED staging \/ staging' = Keep(staging, DOMAIN staging \ {d})
    BY <1>1 DEF SweepGone, SweepYoung, SweepLocked, SweepStale
  <2>4. ASSUME UNCHANGED staging PROVE StagingOK'
    BY <2>1, <2>4 DEF StagingOK
  <2> QED BY <2>1, <2>2, <2>3, <2>4, StagingLess
<1> HIDE DEF to
<1> QED BY <1>3, <1>4, <1>5, <1>6, RunStepType

\* A run that finishes its bookkeeping, or fails and goes on to clean up.
LEMMA MovesOnType ==
    ASSUME TypeInv, NEW p \in Exporter, NEW from, NEW next \in Phases, NEW cond \in BOOLEAN,
           Step(p, from, IF cond THEN [run[p] EXCEPT !.pc = next] ELSE Failing(p, "cleanup")),
           UNCHANGED <<source, clock, staging, archives, faults, strays>>
    PROVE  TypeInv'
<1> DEFINE to == IF cond THEN [run[p] EXCEPT !.pc = next] ELSE Failing(p, "cleanup")
<1>1. to \in RunState
  BY RunType, FailingType DEF RunState, TypeInv, TypeOK
<1>2. run' = [run EXCEPT ![p] = to]
  BY DEF Step
<1> HIDE DEF to
<1> QED BY <1>1, <1>2, StagingSame, RunStepType

LEMMA DecidesType ==
    ASSUME TypeInv, NEW p \in Exporter, Redo(p) \/ VerifyCopy(p) \/ RenameRaises(p)
    PROVE  TypeInv'
<1>1. "cleanup" \in Phases /\ "rename" \in Phases
  BY DEF Phases, Staged
<1>2. CASE Redo(p)
  <2> DEFINE c == SameEvidence(p)
  <2>1. Step(p, "sweep", IF c THEN [run[p] EXCEPT !.pc = "cleanup"] ELSE Failing(p, "cleanup"))
    BY <1>2 DEF Redo
  <2>2. UNCHANGED <<source, clock, staging, archives, faults, strays>> /\ c \in BOOLEAN
    BY <1>2 DEF Redo, SameEvidence
  <2> HIDE DEF c
  <2> QED BY <1>1, <2>1, <2>2, MovesOnType
<1>3. CASE VerifyCopy(p)
  <2> DEFINE c == Here(p) /\ Verified(staging[run[p].dir])
  <2>1. Step(p, "verify", IF c THEN [run[p] EXCEPT !.pc = "rename"] ELSE Failing(p, "cleanup"))
    BY <1>3 DEF VerifyCopy
  <2>2. UNCHANGED <<source, clock, staging, archives, faults, strays>> /\ c \in BOOLEAN
    BY <1>3 DEF VerifyCopy
  <2> HIDE DEF c
  <2> QED BY <1>1, <2>1, <2>2, MovesOnType
<1>4. CASE RenameRaises(p)
  <2> DEFINE c == run[p].label \in DOMAIN archives /\ SameEvidence(p)
  <2>1. Step(p, "rename", IF c THEN [run[p] EXCEPT !.pc = "cleanup"] ELSE Failing(p, "cleanup"))
    BY <1>4 DEF RenameRaises
  <2>2. UNCHANGED <<source, clock, staging, archives, faults, strays>> /\ c \in BOOLEAN
    BY <1>4 DEF RenameRaises
  <2> HIDE DEF c
  <2> QED BY <1>1, <2>1, <2>2, MovesOnType
<1> QED BY <1>2, <1>3, <1>4

LEMMA FailType ==
    ASSUME TypeInv, NEW p \in Exporter, NEW from, Step(p, from, Failing(p, "cleanup")),
           UNCHANGED <<source, clock, staging, archives, faults, strays>>
    PROVE  TypeInv'
<1>1. Failing(p, "cleanup") \in RunState
  BY FailingType DEF TypeInv, TypeOK
<1>2. run' = [run EXCEPT ![p] = Failing(p, "cleanup")]
  BY DEF Step
<1> QED BY <1>1, <1>2, StagingSame, RunStepType

LEMMA EmptyType ==
    /\ IsDirectory(Empty.files) /\ IsDirectory(Empty.manifest)
    /\ \A t \in Instant : [Empty EXCEPT !.mtime = t].mtime = t
  BY DEF Empty, IsDirectory

LEMMA MakeStagingType ==
    ASSUME TypeInv, NEW p \in Exporter, MakeStaging(p) PROVE TypeInv'
<1>0. StagingOK /\ ArchivesOK /\ clock \in Instant
  BY DEF TypeInv, TypeOK
<1>1. PICK d \in StagingName :
         /\ Step(p, "sweep", [run[p] EXCEPT !.pc = "copy", !.dir = d, !.todo = DOMAIN staging,
                                            !.pending = run[p].members])
         /\ staging' = Put(staging, d, [Empty EXCEPT !.mtime = clock])
  BY DEF MakeStaging
<1> DEFINE to == [run[p] EXCEPT !.pc = "copy", !.dir = d, !.todo = DOMAIN staging,
                                !.pending = run[p].members]
<1>2. to \in RunState
  <2>1. run[p] \in RunState /\ DOMAIN staging \in SUBSET StagingName /\ "copy" \in Phases
    BY <1>0, RunType DEF StagingOK, Phases, Staged
  <2> QED BY <2>1 DEF RunState
<1>3. run' = [run EXCEPT ![p] = to]
  BY <1>1 DEF Step
<1> HIDE DEF to
<1> DEFINE c == [Empty EXCEPT !.mtime = clock]
<1>4. /\ DOMAIN c = DOMAIN Empty
      /\ IsDirectory(c.files) /\ IsDirectory(c.manifest)
      /\ c.mtime \in Instant
  BY <1>0 DEF Empty, IsDirectory
<1>5. staging' = Put(staging, d, c)
  BY <1>1
<1> HIDE DEF c
<1>6. StagingOK'
  BY <1>0, <1>4, <1>5, StagingPut
<1>7. UNCHANGED <<source, clock, archives, faults, strays>>
  BY DEF MakeStaging
<1>8. ArchivesOK'
  BY <1>0, <1>7 DEF ArchivesOK
<1> QED BY <1>2, <1>3, <1>6, <1>7, <1>8, RunStepType

LEMMA CopyType ==
    ASSUME TypeInv, NEW p \in Exporter, Copy(p) PROVE TypeInv'
<1>0. StagingOK /\ ArchivesOK /\ clock \in Instant /\ IsDirectory(source)
  BY DEF TypeInv, TypeOK, SourceOK
<1>1. UNCHANGED <<source, clock, archives, faults, strays>>
  BY DEF Copy
<1> DEFINE m == Current(p)
           d == run[p].dir
<1>2. CASE ~(m \in DOMAIN source /\ Here(p))
  <2>1. Step(p, "copy", Failing(p, "cleanup")) /\ UNCHANGED staging
    BY <1>2 DEF Copy
  <2> QED BY <2>1, <1>1, FailType
<1>3. CASE m \in DOMAIN source /\ Here(p)
  <2>1. /\ Step(p, "copy", [run[p] EXCEPT !.pc = "compare"])
        /\ staging' = [staging EXCEPT ![d].files = Put(@, m, source[m]), ![d].mtime = clock]
    BY <1>3 DEF Copy
  <2>2. d \in DOMAIN staging /\ m \in DOMAIN source
    BY <1>3 DEF Here
  <2> HIDE DEF m, d
  <2>3. IsDirectory(staging[d].files) /\ DOMAIN staging[d] = DOMAIN Empty
    BY <1>0, <2>2 DEF StagingOK
  <2>4. IsDirectory(Put(staging[d].files, m, source[m]))
    BY <1>0, <2>2, <2>3, PutFileType
  <2> DEFINE newFiles == Put(staging[d].files, m, source[m])
             c == [staging[d] EXCEPT !.files = newFiles, !.mtime = clock]
  <2>5. staging' = [staging EXCEPT ![d] = c]
    BY <2>1, <2>2
  <2>6. IsDirectory(newFiles)
    BY <2>4
  <2> HIDE DEF newFiles
  <2>7. /\ DOMAIN c = DOMAIN Empty /\ c.files = newFiles /\ c.mtime = clock
        /\ c.manifest = staging[d].manifest
    BY <2>3 DEF Empty
  <2> HIDE DEF c
  <2>8. StagingOK'
    BY <1>0, <2>2, <2>5, <2>6, <2>7 DEF StagingOK
  <2>9. ArchivesOK'
    BY <1>0, <1>1 DEF ArchivesOK
  <2> DEFINE to == [run[p] EXCEPT !.pc = "compare"]
  <2>10. to \in RunState
    BY RunType DEF RunState, Phases, Staged
  <2>11. run' = [run EXCEPT ![p] = to]
    BY <2>1 DEF Step
  <2> HIDE DEF to
  <2> QED BY <1>1, <2>8, <2>9, <2>10, <2>11, RunStepType
<1> QED BY <1>2, <1>3

LEMMA CompareType ==
    ASSUME TypeInv, NEW p \in Exporter, Compare(p) PROVE TypeInv'
<1> DEFINE m == Current(p)
           to == [run[p] EXCEPT !.pc = "copy", !.pending = @ \ {m},
                                !.mismatch = @ \/ source[m] # staging[run[p].dir].files[m]]
<1>1. UNCHANGED <<source, clock, staging, archives, faults, strays>>
  BY DEF Compare
<1>2. CASE Step(p, "compare", Failing(p, "cleanup"))
  BY <1>1, <1>2, FailType
<1>3. CASE Step(p, "compare", to)
  <2>1. to \in RunState
    BY RunType, ZenonT(60) DEF RunState, Phases, Staged
  <2>2. run' = [run EXCEPT ![p] = to]
    BY <1>3 DEF Step
  <2> HIDE DEF to
  <2> QED BY <1>1, <2>1, <2>2, StagingSame, RunStepType
<1> QED BY <1>2, <1>3 DEF Compare

LEMMA AttestType ==
    ASSUME TypeInv, NEW p \in Exporter, Attest(p) PROVE TypeInv'
<1>0. StagingOK /\ ArchivesOK /\ clock \in Instant
  BY DEF TypeInv, TypeOK
<1>1. UNCHANGED <<source, clock, archives, faults, strays>>
  BY DEF Attest
<1> DEFINE d == run[p].dir
           good == ~run[p].mismatch /\ Here(p) /\ HasRecords(staging[d].files)
<1>2. CASE ~good
  <2>1. Step(p, "copy", Failing(p, "cleanup")) /\ UNCHANGED staging
    BY <1>2 DEF Attest
  <2> QED BY <2>1, <1>1, FailType
<1>3. CASE good
  <2>1. /\ Step(p, "copy", [run[p] EXCEPT !.pc = "verify"])
        /\ staging' = [staging EXCEPT ![d].manifest = staging[d].files, ![d].attested = TRUE,
                                      ![d].index = IndexFile \in DOMAIN source,
                                      ![d].mtime = clock]
    BY <1>3 DEF Attest
  <2>2. d \in DOMAIN staging
    BY <1>3 DEF Here
  <2> HIDE DEF d
  <2>3. IsDirectory(staging[d].files) /\ DOMAIN staging[d] = DOMAIN Empty
    BY <1>0, <2>2 DEF StagingOK
  <2> DEFINE c == [staging[d] EXCEPT !.manifest = staging[d].files, !.attested = TRUE,
                                     !.index = IndexFile \in DOMAIN source,
                                     !.mtime = clock]
  <2>5. staging' = [staging EXCEPT ![d] = c]
    BY <2>1, <2>2
  <2>7. /\ DOMAIN c = DOMAIN Empty /\ c.files = staging[d].files /\ c.mtime = clock
        /\ c.manifest = staging[d].files
    BY <2>3 DEF Empty
  <2> HIDE DEF c
  <2>8. StagingOK'
    BY <1>0, <2>2, <2>3, <2>5, <2>7 DEF StagingOK
  <2>9. ArchivesOK'
    BY <1>0, <1>1 DEF ArchivesOK
  <2> DEFINE to == [run[p] EXCEPT !.pc = "verify"]
  <2>10. to \in RunState
    BY RunType DEF RunState, Phases, Staged
  <2>11. run' = [run EXCEPT ![p] = to]
    BY <2>1 DEF Step
  <2> HIDE DEF to
  <2> QED BY <1>1, <2>8, <2>9, <2>10, <2>11, RunStepType
<1> QED BY <1>2, <1>3

LEMMA PublishType ==
    ASSUME TypeInv, NEW p \in Exporter, Publish(p) PROVE TypeInv'
<1>0. StagingOK /\ ArchivesOK /\ run[p].label \in Instant
  BY RunType DEF TypeInv, TypeOK, RunState
<1>1. UNCHANGED <<source, clock, faults, strays>> /\ run[p].dir \in DOMAIN staging
  BY DEF Publish, Here
<1>2. IsDirectory(staging[run[p].dir].files)
  BY <1>0, <1>1 DEF StagingOK
<1>3. ArchivesOK'
  <2> DEFINE c == Final(staging[run[p].dir])
  <2>1. IsDirectory(c.files)
    BY <1>2 DEF Final
  <2>2. archives' = Put(archives, run[p].label, c)
    BY DEF Publish
  <2> HIDE DEF c
  <2> QED BY <1>0, <2>1, <2>2 DEF ArchivesOK, Put
<1>4. StagingOK'
  BY <1>0, StagingLess DEF Publish
<1> DEFINE to == [run[p] EXCEPT !.pc = "cleanup"]
<1>5. to \in RunState
  BY RunType DEF RunState, Phases, Staged
<1>6. run' = [run EXCEPT ![p] = to]
  BY DEF Publish, Step
<1> HIDE DEF to
<1> QED BY <1>1, <1>3, <1>4, <1>5, <1>6, RunStepType

LEMMA CleanupType ==
    ASSUME TypeInv, NEW p \in Exporter, Cleanup(p) PROVE TypeInv'
<1>0. StagingOK /\ ArchivesOK
  BY DEF TypeInv, TypeOK
<1>1. UNCHANGED <<source, clock, archives, faults, strays>>
  BY DEF Cleanup
<1>2. StagingOK'
  BY <1>0, StagingLess DEF Cleanup
<1>3. ArchivesOK'
  BY <1>0, <1>1 DEF ArchivesOK
<1>4. Verdict(p) \in RunState
  BY VerdictIs DEF TypeInv, TypeOK
<1>5. run' = [run EXCEPT ![p] = Verdict(p)]
  BY DEF Cleanup, Step
<1> QED BY <1>1, <1>2, <1>3, <1>4, <1>5, RunStepType

LEMMA FaultType ==
    ASSUME TypeInv, NEW p \in Exporter, FaultStep(p) PROVE TypeInv'
<1>0. /\ StagingOK /\ ArchivesOK /\ SourceOK /\ RoomForTorn
      /\ clock \in Instant /\ run \in [Exporter -> RunState]
  BY DEF TypeInv, TypeOK
<1>1. /\ UNCHANGED <<source, clock, archives>> /\ StagingOK'
      /\ faults < MaxFaults /\ faults' = faults + 1 /\ strays' \in {strays, strays + 1}
  BY <1>0, FaultIs
<1>2. faults' \in 0..MaxFaults /\ strays' \in 0..faults'
  <2>1. faults \in 0..MaxFaults /\ strays \in 0..faults
    BY DEF TypeInv, TypeOK
  <2> QED BY <1>1, <2>1, BoundsAssumption
<1>3. run' \in [Exporter -> RunState]
  <2>1. \E to \in RunState : run' = [run EXCEPT ![p] = to]
    BY <1>0, FaultIs, FailingType, FreshType, VerdictIs
  <2> QED BY <1>0, <2>1
<1> QED BY <1>0, <1>1, <1>2, <1>3
        DEF TypeInv, TypeOK, SourceOK, ArchivesOK, RoomForTorn

LEMMA StepKeepsTypes == TypeInv /\ [Next]_vars => TypeInv'
<1> SUFFICES ASSUME TypeInv, [Next]_vars PROVE TypeInv'
  OBVIOUS
<1>1. CASE UNCHANGED vars
  BY <1>1 DEF vars, TypeInv, TypeOK, SourceOK, StagingOK, ArchivesOK, RoomForTorn
<1>2. CASE Server
  BY <1>2, ServerType
<1>3. CASE Tick
  BY <1>3, TickType
<1>4. ASSUME NEW p \in Exporter, Export(p) PROVE TypeInv'
  BY <1>4, StartType, ListType, NameType, SweepType, DecidesType, MakeStagingType, CopyType,
     CompareType, AttestType, PublishType, CleanupType, FaultType DEF Export, Work, FaultStep
<1> QED BY <1>1, <1>2, <1>3, <1>4 DEF Next

\* Every variable keeps its type, however many exports run.
THEOREM TypeCorrect == Spec => []TypeOK
<1>1. Init => TypeInv
  BY InitType
<1>2. TypeInv /\ [Next]_vars => TypeInv'
  BY StepKeepsTypes
<1>3. TypeInv => TypeOK
  BY DEF TypeInv
<1> QED BY <1>1, <1>2, <1>3, PTL DEF Spec

(***************************************************************************)
(* An archive, once it has its name, is kept.  Only Publish writes the     *)
(* archives, and only under a name that is free.                           *)
(***************************************************************************)
LEMMA StepKeepsArchives ==
    ASSUME [Next]_vars
    PROVE  \A a \in DOMAIN archives : a \in DOMAIN archives' /\ archives'[a] = archives[a]
<1>1. CASE UNCHANGED archives
  BY <1>1
<1>2. ASSUME NEW p \in Exporter, Publish(p)
      PROVE  \A a \in DOMAIN archives : a \in DOMAIN archives' /\ archives'[a] = archives[a]
  BY <1>2 DEF Publish, Put
<1>3. CASE UNCHANGED vars
  BY <1>1, <1>3 DEF vars
<1>4. CASE Server \/ Tick
  BY <1>1, <1>4 DEF Server, BeginAppend, EndAppend, Rotate, Expire, WriteIndex, Tick
<1>5. ASSUME NEW p \in Exporter, Export(p), ~Publish(p) PROVE UNCHANGED archives
  BY <1>5 DEF Export, Work, Start, List, Name, Sweep, Redo, MakeStaging, Copy, Compare,
              Attest, VerifyCopy, RenameRaises, Cleanup, CleanupIgnored, SweepRaises, IOError, Kill
<1> QED BY <1>1, <1>2, <1>3, <1>4, <1>5 DEF Next

\* No export, sweep, retry, fault or kill ever removes or alters an archive.
THEOREM ArchivesAreKept == Spec => ArchivesKept
<1>1. [Next]_vars =>
        [\A a \in DOMAIN archives : a \in DOMAIN archives' /\ archives'[a] = archives[a]]_vars
  BY StepKeepsArchives
<1> QED BY <1>1, PTL DEF Spec, ArchivesKept

(***************************************************************************)
(* Every archive restores.  That alone is not inductive: what a run is     *)
(* about to rename must still be what it verified.  It is, because no two  *)
(* runs share a staging directory, and a run that verified its copy writes *)
(* nothing into it any more.                                               *)
(***************************************************************************)
Owned == \A p, q \in Exporter : p # q /\ run[p].dir = run[q].dir => run[p].dir = NoName

Ready == \A p \in Exporter : run[p].pc = "rename" /\ Here(p) => Verified(staging[run[p].dir])

RestoreInv == ArchivesRestorable /\ Owned /\ Ready

LEMMA InitRestore == Init => RestoreInv
  BY DEF Init, RestoreInv, ArchivesRestorable, Owned, Ready, Fresh

\* A step of p that renames nothing next, and writes at most its own directory.
LEMMA OwnStep ==
    ASSUME TypeInv, RestoreInv, NEW p \in Exporter,
           \A q \in Exporter \ {p} : run'[q] = run[q],
           run'[p].pc # "rename", run'[p].dir \in {run[p].dir, NoName},
           DOMAIN staging' \subseteq DOMAIN staging,
           \A d \in DOMAIN staging' : d # run[p].dir => staging'[d] = staging[d],
           UNCHANGED archives
    PROVE  RestoreInv'
<1>2. ArchivesRestorable'
  BY DEF RestoreInv, ArchivesRestorable, Verified
<1>3. Owned'
  BY DEF RestoreInv, Owned
<1>4. ASSUME NEW q \in Exporter, run'[q].pc = "rename", run'[q].dir \in DOMAIN staging'
      PROVE  Verified(staging'[run'[q].dir])
  <2>1. q # p /\ run'[q] = run[q]
    BY <1>4
  <2>2. run[q].dir \in StagingName
    BY <1>4, <2>1 DEF TypeInv, TypeOK, StagingOK
  <2>3. run[q].dir # run[p].dir
    BY <2>1, <2>2, BoundsAssumption, DirectoryAssumption DEF RestoreInv, Owned
  <2> QED BY <1>4, <2>1, <2>3 DEF RestoreInv, Ready, Here
<1> QED BY <1>2, <1>3, <1>4 DEF RestoreInv, Ready, Here

\* The steps that leave the staging directories alone, or only remove some.
LEMMA RunOnlyRestore ==
    ASSUME TypeInv, RestoreInv, NEW p \in Exporter,
           \/ Start(p) \/ List(p) \/ Name(p) \/ Redo(p)
           \/ Compare(p) \/ RenameRaises(p)
    PROVE  RestoreInv'
<1>1. UNCHANGED <<staging, archives>>
  BY DEF Start, List, Name, Redo, Compare, RenameRaises
<1>2. /\ \A q \in Exporter \ {p} : run'[q] = run[q]
      /\ run'[p].pc # "rename" /\ run'[p].dir \in {run[p].dir, NoName}
  <2>0. run[p] \in RunState /\ run \in [Exporter -> RunState]
    BY RunType DEF TypeInv, TypeOK
  <2>1. CASE Start(p)
    BY <2>1, <2>0 DEF Start, Fresh, Refused, RunState
  <2>2. CASE List(p)
    BY <2>2, <2>0 DEF List, Step, Fresh, Refused, RunState
  <2>3. CASE Name(p)
    BY <2>3, <2>0 DEF Name, Step, RunState
  <2>4. CASE Redo(p)
    BY <2>4, <2>0 DEF Redo, Step, Failing, RunState
  <2>5. CASE Compare(p)
    BY <2>5, <2>0 DEF Compare, Step, Failing, RunState
  <2>6. CASE RenameRaises(p)
    BY <2>6, <2>0 DEF RenameRaises, Step, Failing, RunState
  <2> QED BY <2>1, <2>2, <2>3, <2>4, <2>5, <2>6
<1> QED BY <1>1, <1>2, OwnStep

LEMMA StagingRestore ==
    ASSUME TypeInv, RestoreInv, NEW p \in Exporter,
           Sweep(p) \/ Copy(p) \/ Attest(p) \/ Cleanup(p) \/ FaultStep(p)
    PROVE  RestoreInv'
<1>0. /\ run[p] \in RunState /\ run \in [Exporter -> RunState] /\ StagingOK /\ clock \in Instant
  BY RunType DEF TypeInv, TypeOK
<1>1. UNCHANGED archives
  BY <1>0, FaultIs DEF Sweep, Copy, Attest, Cleanup
<1>2. /\ DOMAIN staging' \subseteq DOMAIN staging
      /\ \A d \in DOMAIN staging' : d # run[p].dir => staging'[d] = staging[d]
  BY <1>0, FaultIs
     DEF Sweep, SweepGone, SweepYoung, SweepLocked, SweepStale, Copy, Attest, Cleanup, Keep
<1>3. /\ \A q \in Exporter \ {p} : run'[q] = run[q]
      /\ run'[p].pc # "rename" /\ run'[p].dir \in {run[p].dir, NoName}
  <2>1. CASE Sweep(p)
    <3>1. PICK d, reported : Seen(p, d, reported)
      BY <2>1 DEF Sweep, SweepGone, SweepYoung, SweepLocked, SweepStale
    <3> QED BY <2>1, <3>1, <1>0 DEF Sweep, Seen, RunState
  <2>2. CASE Copy(p)
    <3>1. \/ run' = [run EXCEPT ![p] = [run[p] EXCEPT !.pc = "compare"]]
          \/ run' = [run EXCEPT ![p] = Failing(p, "cleanup")]
      BY <2>2 DEF Copy, Step
    <3> QED BY <3>1, <1>0, FailingIs DEF RunState
  <2>3. CASE Attest(p)
    <3>1. \/ run' = [run EXCEPT ![p] = [run[p] EXCEPT !.pc = "verify"]]
          \/ run' = [run EXCEPT ![p] = Failing(p, "cleanup")]
      BY <2>3 DEF Attest, Step
    <3> QED BY <3>1, <1>0, FailingIs DEF RunState
  <2>4. CASE Cleanup(p)
    <3>1. run' = [run EXCEPT ![p] = Verdict(p)]
      BY <2>4 DEF Cleanup, Step
    <3> QED BY <1>0, <3>1, VerdictIs
  <2>5. CASE FaultStep(p)
    <3>1. \E to : /\ run' = [run EXCEPT ![p] = to]
                  /\ to.pc # "rename" /\ to.dir \in {run[p].dir, NoName}
      <4>1. Failing(p, "cleanup").pc = "cleanup" /\ Failing(p, "cleanup").dir = run[p].dir
        BY <1>0 DEF Failing, RunState
      <4>2. /\ Fresh.pc = "idle" /\ Fresh.dir = NoName
            /\ Refused.pc = "failed" /\ Refused.dir = NoName
        BY DEF Fresh, Refused
      <4>3. Verdict(p).pc # "rename" /\ Verdict(p).dir = NoName
        BY <1>0, VerdictIs
      <4> QED BY <1>0, <2>5, <4>1, <4>2, <4>3, FaultIs
    <3> QED BY <1>0, <3>1
  <2> QED BY <2>1, <2>2, <2>3, <2>4, <2>5
<1> QED BY <1>1, <1>2, <1>3, OwnStep

\* The name mkdtemp draws is nobody's.
LEMMA MakeStagingRestore ==
    ASSUME TypeInv, RestoreInv, NEW p \in Exporter, MakeStaging(p)
    PROVE  RestoreInv'
<1>0. run[p] \in RunState /\ run \in [Exporter -> RunState]
  BY RunType DEF TypeInv, TypeOK
<1>1. PICK d \in StagingName :
         /\ d \notin DOMAIN staging /\ \A q \in Exporter : run[q].dir # d
         /\ Step(p, "sweep", [run[p] EXCEPT !.pc = "copy", !.dir = d, !.todo = DOMAIN staging,
                                            !.pending = run[p].members])
         /\ staging' = Put(staging, d, [Empty EXCEPT !.mtime = clock])
  BY DEF MakeStaging
<1>2. run'[p].pc = "copy" /\ run'[p].dir = d /\ \A q \in Exporter : q # p => run'[q] = run[q]
  BY <1>0, <1>1 DEF Step, RunState
<1>3. \A e \in DOMAIN staging : staging'[e] = staging[e]
  BY <1>1 DEF Put
<1>4. DOMAIN staging' = DOMAIN staging \cup {d}
  BY <1>1 DEF Put
<1>5. Owned'
  BY <1>1, <1>2 DEF RestoreInv, Owned
<1>6. Ready'
  BY <1>1, <1>2, <1>3, <1>4 DEF RestoreInv, Ready, Here
<1>7. ArchivesRestorable'
  BY DEF MakeStaging, RestoreInv, ArchivesRestorable, Verified
<1> QED BY <1>5, <1>6, <1>7 DEF RestoreInv

\* What is renamed next was just verified.
LEMMA VerifyCopyRestore ==
    ASSUME TypeInv, RestoreInv, NEW p \in Exporter, VerifyCopy(p)
    PROVE  RestoreInv'
<1>0. run[p] \in RunState /\ run \in [Exporter -> RunState]
  BY RunType DEF TypeInv, TypeOK
<1>1. UNCHANGED <<staging, archives>>
  BY DEF VerifyCopy
<1>2. CASE Here(p) /\ Verified(staging[run[p].dir])
  <2>1. run' = [run EXCEPT ![p] = [run[p] EXCEPT !.pc = "rename"]]
    BY <1>2 DEF VerifyCopy, Step
  <2>2. run'[p].dir = run[p].dir /\ \A q \in Exporter : q # p => run'[q] = run[q]
    BY <2>1, <1>0 DEF RunState
  <2> QED BY <1>1, <1>2, <2>2 DEF RestoreInv, ArchivesRestorable, Owned, Ready, Here
<1>3. CASE ~(Here(p) /\ Verified(staging[run[p].dir]))
  <2>1. /\ \A q \in Exporter \ {p} : run'[q] = run[q]
        /\ run'[p].pc # "rename" /\ run'[p].dir \in {run[p].dir, NoName}
    BY <1>0, <1>3 DEF VerifyCopy, Step, Failing, RunState
  <2> QED BY <1>1, <2>1, OwnStep
<1> QED BY <1>2, <1>3

\* The rename makes a verified directory an archive.
LEMMA PublishRestore ==
    ASSUME TypeInv, RestoreInv, NEW p \in Exporter, Publish(p)
    PROVE  RestoreInv'
<1>0. run[p] \in RunState /\ run \in [Exporter -> RunState]
  BY RunType DEF TypeInv, TypeOK
<1>1. run[p].pc = "rename" /\ Here(p) /\ run[p].label \notin DOMAIN archives
  BY DEF Publish, Step
<1>2. Verified(staging[run[p].dir])
  BY <1>1 DEF RestoreInv, Ready
<1>3. Verified(Final(staging[run[p].dir]))
  BY <1>2 DEF Verified, Final
<1>4. archives' = Put(archives, run[p].label, Final(staging[run[p].dir]))
  BY DEF Publish
<1>5. ArchivesRestorable'
  BY <1>3, <1>4 DEF RestoreInv, ArchivesRestorable, Put
<1>6. run'[p].pc = "cleanup" /\ run'[p].dir = run[p].dir
      /\ \A q \in Exporter : q # p => run'[q] = run[q]
  BY <1>0 DEF Publish, Step, RunState
<1>7. staging' = Keep(staging, DOMAIN staging \ {run[p].dir})
  BY DEF Publish
<1>8. Owned'
  BY <1>6 DEF RestoreInv, Owned
<1>9. Ready'
  BY <1>6, <1>7 DEF RestoreInv, Ready, Here, Keep
<1> QED BY <1>5, <1>8, <1>9 DEF RestoreInv

LEMMA StepKeepsRestorable == TypeInv /\ RestoreInv /\ [Next]_vars => RestoreInv'
<1> SUFFICES ASSUME TypeInv, RestoreInv, [Next]_vars PROVE RestoreInv'
  OBVIOUS
<1>1. CASE UNCHANGED <<staging, archives, run>>
  BY <1>1 DEF RestoreInv, ArchivesRestorable, Owned, Ready, Here
<1>2. CASE UNCHANGED vars
  BY <1>1, <1>2 DEF vars
<1>3. CASE Server \/ Tick
  BY <1>1, <1>3 DEF Server, BeginAppend, EndAppend, Rotate, Expire, WriteIndex, Tick
<1>4. ASSUME NEW p \in Exporter, Export(p) PROVE RestoreInv'
  BY <1>4, RunOnlyRestore, StagingRestore, MakeStagingRestore, VerifyCopyRestore, PublishRestore
     DEF Export, Work, FaultStep
<1> QED BY <1>2, <1>3, <1>4 DEF Next

\* Whatever the server, the other exports, I/O errors and kills do in between, an
\* archive in the root has a manifest that attests its files and a chain that
\* verifies: verify() accepts it.
THEOREM ArchivesRestore == Spec => []ArchivesRestorable
<1>1. Init => TypeInv /\ RestoreInv
  BY InitType, InitRestore
<1>2. (TypeInv /\ RestoreInv) /\ [Next]_vars => (TypeInv /\ RestoreInv)'
  BY StepKeepsTypes, StepKeepsRestorable
<1>3. TypeInv /\ RestoreInv => ArchivesRestorable
  BY DEF RestoreInv
<1> QED BY <1>1, <1>2, <1>3, PTL DEF Spec

-----------------------------------------------------------------------------
(***************************************************************************)
(* The inductive invariant.  A record that the preflight saw stays covered *)
(* because some member vouches for it: a segment only grows, and one that  *)
(* expired does not come back, so wherever that member still is, in the    *)
(* source or in the staging directory, it reaches as far as the record.    *)
(***************************************************************************)
Copying == Staged \ {"cleanup"}
Files(p) == staging[run[p].dir].files

\* How far the stream is written; later segments reach further.
Written == source[CHOOSE s \in SegmentId : Newest(s)].last
SourceGrows ==
    \A s, t \in Segments(source) : s <= t => source[s].last <= source[t].last

\* A live run's directory is too young for any sweep.
Timely(p) ==
    /\ run[p].label <= clock
    /\ run[p].pc \notin Staged => run[p].dir = NoName
    /\ Here(p) => clock - staging[run[p].dir].mtime <= StaleAge

\* What is copied was written.
Below(p) == Here(p) => \A s \in Segments(Files(p)) : Files(p)[s].last <= Written

StagedOK(p) ==
    /\ run[p].pc \in Copying => Here(p) /\ run[p].members \ run[p].pending \subseteq DOMAIN Files(p)
    /\ run[p].pc = "compare" => Current(p) \in DOMAIN Files(p)
    /\ run[p].pc \in {"verify", "rename"} => run[p].pending = {}

\* Member s vouches for record r.
Carried(p, s, r) ==
    /\ \E t \in Segments(source) : s <= t
    /\ s \in DOMAIN source => r <= source[s].last
    /\ run[p].pc \in Copying /\ s \in DOMAIN Files(p) => r <= Files(p)[s].last

Promised(p) ==
    /\ run[p].pc = "list" => \A r \in run[p].seen : r <= Written
    /\ run[p].pc \in {"name", "sweep"} \cup Copying =>
         \A r \in run[p].seen : \E s \in run[p].members \cap SegmentId : Carried(p, s, r)
    /\ run[p].pc = "ok" \/ (run[p].pc = "cleanup" /\ ~run[p].failed) =>
         /\ run[p].label \in DOMAIN archives
         /\ run[p].seen \subseteq Records(archives[run[p].label].files)

Good(p) == Timely(p) /\ Below(p) /\ StagedOK(p) /\ Promised(p)

ServiceInv == TypeInv /\ RestoreInv /\ SourceGrows /\ \A p \in Exporter : Good(p)

(***************************************************************************)
(* The stream.                                                             *)
(***************************************************************************)
\* There is one newest segment, and it tells how far the stream is written.
LEMMA NewestIs ==
    ASSUME SourceOK
    PROVE  \E s \in SegmentId : /\ Newest(s) /\ Written = source[s].last
                                /\ \A t \in SegmentId : Newest(t) => t = s
<1>1. Segments(source) \in SUBSET (0..MaxSegment) /\ Segments(source) # {}
  BY DirectoryAssumption DEF SourceOK, Segments, SegmentId
<1>2. PICK s \in Segments(source) : \A t \in Segments(source) : t <= s
  BY <1>1, DirectoryAssumption, LargestOf
<1>3. s \in SegmentId /\ Newest(s)
  BY <1>2 DEF Newest, Segments
<1>4. \A t \in SegmentId : Newest(t) => t = s
  BY <1>3, DirectoryAssumption DEF Newest, SegmentId
<1>5. (CHOOSE t \in SegmentId : Newest(t)) = s
  BY <1>3, <1>4
<1> QED BY <1>3, <1>4, <1>5 DEF Written

LEMMA WrittenIs ==
    ASSUME SourceOK, NEW s \in SegmentId, Newest(s) PROVE Written = source[s].last
  BY NewestIs

LEMMA WrittenType ==
    ASSUME SourceOK PROVE Written \in 0..MaxRecord
<1>1. PICK s \in SegmentId : Newest(s) /\ Written = source[s].last
  BY NewestIs
<1>2. source[s] \in SegmentContent
  BY <1>1, SegmentType DEF Newest, SourceOK
<1> QED BY <1>1, <1>2 DEF SegmentContent

\* No segment reaches further than the stream.
LEMMA NoneFurther ==
    ASSUME SourceOK, SourceGrows, NEW s \in Segments(source) PROVE source[s].last <= Written
  BY NewestIs DEF SourceGrows, Newest

\* The same with the next state's directory.
LEMMA WrittenNext ==
    ASSUME SourceOK', NEW s \in SegmentId, s \in Segments(source'),
           \A t \in Segments(source') : t <= s
    PROVE  Written' = source'[s].last
<1>1. \A t \in SegmentId : Newest(t)' => t = s
  BY DirectoryAssumption DEF Newest, SegmentId
<1>2. Newest(s)'
  BY DEF Newest
<1>3. (CHOOSE t \in SegmentId : Newest(t)') = s
  BY <1>1, <1>2
<1> QED BY <1>3 DEF Written

LEMMA WrittenNextType ==
    ASSUME SourceOK' PROVE Written' \in Int
<1>1. /\ Segments(source') \in SUBSET (0..MaxSegment) /\ Segments(source') # {}
      /\ \A s \in Segments(source') : source'[s] \in SegmentContent
  BY SegmentType, DirectoryAssumption DEF SourceOK, Segments, SegmentId
<1>2. PICK s \in Segments(source') : \A t \in Segments(source') : t <= s
  BY <1>1, DirectoryAssumption, LargestOf
<1>3. Written' = source'[s].last
  BY <1>2, WrittenNext DEF Segments
<1> QED BY <1>1, <1>3, DirectoryAssumption DEF SegmentContent

\* What the server does to the stream: a segment that stays only grows, a new one
\* comes after all others, and what goes is not the last.
Streams ==
    /\ \A s \in Segments(source') :
         \/ s \in Segments(source) /\ source[s].last <= source'[s].last
         \/ \A t \in Segments(source) : t < s
    /\ \A s \in Segments(source) : \E t \in Segments(source') : s <= t
    /\ SourceGrows'
    /\ Written <= Written'

LEMMA LastType ==
    ASSUME IsDirectory(source), NEW s \in Segments(source)
    PROVE  source[s].last \in Int /\ s \in Int /\ source[s] \in SegmentContent
<1>1. source[s] \in SegmentContent
  BY SegmentType
<1> QED BY <1>1, DirectoryAssumption DEF SegmentContent, Segments, SegmentId

\* The stream grows at its end.
LEMMA Extended ==
    ASSUME SourceOK, SourceOK', SourceGrows, NEW n \in SegmentId, Newest(n),
           NEW m \in SegmentId, n <= m, Segments(source') = Segments(source) \cup {m},
           \A t \in Segments(source) \ {m} : source'[t].last = source[t].last,
           source[n].last <= source'[m].last
    PROVE  Streams
<1>0. n \in Segments(source) /\ n \in Int /\ m \in Int /\ \A t \in Segments(source) : t <= n
  BY DirectoryAssumption DEF Newest, SegmentId
<1>1. /\ \A t \in Segments(source) : source[t].last \in Int /\ t \in Int
      /\ \A t \in Segments(source') : source'[t].last \in Int /\ t \in Int
  <2>1. IsDirectory(source') /\ \A t \in Segments(source') : source'[t] \in SegmentContent
    BY SegmentType DEF SourceOK
  <2> QED BY <2>1, LastType, DirectoryAssumption DEF SourceOK, SegmentContent, Segments, SegmentId
<1>2. \A t \in Segments(source) : source[t].last <= source[n].last
  BY <1>0 DEF SourceGrows
<1>3. \A t \in Segments(source') : t <= m
  BY <1>0, <1>1
<1>4. Written = source[n].last /\ Written' = source'[m].last
  BY <1>3, WrittenIs, WrittenNext
<1>5. ASSUME NEW t \in Segments(source')
      PROVE  \/ t \in Segments(source) /\ source[t].last <= source'[t].last
             \/ \A u \in Segments(source) : u < t
  <2>1. CASE t # m
    BY <1>1, <2>1
  <2>2. CASE t = m /\ m \in Segments(source)
    <3>1. m = n
      BY <1>0, <2>2
    <3> QED BY <2>2, <3>1
  <2>3. CASE t = m /\ m \notin Segments(source)
    <3>1. n < m
      BY <1>0, <2>3
    <3> QED BY <1>0, <1>1, <2>3, <3>1
  <2> QED BY <2>1, <2>2, <2>3
<1>6. SourceGrows'
  <2>1. SUFFICES ASSUME NEW t \in Segments(source'), NEW u \in Segments(source'), t <= u
        PROVE  source'[t].last <= source'[u].last
    BY DEF SourceGrows
  <2>2. CASE u = m /\ t # m
    <3>1. source'[t].last = source[t].last /\ source[t].last <= source[n].last
      BY <1>2, <2>2
    <3> QED BY <1>0, <1>1, <2>2, <3>1
  <2>3. CASE u # m
    <3>1. t # m
      BY <1>0, <1>1, <1>3, <2>1, <2>3
    <3> QED BY <2>1, <2>3, <3>1 DEF SourceGrows
  <2>4. CASE u = m /\ t = m
    BY <1>1, <2>4
  <2> QED BY <2>2, <2>3, <2>4
<1>7. \A t \in Segments(source) : \E u \in Segments(source') : t <= u
  BY <1>1
<1> QED BY <1>4, <1>5, <1>6, <1>7 DEF Streams

LEMMA ExpireStreams ==
    ASSUME SourceOK, SourceOK', SourceGrows, NEW s \in SegmentId, Expire(s)
    PROVE  Streams
<1>1. PICK n \in SegmentId : Newest(n) /\ Written = source[n].last
  BY NewestIs
<1>2. PICK u \in Segments(source) : s < u
  BY DEF Expire
<1>3. \A t \in Segments(source) : source[t].last \in Int /\ t \in Int
  BY LastType DEF SourceOK
<1>4. Segments(source') = Segments(source) \ {s}
  BY DEF Expire, Keep, Segments
<1>5. \A t \in Segments(source') : source'[t] = source[t]
  BY <1>4 DEF Expire, Keep, Segments
<1>6. n \in Segments(source) /\ \A t \in Segments(source) : t <= n
  BY <1>1 DEF Newest
<1>7. s \in Segments(source)
  BY DEF Expire
<1>8. n \in Segments(source')
  <2>1. u <= n
    BY <1>2, <1>6
  <2>2. s # n
    BY <1>2, <1>3, <1>6, <1>7, <2>1
  <2> QED BY <1>4, <1>6, <2>2
<1>9. \A t \in Segments(source') : t <= n
  BY <1>4, <1>6
<1>10. Written' = source'[n].last
  BY <1>8, <1>9, WrittenNext
<1>11. SourceGrows'
  BY <1>4, <1>5 DEF SourceGrows
<1>12. Written <= Written'
  BY <1>1, <1>3, <1>5, <1>6, <1>8, <1>10
<1>13. \A t \in Segments(source') : t \in Segments(source) /\ source[t].last <= source'[t].last
  BY <1>3, <1>4, <1>5
<1>14. \A t \in Segments(source) : \E v \in Segments(source') : t <= v
  BY <1>6, <1>8
<1> QED BY <1>11, <1>12, <1>13, <1>14 DEF Streams

LEMMA ServerStreams ==
    ASSUME TypeInv, SourceGrows, Server
    PROVE  Streams
<1>1. SourceOK /\ SourceOK' /\ IsDirectory(source)
  BY ServerType DEF TypeInv, TypeOK, SourceOK
<1>2. ASSUME NEW s \in SegmentId, NEW m \in SegmentId, NEW c, Newest(s), s <= m,
             source' = Put(source, m, c), source[s].last <= c.last
      PROVE  Streams
  <2>1. Segments(source') = Segments(source) \cup {m}
    BY <1>2 DEF Put, Segments
  <2>2. source'[m] = c /\ \A t \in Segments(source) \ {m} : source'[t] = source[t]
    BY <1>2 DEF Put, Segments
  <2> QED BY <1>1, <1>2, <2>1, <2>2, Extended
<1>3. ASSUME NEW s \in SegmentId, Newest(s)
      PROVE  source[s].last \in Int /\ s \in Int /\ source[s] \in SegmentContent
  BY <1>1, <1>3, LastType DEF Newest
<1>4. ASSUME NEW s \in SegmentId, BeginAppend(s) PROVE Streams
  <2> DEFINE c == [source[s] EXCEPT !.torn = TRUE]
  <2>1. Newest(s) /\ source' = Put(source, s, c)
    BY <1>4 DEF BeginAppend
  <2>2. source[s].last <= c.last /\ s <= s
    BY <1>3, <2>1 DEF SegmentContent
  <2> HIDE DEF c
  <2> QED BY <1>2, <2>1, <2>2
<1>5. ASSUME NEW s \in SegmentId, EndAppend(s) PROVE Streams
  <2> DEFINE c == [source[s] EXCEPT !.torn = FALSE, !.last = @ + 1]
  <2>1. Newest(s) /\ source' = Put(source, s, c)
    BY <1>5 DEF EndAppend
  <2>2. c.last = source[s].last + 1
    BY <1>3, <2>1 DEF SegmentContent
  <2>3. source[s].last <= c.last /\ s <= s
    BY <1>3, <2>1, <2>2
  <2> HIDE DEF c
  <2> QED BY <1>2, <2>1, <2>3
<1>6. ASSUME NEW s \in SegmentId, Rotate(s) PROVE Streams
  <2> DEFINE c == [first |-> source[s].last + 1, last |-> source[s].last, torn |-> FALSE]
  <2>1. Newest(s) /\ source' = Put(source, s + 1, c)
    BY <1>6 DEF Rotate
  <2>2. s + 1 \in SegmentId /\ s <= s + 1 /\ source[s].last <= c.last
    BY <1>3, <1>6, <2>1, DirectoryAssumption DEF Rotate, SegmentId
  <2> HIDE DEF c
  <2> QED BY <1>2, <2>1, <2>2
<1>7. ASSUME NEW s \in SegmentId, Expire(s) PROVE Streams
  BY <1>1, <1>7, ExpireStreams
<1>8. CASE WriteIndex
  <2>1. PICK n \in SegmentId : Newest(n)
    BY <1>1, NewestIs
  <2>2. IndexFile \notin SegmentId
    BY DirectoryAssumption DEF SegmentId, IndexFile
  <2>3. /\ Segments(source') = Segments(source) \cup {n}
        /\ \A t \in Segments(source) : source'[t] = source[t]
    BY <1>8, <2>1, <2>2 DEF WriteIndex, Put, Segments, Newest
  <2>4. n <= n /\ source[n].last <= source'[n].last
    BY <1>3, <2>1, <2>3 DEF Newest
  <2> QED BY <1>1, <2>1, <2>3, <2>4, Extended
<1> QED BY <1>4, <1>5, <1>6, <1>7, <1>8 DEF Server

(***************************************************************************)
(* What each step does to the invariant.                                   *)
(***************************************************************************)
LEMMA InitService == Init => ServiceInv
<1> SUFFICES ASSUME Init PROVE ServiceInv
  OBVIOUS
<1>1. TypeInv /\ RestoreInv
  BY InitType, InitRestore
<1>2. SourceGrows
  BY DEF Init, SourceGrows, Segments
<1>3. ASSUME NEW p \in Exporter PROVE Good(p)
  <2>1. run[p] = Fresh /\ clock = 0 /\ ~Here(p)
    BY DEF Init, Here
  <2>2. run[p].pc = "idle" /\ run[p].dir = NoName /\ run[p].label = 0
    BY <2>1 DEF Fresh
  <2> QED BY <2>1, <2>2 DEF Good, Timely, Below, StagedOK, Promised, Copying, Staged
<1> QED BY <1>1, <1>2, <1>3 DEF ServiceInv

\* A run of ServiceInv, typed.
LEMMA Typed ==
    ASSUME ServiceInv, NEW p \in Exporter
    PROVE  /\ Good(p) /\ run[p] \in RunState /\ run \in [Exporter -> RunState]
           /\ SourceOK /\ IsDirectory(source) /\ StagingOK
           /\ clock \in Int /\ 0 <= clock /\ Written \in Int /\ NoName \notin DOMAIN staging
<1>1. TypeOK
  BY DEF ServiceInv, TypeInv
<1>2. Written \in Int
  BY <1>1, WrittenType, DirectoryAssumption DEF TypeOK
<1>3. NoName \notin DOMAIN staging
  BY <1>1, BoundsAssumption DEF TypeOK, StagingOK
<1>4. clock \in Int /\ 0 <= clock
  BY <1>1, BoundsAssumption DEF TypeOK, Instant
<1> QED BY <1>1, <1>2, <1>3, <1>4 DEF ServiceInv, TypeOK, SourceOK

\* How far a copy reaches.
LEMMA CopyReaches ==
    ASSUME ServiceInv, NEW p \in Exporter, Here(p)
    PROVE  /\ IsDirectory(Files(p))
           /\ \A s \in Segments(Files(p)) : Files(p)[s].last \in Int
<1>1. IsDirectory(Files(p))
  BY Typed DEF Files, Here, StagingOK
<1> QED BY <1>1, SegmentType, DirectoryAssumption DEF SegmentContent

LEMMA ServerGood ==
    ASSUME ServiceInv, Server, NEW p \in Exporter
    PROVE  Good(p)'
<1>0. UNCHANGED <<clock, staging, archives, run>>
  BY DEF Server
<1>1. Streams /\ Good(p) /\ Written \in Int /\ run[p] \in RunState /\ SourceOK /\ SourceOK'
  BY Typed, ServerStreams, ServerType DEF ServiceInv, TypeInv, TypeOK
<1>2. Written' \in Int
  BY <1>1, WrittenNextType
<1>3. Timely(p)' /\ StagedOK(p)'
  BY <1>0, <1>1 DEF Good, Timely, StagedOK, Here, Files, Current
<1>4. Below(p)'
  <2>1. SUFFICES ASSUME Here(p), NEW s \in Segments(Files(p))
        PROVE  Files(p)[s].last <= Written'
    BY <1>0 DEF Below, Here, Files
  <2>2. Files(p)[s].last <= Written /\ Files(p)[s].last \in Int
    BY <1>1, <2>1, CopyReaches DEF Good, Below
  <2> QED BY <1>1, <1>2, <2>2 DEF Streams
<1>5. ASSUME NEW s \in SegmentId, NEW r \in Int, Carried(p, s, r) PROVE Carried(p, s, r)'
  <2>1. PICK t \in Segments(source) : s <= t
    BY <1>5 DEF Carried
  <2>2. PICK u \in Segments(source') : t <= u
    BY <1>1 DEF Streams
  <2>3. s \in Int /\ t \in Int /\ u \in Int
    BY DirectoryAssumption DEF SegmentId, Segments
  <2>4. s <= u
    BY <2>1, <2>2, <2>3
  <2>5. ASSUME s \in DOMAIN source' PROVE r <= source'[s].last
    <3>1. s \in Segments(source')
      BY <2>5 DEF Segments
    <3>2. ~ (t < s)
      BY <2>1, <2>3
    <3>3. s \in Segments(source) /\ source[s].last <= source'[s].last
      BY <1>1, <3>1, <3>2 DEF Streams
    <3>4. source'[s] \in SegmentContent /\ source[s] \in SegmentContent
      BY <1>1, <3>1, <3>3, SegmentType DEF SourceOK
    <3>5. source'[s].last \in Int /\ source[s].last \in Int
      BY <3>4, DirectoryAssumption DEF SegmentContent
    <3>6. r <= source[s].last
      BY <1>5, <3>3 DEF Carried, Segments
    <3> QED BY <3>3, <3>5, <3>6
  <2> QED BY <1>0, <1>5, <2>4, <2>5 DEF Carried, Files
<1>6. Promised(p)'
  <2>1. \A r \in run[p].seen : r \in Int
    BY <1>1, DirectoryAssumption DEF RunState
  <2>2. run[p].pc = "list" => \A r \in run[p].seen : r <= Written'
    BY <1>1, <1>2, <2>1 DEF Good, Promised, Streams
  <2>3. run[p].pc \in {"name", "sweep"} \cup Copying =>
           \A r \in run[p].seen : \E s \in run[p].members \cap SegmentId : Carried(p, s, r)'
    BY <1>1, <1>5, <2>1 DEF Good, Promised
  <2> QED BY <1>0, <1>1, <2>2, <2>3 DEF Good, Promised
<1> QED BY <1>3, <1>4, <1>6 DEF Good

LEMMA TickGood ==
    ASSUME ServiceInv, Tick, NEW p \in Exporter
    PROVE  Good(p)'
<1>0. UNCHANGED <<source, staging, archives, run>> /\ clock' = clock + 1
  BY DEF Tick
<1>1. Good(p) /\ clock \in Int /\ run[p] \in RunState /\ NoName \notin DOMAIN staging
  BY Typed
<1>2. Timely(p)'
  <2>1. run[p].label \in Int
    BY <1>1, BoundsAssumption DEF RunState, Instant
  <2>2. run[p].label <= clock + 1
    BY <1>1, <2>1 DEF Good, Timely
  <2>3. Here(p) => clock + 1 - staging[run[p].dir].mtime <= StaleAge
    <3>1. Here(p) => Live(run[p].dir) /\ run[p].dir \in DOMAIN staging
      BY <1>1 DEF Good, Timely, Here, Live
    <3> QED BY <3>1 DEF Tick
  <2>4. run'[p].label <= clock'
    BY <1>0, <2>2
  <2>5. Here(p)' => clock' - staging'[run'[p].dir].mtime <= StaleAge
    <3>1. Here(p)' <=> Here(p)
      BY <1>0 DEF Here
    <3>2. staging'[run'[p].dir].mtime = staging[run[p].dir].mtime /\ clock' = clock + 1
      BY <1>0
    <3>3. Here(p) => staging[run[p].dir].mtime \in Int
      BY Typed, BoundsAssumption DEF StagingOK, Here, Instant
    <3> QED BY <1>1, <2>3, <3>1, <3>2, <3>3
  <2>6. run'[p].pc \notin Staged => run'[p].dir = NoName
    BY <1>0, <1>1 DEF Good, Timely
  <2> QED BY <2>4, <2>5, <2>6 DEF Timely, Here
<1>3. Below(p)' /\ StagedOK(p)' /\ Promised(p)'
  <2>1. Written' = Written
    BY <1>0 DEF Written, Newest, Segments
  <2> QED BY <1>0, <1>1, <2>1
          DEF Good, Below, StagedOK, Promised, Carried, Here, Files, Current
<1> QED BY <1>2, <1>3 DEF Good

\* What another run does leaves the promises of q alone, if it leaves its staging
\* directory alone.
LEMMA OthersGood ==
    ASSUME ServiceInv, NEW q \in Exporter, run'[q] = run[q], UNCHANGED <<source, clock>>,
           \A a \in DOMAIN archives : a \in DOMAIN archives' /\ archives'[a] = archives[a],
           Here(q) => run[q].dir \in DOMAIN staging' /\ staging'[run[q].dir] = staging[run[q].dir],
           run[q].dir \in DOMAIN staging' => Here(q)
    PROVE  Good(q)'
<1>1. Good(q)
  BY Typed
<1>2. Here(q)' <=> Here(q)
  BY DEF Here
<1>3. Here(q) => Files(q)' = Files(q)
  BY DEF Files
<1>4. Written' = Written
  BY DEF Written, Newest, Segments
<1>5. Timely(q)' /\ Below(q)'
  BY <1>1, <1>2, <1>3, <1>4 DEF Good, Timely, Below
<1>6. StagedOK(q)'
  BY <1>1, <1>2, <1>3 DEF Good, StagedOK, Current, Copying, Staged
<1>7. Promised(q)'
  <2>1. run[q].pc \in Copying => Here(q)
    BY <1>1 DEF Good, StagedOK
  <2>2. \A s, r : Carried(q, s, r) => Carried(q, s, r)'
    BY <1>3, <2>1 DEF Carried
  <2> QED BY <1>1, <1>4, <2>2 DEF Good, Promised
<1> QED BY <1>5, <1>6, <1>7 DEF Good

\* A run that fails owes nothing but its staging directory's age.
LEMMA FailGood ==
    ASSUME ServiceInv, NEW p \in Exporter, run' = [run EXCEPT ![p] = Failing(p, "cleanup")],
           UNCHANGED <<source, clock, staging>>
    PROVE  Good(p)'
<1>1. Good(p) /\ run[p] \in RunState /\ run \in [Exporter -> RunState]
  BY Typed
<1>2. /\ run'[p].pc = "cleanup" /\ run'[p].failed
      /\ run'[p].label = 0 /\ run'[p].dir = run[p].dir
  BY <1>1 DEF Failing, RunState
<1>3. Written' = Written
  BY DEF Written, Newest, Segments
<1>4. Timely(p)' /\ Below(p)'
  BY <1>1, <1>2, <1>3, Typed DEF Good, Timely, Below, Here, Files, Staged
<1>5. StagedOK(p)' /\ Promised(p)'
  BY <1>2 DEF StagedOK, Promised, Copying, Staged
<1> QED BY <1>4, <1>5 DEF Good

\* A run that holds no staging directory and has no answer owes nothing.
LEMMA EndGood ==
    ASSUME ServiceInv, TypeInv', NEW p \in Exporter, run'[p].dir = NoName,
           run'[p].pc \in {"idle", "failed"}, run'[p].label <= clock'
    PROVE  Good(p)'
<1>1. ~Here(p)'
  BY BoundsAssumption DEF TypeInv, TypeOK, StagingOK, Here
<1>2. Timely(p)' /\ Below(p)'
  BY <1>1 DEF Timely, Below
<1>3. StagedOK(p)' /\ Promised(p)'
  BY DEF StagedOK, Promised, Copying, Staged
<1> QED BY <1>2, <1>3 DEF Good

\* A run goes on from its listing to the rename with the same members vouching for
\* the same records, if all it copies is what the source holds now.
LEMMA CarriedOn ==
    ASSUME ServiceInv, NEW p \in Exporter, UNCHANGED source,
           run'[p].seen = run[p].seen, run'[p].members = run[p].members,
           run[p].pc \in {"name", "sweep"} \cup Copying,
           run'[p].pc \in Copying =>
               \A s \in DOMAIN Files(p)' \cap SegmentId :
                  \/ s \in DOMAIN source /\ Files(p)'[s] = source[s]
                  \/ run[p].pc \in Copying /\ s \in DOMAIN Files(p) /\ Files(p)'[s] = Files(p)[s]
    PROVE  \A r \in run'[p].seen : \E s \in run'[p].members \cap SegmentId : Carried(p, s, r)'
<1>1. SUFFICES ASSUME NEW r \in run[p].seen
      PROVE  \E s \in run[p].members \cap SegmentId : Carried(p, s, r)'
  OBVIOUS
<1>2. PICK s \in run[p].members \cap SegmentId : Carried(p, s, r)
  BY Typed DEF Good, Promised
<1>3. Carried(p, s, r)'
  BY <1>2 DEF Carried
<1> QED BY <1>3

LEMMA StartGood ==
    ASSUME ServiceInv, TypeInv', NEW p \in Exporter, Start(p) PROVE Good(p)'
<1>0. UNCHANGED <<source, clock, staging, archives>>
  BY DEF Start
<1>1. run[p] \in RunState /\ run \in [Exporter -> RunState] /\ SourceOK /\ clock \in Int /\ 0 <= clock
  BY Typed
<1>2. CASE ~ChainOK(source)
  <2>1. run' = [run EXCEPT ![p] = Refused]
    BY <1>2 DEF Start
  <2>2. run'[p].dir = NoName /\ run'[p].pc = "failed" /\ run'[p].label = 0
    BY <1>1, <2>1 DEF Refused, Fresh
  <2> QED BY <1>0, <1>1, <2>2, EndGood
<1>3. CASE ChainOK(source)
  <2>1. run' = [run EXCEPT ![p] = [Fresh EXCEPT !.pc = "list", !.seen = Records(source)]]
    BY <1>3 DEF Start
  <2>2. /\ run'[p].dir = NoName /\ run'[p].pc = "list" /\ run'[p].label = 0
        /\ run'[p].seen = Records(source)
    BY <1>1, <2>1 DEF Fresh
  <2>3. ~Here(p)'
    BY <1>0, <2>2, Typed DEF Here
  <2>4. Timely(p)' /\ Below(p)'
    BY <1>0, <1>1, <2>2, <2>3 DEF Timely, Below
  <2>5. StagedOK(p)'
    BY <2>2 DEF StagedOK, Copying, Staged
  <2>6. ASSUME NEW r \in Records(source) PROVE r <= Written
    <3>1. PICK s \in Segments(source) : r \in source[s].first..source[s].last
      BY DEF Records
    <3>2. source[s].last <= Written
      BY <1>1, NoneFurther DEF ServiceInv
    <3>3. source[s] \in SegmentContent
      BY <1>1, SegmentType DEF SourceOK
    <3>4. r \in Int /\ r <= source[s].last /\ source[s].last \in Int /\ Written \in Int
      BY <3>1, <3>3, Typed, DirectoryAssumption DEF SegmentContent
    <3> QED BY <3>2, <3>4
  <2>7. Written' = Written
    BY <1>0 DEF Written, Newest, Segments
  <2>8. Promised(p)'
    BY <2>2, <2>6, <2>7 DEF Promised, Copying, Staged
  <2> QED BY <2>4, <2>5, <2>8 DEF Good
<1> QED BY <1>2, <1>3

LEMMA ListGood ==
    ASSUME ServiceInv, TypeInv', NEW p \in Exporter, List(p) PROVE Good(p)'
<1>0. UNCHANGED <<source, clock, staging, archives>> /\ run[p].pc = "list"
  BY DEF List, Step
<1>1. /\ Good(p) /\ run[p] \in RunState /\ run \in [Exporter -> RunState] /\ SourceOK
      /\ clock \in Int /\ 0 <= clock
  BY Typed
<1>2. CASE run' = [run EXCEPT ![p] = Refused]
  <2>1. run'[p].dir = NoName /\ run'[p].pc = "failed" /\ run'[p].label = 0
    BY <1>1, <1>2 DEF Refused, Fresh
  <2> QED BY <1>0, <1>1, <2>1, EndGood
<1>3. CASE run' = [run EXCEPT ![p] = [run[p] EXCEPT !.pc = "name", !.members = DOMAIN source]]
  <2>1. /\ run'[p].pc = "name" /\ run'[p].members = DOMAIN source /\ run'[p].seen = run[p].seen
        /\ run'[p].dir = run[p].dir /\ run'[p].label = run[p].label
    BY <1>1, <1>3 DEF RunState
  <2>2. run[p].dir = NoName /\ ~Here(p)'
    BY <1>0, <1>1, <2>1, Typed DEF Good, Timely, Here, Staged
  <2>3. Timely(p)' /\ Below(p)'
    BY <1>0, <1>1, <2>1, <2>2 DEF Good, Timely, Below
  <2>4. StagedOK(p)'
    BY <2>1 DEF StagedOK, Copying, Staged
  <2>5. ASSUME NEW r \in run[p].seen PROVE \E s \in DOMAIN source \cap SegmentId : Carried(p, s, r)'
    <3>1. PICK s \in SegmentId : Newest(s) /\ Written = source[s].last
      BY <1>1, NewestIs
    <3>2. r <= source[s].last
      BY <1>0, <1>1, <3>1 DEF Good, Promised
    <3>3. s \in Segments(source) /\ s <= s
      BY <3>1, DirectoryAssumption DEF Newest, SegmentId
    <3>4. Carried(p, s, r)'
      BY <1>0, <2>1, <3>2, <3>3 DEF Carried, Copying, Staged
    <3> QED BY <3>3, <3>4 DEF Segments
  <2>6. Promised(p)'
    BY <2>1, <2>5 DEF Promised, Copying, Staged
  <2> QED BY <2>3, <2>4, <2>6 DEF Good
<1> QED BY <1>2, <1>3 DEF List, Step

LEMMA NameGood ==
    ASSUME ServiceInv, TypeInv', NEW p \in Exporter, Name(p) PROVE Good(p)'
<1>0. UNCHANGED <<source, clock, staging, archives>> /\ run[p].pc = "name"
  BY DEF Name, Step
<1>1. Good(p) /\ run[p] \in RunState /\ run \in [Exporter -> RunState] /\ clock \in Int
  BY Typed
<1>2. /\ run'[p].pc = "sweep" /\ run'[p].members = run[p].members /\ run'[p].seen = run[p].seen
      /\ run'[p].dir = run[p].dir /\ run'[p].label = clock
  BY <1>1 DEF Name, Step, RunState
<1>3. ~Here(p)' /\ run[p].dir = NoName
  BY <1>0, <1>1, <1>2, Typed DEF Good, Timely, Here, Staged
<1>4. Timely(p)' /\ Below(p)'
  BY <1>0, <1>1, <1>2, <1>3 DEF Timely, Below
<1>5. StagedOK(p)'
  BY <1>2 DEF StagedOK, Copying, Staged
<1>6. run'[p].pc \notin Copying
  BY <1>2 DEF Copying, Staged
<1>7. Promised(p)'
  BY <1>0, <1>2, <1>6, CarriedOn DEF Promised
<1> QED BY <1>4, <1>5, <1>7 DEF Good

\* A sweep takes a directory that is too old to be anybody's.
LEMMA StaleIsNobodys ==
    ASSUME ServiceInv, NEW p \in Exporter, NEW q \in Exporter, NEW d, d \in DOMAIN staging,
           Stale(p, d), Here(q)
    PROVE  run[q].dir # d
<1>1. SUFFICES ASSUME run[q].dir = d PROVE FALSE
  OBVIOUS
<1>2. clock - staging[d].mtime <= StaleAge /\ run[p].label <= clock
  BY <1>1, Typed DEF Good, Timely
<1>3. staging[d].mtime < run[p].label - StaleAge
  BY DEF Stale
<1>4. staging[d].mtime \in Int /\ run[p].label \in Int /\ clock \in Int /\ StaleAge \in Int
  BY Typed, BoundsAssumption DEF StagingOK, Instant, RunState
<1> QED BY <1>2, <1>3, <1>4

LEMMA SweepIs ==
    ASSUME ServiceInv, NEW p \in Exporter, Sweep(p)
    PROVE  /\ \A q \in Exporter \ {p} : run'[q] = run[q]
           /\ run'[p].pc = run[p].pc /\ run[p].pc \in {"sweep", "copy"}
           /\ run'[p].members = run[p].members /\ run'[p].seen = run[p].seen
           /\ run'[p].dir = run[p].dir /\ run'[p].label = run[p].label
           /\ run'[p].pending = run[p].pending
           /\ DOMAIN staging' \subseteq DOMAIN staging
           /\ \A d \in DOMAIN staging' : staging'[d] = staging[d]
           /\ \A q \in Exporter : Here(q) => run[q].dir \in DOMAIN staging'
<1>1. PICK d \in run[p].todo : \/ SweepGone(p, d) \/ SweepYoung(p, d)
                               \/ SweepLocked(p, d) \/ SweepStale(p, d)
  BY DEF Sweep
<1>2. PICK reported : Seen(p, d, reported)
  BY <1>1 DEF SweepGone, SweepYoung, SweepLocked, SweepStale
<1>3. run[p] \in RunState /\ run \in [Exporter -> RunState]
  BY Typed
<1>4. CASE SweepStale(p, d)
  <2>1. staging' = Keep(staging, DOMAIN staging \ {d}) /\ d \in DOMAIN staging /\ Stale(p, d)
    BY <1>4 DEF SweepStale
  <2>2. \A q \in Exporter : Here(q) => run[q].dir \in DOMAIN staging \ {d}
    BY <2>1, StaleIsNobodys DEF Here
  <2> QED BY <1>2, <1>3, <2>1, <2>2 DEF Sweep, Seen, RunState, Keep
<1>5. CASE UNCHANGED staging
  BY <1>2, <1>3, <1>5 DEF Sweep, Seen, RunState, Here
<1> QED BY <1>1, <1>4, <1>5 DEF SweepGone, SweepYoung, SweepLocked

LEMMA SweepGood ==
    ASSUME ServiceInv, TypeInv', NEW p \in Exporter, Sweep(p) PROVE Good(p)'
<1>0. UNCHANGED <<source, clock, archives>>
  BY DEF Sweep
<1>1. Good(p)
  BY Typed
<1>2. Here(p)' <=> Here(p)
  BY SweepIs DEF Here
<1>3. Here(p) => staging'[run'[p].dir] = staging[run[p].dir]
  BY SweepIs, <1>2 DEF Here
<1>4. Written' = Written
  BY <1>0 DEF Written, Newest, Segments
<1>5. Timely(p)' /\ Below(p)'
  BY <1>0, <1>1, <1>2, <1>3, <1>4, SweepIs DEF Good, Timely, Below, Files
<1>6. StagedOK(p)'
  BY <1>1, <1>2, <1>3, SweepIs DEF Good, StagedOK, Current, Files, Copying, Staged
<1>7. run[p].pc \in Copying => Here(p)
  BY <1>1 DEF Good, StagedOK
<1>8. Promised(p)'
  <2>1. \A r \in run'[p].seen : \E s \in run'[p].members \cap SegmentId : Carried(p, s, r)'
    <3>1. run[p].pc \in {"name", "sweep"} \cup Copying
      BY SweepIs DEF Copying, Staged
    <3>2. run'[p].pc \in Copying => run[p].pc \in Copying /\ Files(p)' = Files(p)
      BY SweepIs, <1>3, <1>7 DEF Files
    <3> QED BY <1>0, <3>1, <3>2, SweepIs, CarriedOn
  <2> QED BY <2>1, SweepIs DEF Promised, Copying, Staged
<1> QED BY <1>5, <1>6, <1>8 DEF Good

\* What a new staging directory is.
LEMMA MakeStagingIs ==
    ASSUME ServiceInv, NEW p \in Exporter, MakeStaging(p)
    PROVE  \E d \in StagingName :
             /\ d \notin DOMAIN staging /\ \A q \in Exporter : run[q].dir # d
             /\ DOMAIN staging' = DOMAIN staging \cup {d}
             /\ \A e \in DOMAIN staging : staging'[e] = staging[e]
             /\ DOMAIN staging'[d].files = {} /\ staging'[d].mtime = clock
             /\ \A q \in Exporter \ {p} : run'[q] = run[q]
             /\ run[p].pc = "sweep" /\ run'[p].pc = "copy" /\ run'[p].dir = d
             /\ run'[p].members = run[p].members /\ run'[p].pending = run[p].members
             /\ run'[p].seen = run[p].seen /\ run'[p].label = run[p].label
<1>1. PICK d \in StagingName :
         /\ d \notin DOMAIN staging /\ \A q \in Exporter : run[q].dir # d
         /\ Step(p, "sweep", [run[p] EXCEPT !.pc = "copy", !.dir = d, !.todo = DOMAIN staging,
                                            !.pending = run[p].members])
         /\ staging' = Put(staging, d, [Empty EXCEPT !.mtime = clock])
  BY DEF MakeStaging
<1>2. run[p] \in RunState /\ run \in [Exporter -> RunState]
  BY Typed
<1> DEFINE c == [Empty EXCEPT !.mtime = clock]
<1>3. DOMAIN c.files = {} /\ c.mtime = clock
  BY DEF Empty
<1>4. staging' = Put(staging, d, c)
  BY <1>1
<1> HIDE DEF c
<1>5. /\ DOMAIN staging' = DOMAIN staging \cup {d}
      /\ \A e \in DOMAIN staging : staging'[e] = staging[e]
      /\ staging'[d] = c
  BY <1>1, <1>4 DEF Put
<1>6. /\ \A q \in Exporter \ {p} : run'[q] = run[q]
      /\ run[p].pc = "sweep" /\ run'[p].pc = "copy" /\ run'[p].dir = d
      /\ run'[p].members = run[p].members /\ run'[p].pending = run[p].members
      /\ run'[p].seen = run[p].seen /\ run'[p].label = run[p].label
  BY <1>1, <1>2 DEF Step, RunState
<1> QED BY <1>1, <1>3, <1>5, <1>6

LEMMA MakeStagingGood ==
    ASSUME ServiceInv, TypeInv', NEW p \in Exporter, MakeStaging(p) PROVE Good(p)'
<1>0. UNCHANGED <<source, clock, archives>>
  BY DEF MakeStaging
<1>1. Good(p) /\ clock \in Int /\ StaleAge \in Int /\ 0 <= StaleAge
  BY Typed, BoundsAssumption
<1>2. PICK d \in StagingName :
        /\ DOMAIN staging' = DOMAIN staging \cup {d}
        /\ DOMAIN staging'[d].files = {} /\ staging'[d].mtime = clock
        /\ run[p].pc = "sweep" /\ run'[p].pc = "copy" /\ run'[p].dir = d
        /\ run'[p].members = run[p].members /\ run'[p].pending = run[p].members
        /\ run'[p].seen = run[p].seen /\ run'[p].label = run[p].label
  BY MakeStagingIs
<1>3. Here(p)' /\ DOMAIN Files(p)' = {}
  BY <1>2 DEF Here, Files
<1>4. Timely(p)' /\ Below(p)'
  BY <1>0, <1>1, <1>2, <1>3 DEF Good, Timely, Below, Segments, Staged
<1>5. StagedOK(p)'
  BY <1>2, <1>3 DEF StagedOK
<1>6. Promised(p)'
  BY <1>0, <1>2, <1>3, CarriedOn DEF Promised
<1> QED BY <1>4, <1>5, <1>6 DEF Good

\* The member a run is at is one of those it has still to copy.
LEMMA CurrentIsPending ==
    ASSUME NEW p \in Exporter, run[p] \in RunState, run[p].pending # {}
    PROVE  Current(p) \in run[p].pending
<1>1. PICK m \in run[p].pending : \A n \in run[p].pending : m <= n
  BY FirstFile DEF RunState
<1> QED BY <1>1 DEF Current

\* A step that moves a run on, over the same staging directory.
LEMMA StagingGood ==
    ASSUME ServiceInv, NEW p \in Exporter, UNCHANGED <<source, clock, archives>>,
           run'[p].seen = run[p].seen, run'[p].members = run[p].members,
           run'[p].label = run[p].label, run'[p].dir = run[p].dir, run[p].pc \in Copying,
           Here(p), Here(p)', staging'[run[p].dir].files = staging[run[p].dir].files,
           staging'[run[p].dir].mtime \in {staging[run[p].dir].mtime, clock},
           run'[p].pc \in Copying, StagedOK(p)'
    PROVE  Good(p)'
<1>1. Good(p) /\ clock \in Int /\ StaleAge \in Int /\ 0 <= StaleAge
  BY Typed, BoundsAssumption
<1>2. Written' = Written /\ Files(p)' = Files(p)
  BY DEF Written, Newest, Segments, Files
<1>3. Below(p)'
  BY <1>1, <1>2 DEF Good, Below
<1>4. Timely(p)'
  BY <1>1 DEF Good, Timely, Copying
<1>5. Promised(p)'
  BY <1>2, CarriedOn DEF Promised, Copying, Staged
<1> QED BY <1>3, <1>4, <1>5 DEF Good

LEMMA CopyGood ==
    ASSUME ServiceInv, TypeInv', NEW p \in Exporter, Copy(p) PROVE Good(p)'
<1>0. UNCHANGED <<source, clock, archives>> /\ run[p].pc = "copy" /\ run[p].pending # {}
  BY DEF Copy, Step
<1>1. /\ Good(p) /\ run[p] \in RunState /\ run \in [Exporter -> RunState] /\ StagingOK
      /\ SourceOK /\ clock \in Int /\ StaleAge \in Int /\ 0 <= StaleAge
  BY Typed, BoundsAssumption
<1> DEFINE m == Current(p)
           d == run[p].dir
<1>2. CASE ~(m \in DOMAIN source /\ Here(p))
  BY <1>0, <1>2, FailGood DEF Copy, Step
<1>3. CASE m \in DOMAIN source /\ Here(p)
  <2>1. /\ run' = [run EXCEPT ![p] = [run[p] EXCEPT !.pc = "compare"]]
        /\ staging' = [staging EXCEPT ![d].files = Put(@, m, source[m]), ![d].mtime = clock]
    BY <1>3 DEF Copy, Step
  <2>2. d \in DOMAIN staging /\ m \in DOMAIN source /\ DOMAIN staging[d] = DOMAIN Empty
    BY <1>1, <1>3 DEF Here, StagingOK
  <2>3. /\ DOMAIN staging' = DOMAIN staging
        /\ staging'[d].files = Put(Files(p), m, source[m]) /\ staging'[d].mtime = clock
    <3> HIDE DEF m, d
    <3> DEFINE c == [staging[d] EXCEPT !.files = Put(@, m, source[m]), !.mtime = clock]
    <3>1. staging' = [staging EXCEPT ![d] = c]
      BY <2>1, <2>2
    <3>2. c.files = Put(staging[d].files, m, source[m]) /\ c.mtime = clock
      BY <2>2 DEF Empty
    <3> HIDE DEF c
    <3> QED BY <2>2, <3>1, <3>2 DEF Files, d
  <2>4. /\ run'[p].pc = "compare" /\ run'[p].seen = run[p].seen /\ run'[p].dir = d
        /\ run'[p].members = run[p].members /\ run'[p].label = run[p].label
        /\ run'[p].pending = run[p].pending
    BY <1>1, <2>1 DEF RunState
  <2>5. Here(p)' /\ Files(p)' = Put(Files(p), m, source[m])
    BY <2>2, <2>3, <2>4 DEF Here, Files
  <2>6. DOMAIN Files(p)' = DOMAIN Files(p) \cup {m}
    BY <2>5 DEF Put
  <2>7. \A f \in DOMAIN Files(p)' : Files(p)'[f] = IF f = m THEN source[m] ELSE Files(p)[f]
    BY <2>5 DEF Put
  <2>8. Timely(p)'
    BY <1>0, <1>1, <2>3, <2>4 DEF Good, Timely, Staged
  <2>9. Below(p)'
    <3>1. Written' = Written
      BY <1>0 DEF Written, Newest, Segments
    <3>2. SUFFICES ASSUME NEW s \in Segments(Files(p)') PROVE Files(p)'[s].last <= Written
      BY <3>1 DEF Below
    <3>3. CASE s = m
      <4>1. m \in Segments(source)
        BY <2>2, <3>2, <3>3 DEF Segments
      <4> QED BY <1>1, <2>7, <3>2, <3>3, <4>1, NoneFurther DEF ServiceInv, Segments
    <3>4. CASE s # m
      <4>1. s \in Segments(Files(p)) /\ Files(p)'[s] = Files(p)[s]
        BY <2>6, <2>7, <3>2, <3>4 DEF Segments
      <4> QED BY <1>1, <1>3, <4>1 DEF Good, Below
    <3> QED BY <3>3, <3>4
  <2>10. StagedOK(p)'
    <3>1. Current(p)' = m
      BY <2>4 DEF Current
    <3>2. run[p].members \ run[p].pending \subseteq DOMAIN Files(p)
      BY <1>0, <1>1 DEF Good, StagedOK, Copying, Staged
    <3> QED BY <2>4, <2>5, <2>6, <3>1, <3>2 DEF StagedOK
  <2>11. Promised(p)'
    <3>1. run[p].pc \in Copying
      BY <1>0 DEF Copying, Staged
    <3>2. \A s \in DOMAIN Files(p)' \cap SegmentId :
             \/ s \in DOMAIN source /\ Files(p)'[s] = source[s]
             \/ s \in DOMAIN Files(p) /\ Files(p)'[s] = Files(p)[s]
      BY <2>2, <2>6, <2>7
    <3> QED BY <1>0, <2>4, <3>1, <3>2, CarriedOn DEF Promised
  <2> QED BY <2>8, <2>9, <2>10, <2>11 DEF Good
<1> QED BY <1>2, <1>3

LEMMA CompareGood ==
    ASSUME ServiceInv, TypeInv', NEW p \in Exporter, Compare(p) PROVE Good(p)'
<1>0. UNCHANGED <<source, clock, staging, archives>> /\ run[p].pc = "compare"
  BY DEF Compare, Step
<1>1. Good(p) /\ run[p] \in RunState /\ run \in [Exporter -> RunState]
  BY Typed
<1> DEFINE m == Current(p)
<1>2. CASE ~(m \in DOMAIN source /\ Here(p))
  BY <1>0, <1>2, FailGood DEF Compare, Step
<1>3. CASE m \in DOMAIN source /\ Here(p)
  <2>1. run' = [run EXCEPT ![p] = [run[p] EXCEPT !.pc = "copy", !.pending = @ \ {m},
                        !.mismatch = @ \/ source[m] # staging[run[p].dir].files[m]]]
    BY <1>3 DEF Compare, Step
  <2>2. /\ run'[p].pc = "copy" /\ run'[p].seen = run[p].seen /\ run'[p].dir = run[p].dir
        /\ run'[p].members = run[p].members /\ run'[p].label = run[p].label
        /\ run'[p].pending = run[p].pending \ {m}
    BY <1>1, <2>1 DEF RunState
  <2>3. Here(p)' /\ Files(p)' = Files(p) /\ run[p].pc \in Copying
    BY <1>0, <1>3, <2>2 DEF Here, Files, Copying, Staged
  <2>4. StagedOK(p)'
    <3>1. m \in DOMAIN Files(p) /\ run[p].members \ run[p].pending \subseteq DOMAIN Files(p)
      BY <1>0, <1>1, <2>3 DEF Good, StagedOK
    <3> QED BY <2>2, <2>3, <3>1 DEF StagedOK
  <2>5. run'[p].pc \in Copying
    BY <2>2 DEF Copying, Staged
  <2> QED BY <1>0, <1>3, <2>2, <2>3, <2>4, <2>5, StagingGood
<1> QED BY <1>2, <1>3

LEMMA AttestGood ==
    ASSUME ServiceInv, TypeInv', NEW p \in Exporter, Attest(p) PROVE Good(p)'
<1>0. UNCHANGED <<source, clock, archives>> /\ run[p].pc = "copy" /\ run[p].pending = {}
  BY DEF Attest, Step
<1>1. Good(p) /\ run[p] \in RunState /\ run \in [Exporter -> RunState] /\ StagingOK
  BY Typed
<1> DEFINE d == run[p].dir
           good == ~run[p].mismatch /\ Here(p) /\ HasRecords(staging[d].files)
<1>2. CASE ~good
  BY <1>0, <1>2, FailGood DEF Attest, Step
<1>3. CASE good
  <2>1. /\ run' = [run EXCEPT ![p] = [run[p] EXCEPT !.pc = "verify"]]
        /\ staging' = [staging EXCEPT ![d].manifest = staging[d].files, ![d].attested = TRUE,
                                      ![d].index = IndexFile \in DOMAIN source,
                                      ![d].mtime = clock]
    BY <1>3 DEF Attest, Step
  <2>2. d \in DOMAIN staging /\ DOMAIN staging[d] = DOMAIN Empty
    BY <1>1, <1>3 DEF Here, StagingOK
  <2>3. /\ DOMAIN staging' = DOMAIN staging
        /\ staging'[d].files = staging[d].files /\ staging'[d].mtime = clock
    <3> HIDE DEF d
    <3> DEFINE c == [staging[d] EXCEPT !.manifest = staging[d].files, !.attested = TRUE,
                                       !.index = IndexFile \in DOMAIN source, !.mtime = clock]
    <3>1. staging' = [staging EXCEPT ![d] = c]
      BY <2>1, <2>2
    <3>2. c.files = staging[d].files /\ c.mtime = clock
      BY <2>2 DEF Empty
    <3> HIDE DEF c
    <3> QED BY <2>2, <3>1, <3>2
  <2>4. /\ run'[p].pc = "verify" /\ run'[p].seen = run[p].seen /\ run'[p].dir = d
        /\ run'[p].members = run[p].members /\ run'[p].label = run[p].label
        /\ run'[p].pending = run[p].pending
    BY <1>1, <2>1 DEF RunState
  <2>5. /\ Here(p)' /\ Files(p)' = Files(p)
        /\ run[p].pc \in Copying /\ run'[p].pc \in Copying
    BY <1>0, <2>2, <2>3, <2>4 DEF Here, Files, Copying, Staged
  <2>6. StagedOK(p)'
    BY <1>0, <1>1, <2>4, <2>5 DEF Good, StagedOK
  <2> QED BY <1>0, <1>3, <2>3, <2>4, <2>5, <2>6, StagingGood
<1> QED BY <1>2, <1>3

LEMMA VerifyCopyGood ==
    ASSUME ServiceInv, TypeInv', NEW p \in Exporter, VerifyCopy(p) PROVE Good(p)'
<1>0. UNCHANGED <<source, clock, staging, archives>> /\ run[p].pc = "verify"
  BY DEF VerifyCopy, Step
<1>1. Good(p) /\ run[p] \in RunState /\ run \in [Exporter -> RunState]
  BY Typed
<1>2. CASE ~(Here(p) /\ Verified(staging[run[p].dir]))
  BY <1>0, <1>2, FailGood DEF VerifyCopy, Step
<1>3. CASE Here(p) /\ Verified(staging[run[p].dir])
  <2>1. run' = [run EXCEPT ![p] = [run[p] EXCEPT !.pc = "rename"]]
    BY <1>3 DEF VerifyCopy, Step
  <2>2. /\ run'[p].pc = "rename" /\ run'[p].seen = run[p].seen /\ run'[p].dir = run[p].dir
        /\ run'[p].members = run[p].members /\ run'[p].label = run[p].label
        /\ run'[p].pending = run[p].pending
    BY <1>1, <2>1 DEF RunState
  <2>3. /\ Here(p)' /\ Files(p)' = Files(p)
        /\ run[p].pc \in Copying /\ run'[p].pc \in Copying
    BY <1>0, <1>3, <2>2 DEF Here, Files, Copying, Staged
  <2>4. StagedOK(p)'
    BY <1>0, <1>1, <2>2, <2>3 DEF Good, StagedOK
  <2> QED BY <1>0, <1>3, <2>2, <2>3, <2>4, StagingGood
<1> QED BY <1>2, <1>3

\* A verified directory that holds the members holds what they vouch for.
LEMMA Vouched ==
    ASSUME ServiceInv, NEW p \in Exporter, NEW d, IsDirectory(d), ChainOK(d),
           run[p].pc \in {"sweep"} \cup Copying,
           \A r \in run[p].seen : \A s \in run[p].members \cap SegmentId :
              Carried(p, s, r) => s \in DOMAIN d /\ r <= d[s].last
    PROVE  run[p].seen \subseteq Records(d)
<1>1. SUFFICES ASSUME NEW r \in run[p].seen PROVE r \in Records(d)
  OBVIOUS
<1>2. PICK s \in run[p].members \cap SegmentId : Carried(p, s, r)
  BY Typed DEF Good, Promised
<1>3. s \in Segments(d) /\ r <= d[s].last /\ d[s] \in SegmentContent
  BY <1>2, SegmentType DEF Segments
<1>4. r \in 1..MaxRecord
  BY Typed DEF RunState
<1>5. r \in 1..d[s].last
  BY <1>3, <1>4, DirectoryAssumption DEF SegmentContent
<1> QED BY <1>3, <1>5, ChainReaches

\* What the archive of the run's name holds, when the retry finds it the same.
LEMMA SameCovers ==
    ASSUME ServiceInv, NEW p \in Exporter, run[p].pc \in {"sweep", "rename"},
           run[p].label \in DOMAIN archives, SameEvidence(p)
    PROVE  run[p].seen \subseteq Records(archives[run[p].label].files)
<1> DEFINE d == archives[run[p].label].files
<1>1. ChainOK(d) /\ IsDirectory(d)
  BY DEF ServiceInv, RestoreInv, ArchivesRestorable, Verified, TypeInv, TypeOK, ArchivesOK
<1>2. DOMAIN d = run[p].members /\ \A m \in run[p].members : m \in DOMAIN source /\ source[m] = d[m]
  BY DEF SameEvidence
<1>3. \A r \in run[p].seen : \A s \in run[p].members \cap SegmentId :
         Carried(p, s, r) => s \in DOMAIN d /\ r <= d[s].last
  <2> HIDE DEF d
  <2> QED BY <1>2 DEF Carried
<1>4. run[p].pc \in {"sweep"} \cup Copying
  BY DEF Copying, Staged
<1> HIDE DEF d
<1>5. run[p].seen \subseteq Records(d)
  BY <1>1, <1>3, <1>4, Vouched
<1> QED BY <1>5 DEF d

\* A run that has its archive goes to its end.
LEMMA DoneGood ==
    ASSUME ServiceInv, NEW p \in Exporter, UNCHANGED <<source, clock>>,
           run'[p].pc = "cleanup", run'[p].seen = run[p].seen,
           run'[p].label = run[p].label, run'[p].dir = run[p].dir,
           \/ staging' = staging
           \/ run[p].dir \notin DOMAIN staging',
           run[p].label \in DOMAIN archives',
           run[p].seen \subseteq Records(archives'[run[p].label].files)
    PROVE  Good(p)'
<1>1. Good(p)
  BY Typed
<1>2. Written' = Written
  BY DEF Written, Newest, Segments
<1>3. Timely(p)' /\ Below(p)'
  BY <1>1, <1>2 DEF Good, Timely, Below, Here, Files, Staged
<1>4. StagedOK(p)' /\ Promised(p)'
  BY DEF StagedOK, Promised, Copying, Staged
<1> QED BY <1>3, <1>4 DEF Good

LEMMA PublishCovers ==
    ASSUME ServiceInv, NEW p \in Exporter, Publish(p)
    PROVE  /\ run[p].seen \subseteq Records(Files(p)) /\ IsDirectory(Files(p)) /\ ChainOK(Files(p))
           /\ archives' = Put(archives, run[p].label, Final(staging[run[p].dir]))
<1>1. run[p].pc = "rename" /\ Here(p) /\ Verified(staging[run[p].dir])
  BY DEF Publish, Step, ServiceInv, RestoreInv, Ready
<1>2. IsDirectory(Files(p)) /\ ChainOK(Files(p))
  BY <1>1, CopyReaches DEF Verified, Files
<1>3. run[p].pending = {} /\ run[p].members \ run[p].pending \subseteq DOMAIN Files(p)
  BY <1>1, Typed DEF Good, StagedOK, Copying, Staged
<1>4. run[p].pc \in Copying
  BY <1>1 DEF Copying, Staged
<1>5. run[p].seen \subseteq Records(Files(p))
  BY <1>2, <1>3, <1>4, Vouched DEF Carried
<1> QED BY <1>2, <1>5 DEF Publish

LEMMA PublishGood ==
    ASSUME ServiceInv, TypeInv', NEW p \in Exporter, Publish(p) PROVE Good(p)'
<1>1. UNCHANGED <<source, clock>> /\ run[p] \in RunState /\ run \in [Exporter -> RunState]
  BY Typed DEF Publish
<1>2. /\ run'[p].pc = "cleanup" /\ run'[p].seen = run[p].seen
      /\ run'[p].label = run[p].label /\ run'[p].dir = run[p].dir
  BY <1>1 DEF Publish, Step, RunState
<1>3. run[p].dir \notin DOMAIN staging'
  BY DEF Publish, Keep
<1>4. run[p].label \in DOMAIN archives' /\ archives'[run[p].label].files = Files(p)
  <2> DEFINE c == Final(staging[run[p].dir])
  <2>1. c.files = Files(p)
    BY DEF Final, Files
  <2>2. archives' = Put(archives, run[p].label, c)
    BY PublishCovers
  <2> HIDE DEF c
  <2> QED BY <2>1, <2>2 DEF Put
<1> QED BY <1>1, <1>2, <1>3, <1>4, PublishCovers, DoneGood

LEMMA SettlesGood ==
    ASSUME ServiceInv, TypeInv', NEW p \in Exporter, RenameRaises(p) \/ Redo(p) PROVE Good(p)'
<1>0. UNCHANGED <<source, clock, staging, archives>> /\ run[p].pc \in {"sweep", "rename"}
  BY DEF RenameRaises, Redo, Step
<1>1. run[p] \in RunState /\ run \in [Exporter -> RunState]
  BY Typed
<1>2. CASE run' = [run EXCEPT ![p] = Failing(p, "cleanup")]
  BY <1>0, <1>2, FailGood
<1>3. CASE /\ run' = [run EXCEPT ![p] = [run[p] EXCEPT !.pc = "cleanup"]]
           /\ run[p].label \in DOMAIN archives /\ SameEvidence(p)
  <2>1. /\ run'[p].pc = "cleanup" /\ run'[p].seen = run[p].seen
        /\ run'[p].label = run[p].label /\ run'[p].dir = run[p].dir
    BY <1>1, <1>3 DEF RunState
  <2> QED BY <1>0, <1>3, <2>1, SameCovers, DoneGood
<1>4. CASE RenameRaises(p)
  BY <1>2, <1>3, <1>4 DEF RenameRaises, Step
<1>5. CASE Redo(p)
  BY <1>2, <1>3, <1>5 DEF Redo, Step
<1> QED BY <1>4, <1>5

\* A run whose cleanup is over, whatever became of its staging directory.
LEMMA VerdictGood ==
    ASSUME ServiceInv, TypeInv', NEW p \in Exporter, UNCHANGED <<source, clock, archives>>,
           run[p].pc = "cleanup", run' = [run EXCEPT ![p] = Verdict(p)]
    PROVE  Good(p)'
<1>1. /\ Good(p) /\ run[p] \in RunState /\ run \in [Exporter -> RunState]
      /\ clock \in Int /\ 0 <= clock
  BY Typed
<1>2. run'[p] = Verdict(p) /\ run'[p].dir = NoName
  BY <1>1, VerdictIs
<1>3. CASE run[p].failed \/ run[p].reported # {}
  <2>1. run'[p].pc = "failed" /\ run'[p].label = 0
    BY <1>1, <1>2, <1>3, VerdictIs
  <2> QED BY <1>1, <1>2, <2>1, EndGood
<1>4. CASE ~(run[p].failed \/ run[p].reported # {})
  <2>2. /\ run'[p].pc = "ok" /\ run'[p].label = run[p].label /\ run'[p].seen = run[p].seen
    BY <1>1, <1>2, <1>4, VerdictIs
  <2>3. ~Here(p)'
    BY <1>2, BoundsAssumption DEF TypeInv, TypeOK, StagingOK, Here
  <2>4. Timely(p)' /\ Below(p)'
    BY <1>1, <1>2, <2>2, <2>3 DEF Good, Timely, Below
  <2>5. StagedOK(p)' /\ Promised(p)'
    BY <1>1, <1>4, <2>2 DEF Good, StagedOK, Promised, Copying, Staged
  <2> QED BY <2>4, <2>5 DEF Good
<1> QED BY <1>3, <1>4

LEMMA CleanupGood ==
    ASSUME ServiceInv, TypeInv', NEW p \in Exporter, Cleanup(p) PROVE Good(p)'
  BY VerdictGood DEF Cleanup, Step

LEMMA FaultGood ==
    ASSUME ServiceInv, TypeInv', NEW p \in Exporter, FaultStep(p) PROVE Good(p)'
<1>0. /\ run[p] \in RunState /\ run \in [Exporter -> RunState] /\ StagingOK
      /\ clock \in Instant /\ clock \in Int /\ 0 <= clock
  BY Typed DEF ServiceInv, TypeInv, TypeOK
<1>1. UNCHANGED <<source, clock, archives>>
  BY <1>0, FaultIs
<1>2. CASE run' = [run EXCEPT ![p] = Failing(p, "cleanup")] /\ UNCHANGED staging
  BY <1>1, <1>2, FailGood
<1>3. CASE run' = [run EXCEPT ![p] = Verdict(p)] /\ run[p].pc = "cleanup"
  BY <1>1, <1>3, VerdictGood
<1>4. CASE run' = [run EXCEPT ![p] = Refused] \/ run' = [run EXCEPT ![p] = Fresh]
  <2>1. run'[p] = Refused \/ run'[p] = Fresh
    BY <1>0, <1>4
  <2>2. run'[p].dir = NoName /\ run'[p].pc \in {"idle", "failed"} /\ run'[p].label = 0
    BY <2>1 DEF Refused, Fresh
  <2> QED BY <1>0, <1>1, <2>2, EndGood
<1> QED BY <1>0, <1>2, <1>3, <1>4, FaultIs

LEMMA OwnGood ==
    ASSUME ServiceInv, TypeInv', NEW p \in Exporter, Export(p) PROVE Good(p)'
  BY StartGood, ListGood, NameGood, SweepGood, MakeStagingGood, CopyGood, CompareGood,
     AttestGood, VerifyCopyGood, PublishGood, SettlesGood, CleanupGood, FaultGood
     DEF Export, Work, FaultStep

\* No step of p touches the run or the staging directory of another.
LEMMA OthersKept ==
    ASSUME ServiceInv, NEW p \in Exporter, Export(p), NEW q \in Exporter, q # p
    PROVE  /\ run'[q] = run[q] /\ UNCHANGED <<source, clock>>
           /\ Here(q) => run[q].dir \in DOMAIN staging' /\ staging'[run[q].dir] = staging[run[q].dir]
           /\ run[q].dir \in DOMAIN staging' => Here(q)
<1>0. /\ run[p] \in RunState /\ run \in [Exporter -> RunState]
      /\ NoName \notin DOMAIN staging /\ StagingOK /\ clock \in Instant
  BY Typed DEF ServiceInv, TypeInv, TypeOK
<1>1. Here(q) => run[q].dir # run[p].dir
  BY <1>0 DEF ServiceInv, RestoreInv, Owned, Here
<1>2. CASE Sweep(p)
  BY <1>2, SweepIs DEF Here, Sweep
<1>3. CASE MakeStaging(p)
  <2>1. PICK d \in StagingName :
             /\ \A r \in Exporter : run[r].dir # d
             /\ DOMAIN staging' = DOMAIN staging \cup {d}
             /\ \A e \in DOMAIN staging : staging'[e] = staging[e]
             /\ \A r \in Exporter \ {p} : run'[r] = run[r]
    BY <1>3, MakeStagingIs
  <2> QED BY <1>3, <2>1 DEF MakeStaging, Here
<1>5. CASE FaultStep(p)
  BY <1>0, <1>1, <1>5, FaultIs DEF Here
<1>4. CASE ~Sweep(p) /\ ~MakeStaging(p) /\ ~FaultStep(p)
  <2>1. \E to : run' = [run EXCEPT ![p] = to]
    BY <1>4 DEF Export, Work, Start, List, Name, Redo, Copy, Compare, Attest, VerifyCopy,
                Publish, RenameRaises, Cleanup, FaultStep, Step
  <2>2. run'[q] = run[q]
    BY <1>0, <2>1
  <2>3. UNCHANGED <<source, clock>>
    BY <1>4 DEF Export, Work, Start, List, Name, Redo, Copy, Compare, Attest, VerifyCopy,
                Publish, RenameRaises, Cleanup, FaultStep
  <2>4. /\ DOMAIN staging' \subseteq DOMAIN staging
        /\ \A d \in DOMAIN staging : d # run[p].dir => d \in DOMAIN staging' /\ staging'[d] = staging[d]
    BY <1>4 DEF Export, Work, Start, List, Name, Redo, Copy, Compare, Attest, VerifyCopy,
                Publish, RenameRaises, Cleanup, FaultStep, Keep
  <2> QED BY <1>1, <2>2, <2>3, <2>4 DEF Here
<1> QED BY <1>2, <1>3, <1>4, <1>5

LEMMA StepKeepsService == ServiceInv /\ [Next]_vars => ServiceInv'
<1> SUFFICES ASSUME ServiceInv, [Next]_vars PROVE ServiceInv'
  OBVIOUS
<1>1. TypeInv' /\ RestoreInv'
  BY StepKeepsTypes, StepKeepsRestorable DEF ServiceInv
<1>2. CASE UNCHANGED vars
  <2>1. SourceGrows'
    BY <1>2 DEF ServiceInv, SourceGrows, Segments, vars
  <2>2. ASSUME NEW q \in Exporter PROVE Good(q)'
    BY <1>2, OthersGood DEF vars, Here
  <2> QED BY <1>1, <2>1, <2>2 DEF ServiceInv
<1>3. CASE Server
  BY <1>1, <1>3, ServerStreams, ServerGood DEF ServiceInv, Streams
<1>4. CASE Tick
  <2>1. SourceGrows'
    BY <1>4 DEF ServiceInv, SourceGrows, Segments, Tick
  <2> QED BY <1>1, <1>4, <2>1, TickGood DEF ServiceInv
<1>5. ASSUME NEW p \in Exporter, Export(p) PROVE ServiceInv'
  <2>1. ASSUME NEW q \in Exporter, q # p PROVE Good(q)'
    BY <1>5, <2>1, OthersKept, OthersGood, StepKeepsArchives
  <2>2. Good(p)'
    BY <1>1, <1>5, OwnGood
  <2>3. UNCHANGED source
    BY <1>5 DEF Export, Work, Start, List, Name, Sweep, Redo, MakeStaging, Copy, Compare, Attest,
                VerifyCopy, Publish, RenameRaises, Cleanup, CleanupIgnored, SweepRaises, IOError, Kill
  <2>4. SourceGrows'
    BY <2>3 DEF ServiceInv, SourceGrows, Segments
  <2> QED BY <1>1, <2>1, <2>2, <2>4 DEF ServiceInv
<1> QED BY <1>2, <1>3, <1>4, <1>5 DEF Next

\* Exit code 0 means covered, for any number of exports, whatever the server, the
\* retention, other exports, I/O errors and kills do in between.
THEOREM SuccessIsCovered == Spec => []SuccessCovers
<1>1. ServiceInv => SuccessCovers
  BY Typed DEF SuccessCovers, ServiceInv, RestoreInv, ArchivesRestorable, Good, Promised
<1> QED BY <1>1, InitService, StepKeepsService, PTL DEF Spec

(***************************************************************************)
(* Leftovers.  Only a kill, a sweep that raises before the try, and a      *)
(* removal that came to nothing leave one.                                 *)
(***************************************************************************)
Leftover == {d \in DOMAIN staging : ~Live(d)}
LeftoversCounted == IsFiniteSet(DOMAIN staging) /\ Cardinality(Leftover) <= strays

LEMMA LeftoverType ==
    ASSUME TypeInv, LeftoversCounted
    PROVE  IsFiniteSet(Leftover) /\ Cardinality(Leftover) \in Nat /\ strays \in Nat
<1>1. Leftover \in SUBSET DOMAIN staging
  BY DEF Leftover
<1>2. strays \in Nat
  BY BoundsAssumption DEF TypeInv, TypeOK
<1> QED BY <1>1, <1>2, FS_Subset, FS_CardinalityType DEF LeftoversCounted

\* What a step of p owes the count: p stays on its directory, or the directory goes.
LEMMA NoneLeft ==
    ASSUME TypeInv, LeftoversCounted, NEW p \in Exporter,
           \A q \in Exporter : q # p => run'[q] = run[q],
           UNCHANGED strays,
           run[p].pc \in Staged =>
               \/ run'[p].pc \in Staged /\ run'[p].dir = run[p].dir
               \/ run[p].dir \notin DOMAIN staging',
           \/ DOMAIN staging' \subseteq DOMAIN staging
           \/ /\ run'[p].pc \in Staged
              /\ DOMAIN staging' \subseteq DOMAIN staging \cup {run'[p].dir}
    PROVE  LeftoversCounted'
<1>1. IsFiniteSet(DOMAIN staging')
  <2>1. IsFiniteSet(DOMAIN staging \cup {run'[p].dir})
    BY FS_AddElement DEF LeftoversCounted
  <2>2. DOMAIN staging' \in SUBSET (DOMAIN staging \cup {run'[p].dir})
    OBVIOUS
  <2> QED BY <2>1, <2>2, FS_Subset
<1>2. Leftover' \subseteq Leftover
  <2>1. SUFFICES ASSUME NEW d \in DOMAIN staging', ~Live(d)'
        PROVE  d \in DOMAIN staging /\ ~Live(d)
    BY DEF Leftover
  <2>2. d \in DOMAIN staging
    BY <2>1 DEF Live
  <2>3. ASSUME NEW q \in Exporter, run[q].pc \in Staged, run[q].dir = d PROVE FALSE
    <3>1. CASE q = p
      BY <2>1, <2>3, <3>1 DEF Live
    <3>2. CASE q # p
      BY <2>1, <2>3, <3>2 DEF Live
    <3> QED BY <3>1, <3>2
  <2> QED BY <2>2, <2>3 DEF Live
<1>3. Cardinality(Leftover') <= strays
  BY <1>2, LeftoverType, NoneMore DEF LeftoversCounted
<1>4. Cardinality(Leftover') \in Nat
  BY <1>2, LeftoverType, NoneMore, FS_CardinalityType DEF LeftoversCounted
<1> QED BY <1>1, <1>3, <1>4, LeftoverType DEF LeftoversCounted

LEMMA FaultLeavesOne ==
    ASSUME TypeInv, LeftoversCounted, NEW p \in Exporter, FaultStep(p)
    PROVE  LeftoversCounted'
<1>0. run \in [Exporter -> RunState] /\ run[p] \in RunState /\ StagingOK /\ clock \in Instant
  BY RunType DEF TypeInv, TypeOK
<1>1. DOMAIN staging' = DOMAIN staging /\ \A q \in Exporter : q # p => run'[q] = run[q]
  BY <1>0, FaultIs
<1>2. CASE strays' = strays + 1
  <2>1. Leftover' \subseteq Leftover \cup {run[p].dir}
    BY <1>1 DEF Leftover, Live
  <2>2. Cardinality(Leftover') <= strays + 1
    BY <2>1, LeftoverType, OneMore DEF LeftoversCounted
  <2> QED BY <1>1, <1>2, <2>2 DEF LeftoversCounted
<1>3. CASE run' = [run EXCEPT ![p] = Failing(p, "cleanup")] /\ UNCHANGED strays
  <2>1. run'[p].pc \in Staged /\ run'[p].dir = run[p].dir
    BY <1>0, <1>3 DEF Failing, RunState, Staged
  <2> QED BY <1>1, <1>3, <2>1, NoneLeft
<1>4. CASE UNCHANGED strays /\ (run[p].pc \notin Staged \/ ~Here(p))
  BY <1>1, <1>4, NoneLeft DEF Here
<1> QED BY <1>0, <1>2, <1>3, <1>4, FaultIs

LEMMA StepCounts == ServiceInv /\ LeftoversCounted /\ [Next]_vars => LeftoversCounted'
<1> SUFFICES ASSUME ServiceInv, LeftoversCounted, [Next]_vars PROVE LeftoversCounted'
  OBVIOUS
<1>0. TypeInv /\ run \in [Exporter -> RunState] /\ \A p \in Exporter : run[p] \in RunState
  BY DEF ServiceInv, TypeInv, TypeOK
<1>1. CASE UNCHANGED <<staging, run, faults, strays>>
  BY <1>1 DEF LeftoversCounted, Leftover, Live
<1>2. CASE UNCHANGED vars \/ Server \/ Tick
  BY <1>1, <1>2 DEF vars, Server, Tick
<1>3. ASSUME NEW p \in Exporter, Export(p) PROVE LeftoversCounted'
  <2>0. \A q \in Exporter : q # p => run'[q] = run[q]
    BY <1>3, OthersKept
  <2>1. CASE Start(p) \/ List(p) \/ Name(p)
    <3>1. UNCHANGED <<staging, strays>> /\ run[p].pc \notin Staged
      BY <2>1 DEF Start, List, Name, Step, Resting, Staged
    <3> QED BY <1>0, <2>0, <3>1, NoneLeft
  <2>2. CASE Sweep(p)
    <3>1. /\ DOMAIN staging' \subseteq DOMAIN staging /\ UNCHANGED strays
          /\ run'[p].pc = run[p].pc /\ run'[p].dir = run[p].dir
      BY <2>2, SweepIs DEF Sweep
    <3> QED BY <1>0, <2>0, <3>1, NoneLeft
  <2>3. CASE MakeStaging(p)
    <3>1. /\ run[p].pc = "sweep" /\ UNCHANGED strays
          /\ run'[p].pc = "copy" /\ DOMAIN staging' \subseteq DOMAIN staging \cup {run'[p].dir}
      BY <2>3, MakeStagingIs DEF MakeStaging
    <3> QED BY <1>0, <2>0, <3>1, NoneLeft DEF Staged
  <2>4. CASE \/ Copy(p) \/ Compare(p) \/ Attest(p) \/ VerifyCopy(p)
             \/ RenameRaises(p) \/ Redo(p)
    <3>1. DOMAIN staging' = DOMAIN staging /\ UNCHANGED strays
      BY <2>4 DEF Copy, Compare, Attest, VerifyCopy, RenameRaises, Redo
    <3>2. run'[p].dir = run[p].dir /\ run'[p].pc \in Staged
      <4>1. CASE run' = [run EXCEPT ![p] = Failing(p, "cleanup")]
        BY <1>0, <4>1 DEF Failing, RunState, Staged
      <4>2. ASSUME NEW next \in {"compare", "verify", "rename", "cleanup"},
                   run' = [run EXCEPT ![p] = [run[p] EXCEPT !.pc = next]]
            PROVE  run'[p].dir = run[p].dir /\ run'[p].pc \in Staged
        BY <1>0, <4>2 DEF RunState, Staged
      <4>3. CASE Compare(p) /\ run' # [run EXCEPT ![p] = Failing(p, "cleanup")]
        <5>1. run' = [run EXCEPT ![p] = [run[p] EXCEPT !.pc = "copy", !.pending = @ \ {Current(p)},
                        !.mismatch = @ \/ source[Current(p)] # staging[run[p].dir].files[Current(p)]]]
          BY <4>3 DEF Compare, Step
        <5> QED BY <1>0, <5>1 DEF RunState, Staged
      <4>4. CASE Copy(p) \/ Attest(p) \/ VerifyCopy(p) \/ RenameRaises(p) \/ Redo(p)
        <5>1. \/ run' = [run EXCEPT ![p] = Failing(p, "cleanup")]
              \/ run' = [run EXCEPT ![p] = [run[p] EXCEPT !.pc = "compare"]]
              \/ run' = [run EXCEPT ![p] = [run[p] EXCEPT !.pc = "verify"]]
              \/ run' = [run EXCEPT ![p] = [run[p] EXCEPT !.pc = "rename"]]
              \/ run' = [run EXCEPT ![p] = [run[p] EXCEPT !.pc = "cleanup"]]
          BY <4>4 DEF Copy, Attest, VerifyCopy, RenameRaises, Redo, Step
        <5> QED BY <4>1, <4>2, <5>1
      <4> QED BY <2>4, <4>1, <4>3, <4>4
    <3> QED BY <1>0, <2>0, <3>1, <3>2, NoneLeft
  <2>5. CASE Publish(p) \/ Cleanup(p)
    <3>1. DOMAIN staging' = DOMAIN staging \ {run[p].dir} /\ UNCHANGED strays
      BY <2>5 DEF Publish, Cleanup, Keep
    <3> QED BY <1>0, <2>0, <3>1, NoneLeft
  <2>6. CASE FaultStep(p)
    BY <1>0, <2>6, FaultLeavesOne
  <2> QED BY <1>3, <2>1, <2>2, <2>3, <2>4, <2>5, <2>6 DEF Export, Work, FaultStep
<1> QED BY <1>2, <1>3 DEF Next

\* No sweep takes the staging directory of a live run or a file out of it, and there
\* are never more leftovers than runs that were killed over one, whose sweep raised
\* before the try, or whose removal came to nothing: no other end leaves one.
THEOREM StagingIsSound == Spec => []StagingSound
<1>1. Init => LeftoversCounted
  <2>1. ASSUME Init PROVE DOMAIN staging = {} /\ Leftover = {} /\ strays = 0
    BY <2>1 DEF Init, Leftover
  <2> QED BY <2>1, FS_EmptySet DEF LeftoversCounted
<1>2. ServiceInv => LiveStagingKept
  BY Typed DEF LiveStagingKept, Good, StagedOK, Copying, Files
<1>3. ServiceInv /\ LeftoversCounted => StagingSound
  BY <1>2 DEF StagingSound, NothingLeftBehind, LeftoversCounted, Leftover
<1> QED BY <1>1, <1>3, InitService, StepKeepsService, StepCounts, PTL DEF Spec

(***************************************************************************)
(* The service.  A preflight that passes asks for what is written, the     *)
(* rename stores it, the exit code confirms or refuses; a finished record  *)
(* is a write, and everything else the service does not see.               *)
(***************************************************************************)
Status(p) == IF run[p].pc \in Resting THEN run[p].pc ELSE "asked"
Request == [p \in Exporter |-> [status |-> Status(p), need |-> run[p].seen]]
Stored == [a \in DOMAIN archives |-> Records(archives[a].files)]

LEMMA InitImplements == Init => Service!Init
<1> SUFFICES ASSUME Init PROVE Service!Init
  OBVIOUS
<1>1. Written = 1
  <2>1. 1 \in SegmentId /\ Segments(source) = {1} /\ source[1].last = 1
    BY DirectoryAssumption DEF Init, Segments, SegmentId
  <2>2. Newest(1)
    BY <2>1 DEF Newest
  <2>3. SourceOK
    BY InitType DEF TypeInv, TypeOK
  <2> QED BY <2>1, <2>2, <2>3, WrittenIs
<1>2. Stored = [s \in {} |-> 0]
  BY DEF Init, Stored
<1>3. Request = [c \in Exporter |-> [status |-> "idle", need |-> {}]]
  BY DEF Init, Request, Status, Fresh, Resting
<1> QED BY <1>1, <1>2, <1>3 DEF Service!Init, Written, Stored, Request, Status

\* What the service sees of a step of p.
LEMMA RequestMoves ==
    ASSUME NEW p \in Exporter, \A q \in Exporter : q # p => run'[q] = run[q]
    PROVE  /\ Request' = [Request EXCEPT ![p] = [status |-> Status(p)', need |-> run'[p].seen]]
           /\ (Status(p)' = Status(p) /\ run'[p].seen = run[p].seen) => Request' = Request
           /\ Request[p].status = Status(p) /\ Request[p].need = run[p].seen
<1> DEFINE new == [status |-> Status(p)', need |-> run'[p].seen]
<1>1. \A q \in Exporter : Request'[q] = IF q = p THEN new ELSE Request[q]
  BY DEF Request, Status
<1>2. Request[p] = [status |-> Status(p), need |-> run[p].seen]
  BY DEF Request
<1>3. Request' = [q \in Exporter |-> Request'[q]] /\ Request = [q \in Exporter |-> Request[q]]
  BY DEF Request
<1>4. (Status(p)' = Status(p) /\ run'[p].seen = run[p].seen) => new = Request[p]
  BY <1>2
<1> HIDE DEF new
<1>5. Request' = [Request EXCEPT ![p] = new]
  BY <1>1, <1>3
<1>6. (Status(p)' = Status(p) /\ run'[p].seen = run[p].seen) => Request' = Request
  BY <1>1, <1>3, <1>4
<1> QED BY <1>2, <1>5, <1>6 DEF new

LEMMA ServiceStutter ==
    ASSUME UNCHANGED <<Written, Stored, Request>>
    PROVE  UNCHANGED Service!vars
  BY DEF Service!vars, Written, Stored, Request, Status

LEMMA ServiceWrite ==
    ASSUME Written \in Nat, Written' \in Nat, Written' > Written, UNCHANGED <<Stored, Request>>
    PROVE  Service!Next
  BY DEF Service!Next, Service!Write, Written, Stored, Request, Status

LEMMA ServiceAsk ==
    ASSUME NEW p \in Exporter, Request[p].status # "asked", UNCHANGED <<Written, Stored>>,
           Request' = [Request EXCEPT ![p] = [status |-> "asked", need |-> 1..Written]]
    PROVE  Service!Next
  BY DEF Service!Next, Service!Ask, Written, Stored, Request, Status

LEMMA ServiceStore ==
    ASSUME NEW p \in Exporter, Request[p].status = "asked", UNCHANGED <<Written, Request>>,
           NEW s \in Instant \ DOMAIN Stored, NEW n \in 1..Written, Request[p].need \subseteq 1..n,
           Stored' = [t \in DOMAIN Stored \cup {s} |-> IF t = s THEN 1..n ELSE Stored[t]]
    PROVE  Service!Next
<1>1. \E t \in Instant \ DOMAIN Stored, k \in 1..Written :
         /\ Request[p].need \subseteq 1..k
         /\ Stored' = [u \in DOMAIN Stored \cup {t} |-> IF u = t THEN 1..k ELSE Stored[u]]
  OBVIOUS
<1>2. Service!Store(p)
  BY <1>1 DEF Service!Store, Written, Stored, Request, Status
<1> QED BY <1>2 DEF Service!Next

LEMMA ServiceConfirm ==
    ASSUME NEW p \in Exporter, Request[p].status = "asked", UNCHANGED <<Written, Stored>>,
           NEW s \in DOMAIN Stored, Request[p].need \subseteq Stored[s],
           Request' = [Request EXCEPT ![p].status = "ok"]
    PROVE  Service!Next
  BY DEF Service!Next, Service!Confirm, Written, Stored, Request, Status

LEMMA ServiceRefuse ==
    ASSUME NEW p \in Exporter, UNCHANGED <<Written, Stored>>,
           NEW need \in {{}, Request[p].need},
           \/ Request' = [Request EXCEPT ![p] = [status |-> "failed", need |-> need]]
           \/ Request' = [Request EXCEPT ![p] = [status |-> "idle", need |-> {}]]
    PROVE  Service!Next
  BY DEF Service!Next, Service!Refuse, Written, Stored, Request, Status

\* A step that only a run takes part in, seen by the service.
LEMMA QuietRun ==
    ASSUME ServiceInv, NEW p \in Exporter, \A q \in Exporter : q # p => run'[q] = run[q],
           UNCHANGED <<source, archives>>, Status(p)' = Status(p), run'[p].seen = run[p].seen
    PROVE  UNCHANGED Service!vars
<1>1. UNCHANGED <<Written, Stored>>
  BY DEF Written, Newest, Segments, Stored
<1> QED BY <1>1, RequestMoves, ServiceStutter

LEMMA RefusedRun ==
    ASSUME ServiceInv, NEW p \in Exporter, \A q \in Exporter : q # p => run'[q] = run[q],
           UNCHANGED <<source, archives>>, run'[p].pc \in {"idle", "failed"}, run'[p].seen = {}
    PROVE  Service!Next
<1>1. UNCHANGED <<Written, Stored>>
  BY DEF Written, Newest, Segments, Stored
<1>2. Status(p)' = run'[p].pc
  BY DEF Status, Resting
<1>3. Request' = [Request EXCEPT ![p] = [status |-> run'[p].pc, need |-> {}]]
  BY <1>2, RequestMoves
<1> QED BY <1>1, <1>3, ServiceRefuse

\* What is served when the chain verifies is the stream so far.
LEMMA ChainIsWritten ==
    ASSUME ServiceInv, ChainOK(source)
    PROVE  Records(source) = 1..Written
<1>1. SourceOK /\ SourceGrows
  BY DEF ServiceInv, TypeInv, TypeOK
<1>2. PICK s \in Segments(source) : /\ Records(source) = 1..source[s].last
                                    /\ \A t \in Segments(source) : source[t].last <= source[s].last
  BY <1>1, ChainIsStream DEF SourceOK
<1>3. PICK n \in SegmentId : Newest(n) /\ Written = source[n].last
  BY <1>1, NewestIs
<1>4. source[s].last <= Written /\ Written <= source[s].last
  BY <1>1, <1>2, <1>3, NoneFurther DEF Newest
<1>5. source[s].last \in Int /\ Written \in Int
  BY <1>1, <1>3, LastType DEF SourceOK, Newest
<1> QED BY <1>2, <1>4, <1>5

LEMMA StartImplements ==
    ASSUME ServiceInv, NEW p \in Exporter, Start(p) PROVE Service!Next
<1>0. UNCHANGED <<source, archives>> /\ run[p].pc \in Resting /\ run \in [Exporter -> RunState]
  BY Typed DEF Start
<1>1. CASE ~ChainOK(source)
  <2>1. run' = [run EXCEPT ![p] = Refused]
    BY <1>1 DEF Start
  <2>2. run'[p].pc = "failed" /\ run'[p].seen = {} /\ \A q \in Exporter : q # p => run'[q] = run[q]
    BY <1>0, <2>1 DEF Refused, Fresh
  <2> QED BY <1>0, <2>2, RefusedRun
<1>2. CASE ChainOK(source)
  <2>1. run' = [run EXCEPT ![p] = [Fresh EXCEPT !.pc = "list", !.seen = Records(source)]]
    BY <1>2 DEF Start
  <2>2. /\ run'[p].pc = "list" /\ run'[p].seen = 1..Written
        /\ \A q \in Exporter : q # p => run'[q] = run[q]
    BY <1>0, <1>2, <2>1, ChainIsWritten DEF Fresh
  <2>3. Status(p)' = "asked" /\ Status(p) # "asked"
    BY <1>0, <2>2 DEF Status, Resting
  <2>4. UNCHANGED <<Written, Stored>>
    BY <1>0 DEF Written, Newest, Segments, Stored
  <2>5. /\ Request' = [Request EXCEPT ![p] = [status |-> "asked", need |-> 1..Written]]
        /\ Request[p].status # "asked"
    BY <2>2, <2>3, RequestMoves
  <2> QED BY <2>4, <2>5, ServiceAsk
<1> QED BY <1>1, <1>2

LEMMA PublishImplements ==
    ASSUME ServiceInv, NEW p \in Exporter, Publish(p) PROVE Service!Next
<1>0. /\ UNCHANGED source /\ run[p].pc = "rename" /\ run[p].label \notin DOMAIN archives /\ Here(p)
      /\ run[p] \in RunState /\ run \in [Exporter -> RunState]
  BY Typed DEF Publish, Step
<1>1. /\ run'[p].pc = "cleanup" /\ run'[p].seen = run[p].seen
      /\ \A q \in Exporter : q # p => run'[q] = run[q]
  BY <1>0 DEF Publish, Step, RunState
<1>2. Status(p)' = "asked" /\ Status(p) = "asked"
  BY <1>0, <1>1 DEF Status, Resting
<1>3. Request' = Request /\ Request[p].status = "asked" /\ Request[p].need = run[p].seen
  BY <1>1, <1>2, RequestMoves
<1>4. PICK s \in Segments(Files(p)) : Records(Files(p)) = 1..Files(p)[s].last /\ 1 <= Files(p)[s].last
  BY PublishCovers, ChainIsStream
<1> DEFINE n == Files(p)[s].last
<1>5. n \in 1..Written
  <2>1. n \in Int /\ Written \in Int /\ n <= Written
    BY <1>0, CopyReaches, Typed DEF Good, Below
  <2> QED BY <1>4, <2>1
<1>6. run[p].seen \subseteq 1..n
  BY <1>4, PublishCovers
<1>7. run[p].label \in Instant \ DOMAIN Stored
  BY <1>0 DEF RunState, Stored
<1>8. Stored' = [t \in DOMAIN Stored \cup {run[p].label} |->
                   IF t = run[p].label THEN 1..n ELSE Stored[t]]
  <2> DEFINE c == Final(staging[run[p].dir])
  <2>1. c.files = Files(p)
    BY DEF Final, Files
  <2>2. archives' = Put(archives, run[p].label, c)
    BY PublishCovers
  <2> HIDE DEF c, n
  <2>3. /\ DOMAIN archives' = DOMAIN archives \cup {run[p].label}
        /\ \A t \in DOMAIN archives' : archives'[t] = IF t = run[p].label THEN c ELSE archives[t]
    BY <2>2 DEF Put
  <2>4. Records(c.files) = 1..n
    BY <1>4, <2>1 DEF n
  <2> QED BY <1>0, <2>3, <2>4 DEF Stored
<1>9. Written' = Written
  BY <1>0 DEF Written, Newest, Segments
<1> HIDE DEF n
<1> QED BY <1>3, <1>5, <1>6, <1>7, <1>8, <1>9, ServiceStore

LEMMA VerdictImplements ==
    ASSUME ServiceInv, NEW p \in Exporter, UNCHANGED <<source, archives>>,
           run[p].pc = "cleanup", run' = [run EXCEPT ![p] = Verdict(p)]
    PROVE  Service!Next
<1>0. /\ run \in [Exporter -> RunState] /\ Good(p)
      /\ run'[p] = Verdict(p) /\ \A q \in Exporter : q # p => run'[q] = run[q]
  BY Typed
<1>1. CASE run[p].failed \/ run[p].reported # {}
  <2>2. run'[p].pc = "failed" /\ run'[p].seen = {}
    BY <1>0, <1>1, VerdictIs
  <2> QED BY <1>0, <2>2, RefusedRun
<1>2. CASE ~(run[p].failed \/ run[p].reported # {})
  <2>2. /\ run'[p].pc = "ok" /\ run'[p].seen = run[p].seen
        /\ \A q \in Exporter : q # p => run'[q] = run[q]
    BY <1>0, <1>2, VerdictIs
  <2>3. Status(p)' = "ok" /\ Status(p) = "asked"
    BY <1>0, <2>2 DEF Status, Resting
  <2>4. UNCHANGED <<Written, Stored>>
    BY <1>0 DEF Written, Newest, Segments, Stored
  <2>5. /\ Request' = [Request EXCEPT ![p] = [status |-> "ok", need |-> run[p].seen]]
        /\ Request[p].status = "asked" /\ Request[p].need = run[p].seen
    BY <2>2, <2>3, RequestMoves
  <2>6. Request' = [Request EXCEPT ![p].status = "ok"]
    <3>1. Request[p] = [status |-> Status(p), need |-> run[p].seen]
      BY DEF Request
    <3>2. [Request[p] EXCEPT !.status = "ok"] = [status |-> "ok", need |-> run[p].seen]
      BY <3>1
    <3>3. [Request EXCEPT ![p].status = "ok"]
            = [Request EXCEPT ![p] = [Request[p] EXCEPT !.status = "ok"]]
      BY DEF Request
    <3> QED BY <2>5, <3>2, <3>3
  <2>7. run[p].label \in DOMAIN Stored /\ run[p].seen \subseteq Stored[run[p].label]
    BY <1>0, <1>2 DEF Good, Promised, Stored
  <2> QED BY <2>4, <2>5, <2>6, <2>7, ServiceConfirm
<1> QED BY <1>1, <1>2

LEMMA StepImplements == ServiceInv /\ [Next]_vars => [Service!Next]_(Service!vars)
<1> SUFFICES ASSUME ServiceInv, [Next]_vars PROVE [Service!Next]_(Service!vars)
  OBVIOUS
<1>1. CASE UNCHANGED <<source, archives, run>>
  <2>1. UNCHANGED <<Written, Stored, Request>>
    BY <1>1 DEF Written, Newest, Segments, Stored, Request, Status
  <2> QED BY <2>1, ServiceStutter
<1>2. CASE UNCHANGED vars \/ Tick
  BY <1>1, <1>2 DEF vars, Tick
<1>3. CASE Server
  <2>1. UNCHANGED <<Stored, Request>>
    BY <1>3 DEF Server, Stored, Request, Status
  <2>2. SourceOK /\ SourceOK' /\ Streams
    BY <1>3, ServerType, ServerStreams DEF ServiceInv, TypeInv, TypeOK
  <2>3. Written \in 0..MaxRecord /\ Written' \in Int /\ Written <= Written'
    BY <2>2, WrittenType, WrittenNextType DEF Streams
  <2>4. Written \in Nat /\ Written' \in Nat /\ (Written' = Written \/ Written' > Written)
    BY <2>3, DirectoryAssumption
  <2> QED BY <2>1, <2>4, ServiceStutter, ServiceWrite
<1>4. ASSUME NEW p \in Exporter, Export(p) PROVE [Service!Next]_(Service!vars)
  <2>0. /\ \A q \in Exporter : q # p => run'[q] = run[q]
        /\ run[p] \in RunState /\ run \in [Exporter -> RunState]
    BY <1>4, OthersKept, Typed
  <2>1. CASE Start(p) \/ Publish(p) \/ Cleanup(p)
    BY <2>1, StartImplements, PublishImplements, VerdictImplements DEF Cleanup, Step
  <2>3. CASE List(p) /\ run' = [run EXCEPT ![p] = Refused]
    <3>1. run'[p].pc = "failed" /\ run'[p].seen = {} /\ UNCHANGED <<source, archives>>
      BY <2>0, <2>3 DEF List, Refused, Fresh
    <3> QED BY <2>0, <3>1, RefusedRun
  <2>4. ASSUME UNCHANGED <<source, archives>>, run[p].pc \notin Resting, run'[p].pc \notin Resting,
               run'[p].seen = run[p].seen
        PROVE  [Service!Next]_(Service!vars)
    <3>1. Status(p)' = Status(p)
      BY <2>4 DEF Status
    <3> QED BY <2>0, <2>4, <3>1, QuietRun
  <2>5. ASSUME run' = [run EXCEPT ![p] = Failing(p, "cleanup")]
        PROVE  run'[p].pc \notin Resting /\ run'[p].seen = run[p].seen
    BY <2>0, <2>5 DEF Failing, RunState, Resting
  <2>6. ASSUME NEW next \in {"compare", "verify", "rename", "cleanup"},
               run' = [run EXCEPT ![p] = [run[p] EXCEPT !.pc = next]]
        PROVE  run'[p].pc \notin Resting /\ run'[p].seen = run[p].seen
    BY <2>0, <2>6 DEF RunState, Resting
  <2>7. CASE List(p) /\ run' = [run EXCEPT ![p] = [run[p] EXCEPT !.pc = "name", !.members = DOMAIN source]]
    <3>1. run'[p].pc = "name" /\ run'[p].seen = run[p].seen
      BY <2>0, <2>7 DEF RunState
    <3> QED BY <2>4, <2>7, <3>1 DEF List, Step, Resting
  <2>8. CASE Name(p)
    <3>1. run[p].pc = "name" /\ run'[p].pc = "sweep" /\ run'[p].seen = run[p].seen
      BY <2>0, <2>8 DEF Name, Step, RunState
    <3> QED BY <2>4, <2>8, <3>1 DEF Name, Resting
  <2>9. CASE Sweep(p)
    BY <2>4, <2>9, SweepIs DEF Sweep, Resting
  <2>10. CASE MakeStaging(p)
    BY <2>4, <2>10, MakeStagingIs DEF MakeStaging, Resting
  <2>11. CASE Compare(p)
    <3>1. CASE run' = [run EXCEPT ![p] = Failing(p, "cleanup")]
      BY <2>4, <2>5, <2>11, <3>1 DEF Compare, Step, Resting
    <3>2. CASE run' # [run EXCEPT ![p] = Failing(p, "cleanup")]
      <4>1. run' = [run EXCEPT ![p] = [run[p] EXCEPT !.pc = "copy", !.pending = @ \ {Current(p)},
              !.mismatch = @ \/ source[Current(p)] # staging[run[p].dir].files[Current(p)]]]
        BY <2>11, <3>2 DEF Compare, Step
      <4>2. run'[p].pc = "copy" /\ run'[p].seen = run[p].seen
        BY <2>0, <4>1 DEF RunState
      <4> QED BY <2>4, <2>11, <4>2 DEF Compare, Step, Resting
    <3> QED BY <3>1, <3>2
  <2>2. CASE FaultStep(p)
    <3>1. /\ UNCHANGED <<source, archives>> /\ run[p].pc \notin Resting
          /\ \/ run' = [run EXCEPT ![p] = Failing(p, "cleanup")]
             \/ run' = [run EXCEPT ![p] = Verdict(p)] /\ run[p].pc = "cleanup"
             \/ run' = [run EXCEPT ![p] = Refused]
             \/ run' = [run EXCEPT ![p] = Fresh]
      BY <2>0, <2>2, FaultIs, Typed DEF ServiceInv, TypeInv, TypeOK
    <3>2. CASE run' = [run EXCEPT ![p] = Refused] \/ run' = [run EXCEPT ![p] = Fresh]
      <4>1. run'[p] = Refused \/ run'[p] = Fresh
        BY <2>0, <3>2
      <4>2. run'[p].pc \in {"idle", "failed"} /\ run'[p].seen = {}
        BY <4>1 DEF Refused, Fresh
      <4> QED BY <2>0, <3>1, <4>2, RefusedRun
    <3> QED BY <2>4, <2>5, <3>1, <3>2, VerdictImplements
  <2>12. CASE Copy(p) \/ Attest(p) \/ VerifyCopy(p) \/ RenameRaises(p) \/ Redo(p)
    <3>1. \/ run' = [run EXCEPT ![p] = Failing(p, "cleanup")]
          \/ run' = [run EXCEPT ![p] = [run[p] EXCEPT !.pc = "compare"]]
          \/ run' = [run EXCEPT ![p] = [run[p] EXCEPT !.pc = "verify"]]
          \/ run' = [run EXCEPT ![p] = [run[p] EXCEPT !.pc = "rename"]]
          \/ run' = [run EXCEPT ![p] = [run[p] EXCEPT !.pc = "cleanup"]]
      BY <2>12 DEF Copy, Attest, VerifyCopy, RenameRaises, Redo, Step
    <3>2. run'[p].pc \notin Resting /\ run'[p].seen = run[p].seen
      BY <2>5, <2>6, <3>1
    <3>3. UNCHANGED <<source, archives>> /\ run[p].pc \notin Resting
      BY <2>12 DEF Copy, Attest, VerifyCopy, RenameRaises, Redo, Step, Resting
    <3> QED BY <2>4, <3>2, <3>3
  <2>13. CASE List(p)
    BY <2>3, <2>7, <2>13 DEF List, Step
  <2> QED BY <1>4, <2>1, <2>2, <2>8, <2>9, <2>10, <2>11, <2>12, <2>13 DEF Export, Work, FaultStep
<1> QED BY <1>2, <1>3, <1>4 DEF Next

\* Seen from outside, the exports are the service that ArchiveStore promises: each of
\* their steps is one of its steps or none.
THEOREM ExportsAreTheService == Spec => ServiceSpec
<1>1. ServiceInv /\ [Next]_vars => [Service!Next]_(Service!vars)
  BY StepImplements
<1> QED BY <1>1, InitService, InitImplements, StepKeepsService, PTL DEF Spec, ServiceSpec, Service!Spec

(***************************************************************************)
(* A quiet server.  Nothing written and nothing failed cannot come back    *)
(* once it is over, so while it lasts it has lasted from the start: every  *)
(* copy and every archive is what the directory holds.                     *)
(***************************************************************************)
Begun == [f \in {1} |-> [first |-> 1, last |-> 1, torn |-> FALSE]]
Quiet == source = Begun /\ faults = 0

\* The first segment keeps its first record, for as long as it is there.
FirstKept == 1 \in DOMAIN source => source[1].last >= 1

IsBegun(d) == DOMAIN d = {1} /\ d[1] = Begun[1]

Unspoilt(p) ==
    /\ ~run[p].failed /\ ~run[p].mismatch
    /\ run[p].pc = "failed" => run[p].reported # {}
    /\ run[p].pc \in Copying \cup {"name", "sweep"} => run[p].members = {1}
    /\ run[p].pc \in Copying =>
         /\ run[p].pending \subseteq {1}
         /\ \A m \in DOMAIN Files(p) : m = 1 /\ Files(p)[m] = Begun[1]
    /\ run[p].pc = "compare" => run[p].pending # {}
    /\ run[p].pc \in {"verify", "rename"} =>
         staging[run[p].dir].attested /\ staging[run[p].dir].manifest = Files(p)

AllBegun == \A a \in DOMAIN archives : IsBegun(archives[a].files)

QuietInv == FirstKept /\ (Quiet => AllBegun /\ \A p \in Exporter : Unspoilt(p))

\* What began restores.
LEMMA BegunIs ==
    ASSUME NEW d, IsBegun(d)
    PROVE  ChainOK(d) /\ HasRecords(d) /\ Segments(d) = {1} /\ IndexFile \notin DOMAIN d
<1>1. 1 \in SegmentId /\ 1 # IndexFile
  BY DirectoryAssumption DEF SegmentId, IndexFile
<1>2. d[1].first = 1 /\ d[1].last = 1 /\ d[1].torn = FALSE
  BY DEF IsBegun, Begun
<1>3. Segments(d) = {1}
  BY <1>1 DEF IsBegun, Segments
<1>4. LinksBack(d, 1)
  BY <1>2, <1>3 DEF LinksBack
<1>5. HasRecords(d)
  BY <1>2, <1>3 DEF HasRecords
<1>6. IndexFile \notin DOMAIN d
  BY <1>1 DEF IsBegun
<1>7. ChainOK(d)
  BY <1>2, <1>3, <1>4, <1>6 DEF ChainOK
<1> QED BY <1>3, <1>5, <1>6, <1>7

LEMMA SourceBegun == ASSUME Quiet PROVE IsBegun(source)
  BY DEF Quiet, IsBegun, Begun

\* The first segment only grows, and no step of the server leads back to where it began.
LEMMA ServerMoves ==
    ASSUME ServiceInv, FirstKept, Server
    PROVE  FirstKept' /\ source' # Begun
<1>0. /\ SourceOK /\ IsDirectory(source) /\ MaxSegment \in Nat \ {0} /\ 1 # IndexFile /\ 1 \in SegmentId
      /\ \A s \in Segments(source) : source[s].last \in Int /\ source[s].first \in Int
  <2>1. SourceOK /\ IsDirectory(source)
    BY DEF ServiceInv, TypeInv, TypeOK, SourceOK
  <2>2. \A s \in Segments(source) : source[s] \in SegmentContent
    BY <2>1, SegmentType
  <2> QED BY <2>1, <2>2, DirectoryAssumption DEF SegmentContent, IndexFile, SegmentId
<1> DEFINE one == [first |-> 1, last |-> 1, torn |-> FALSE]
<1>1. source' = Begun => DOMAIN source' = {1} /\ source'[1].last = 1 /\ source'[1].torn = FALSE
  BY DEF Begun
<1>2. ASSUME NEW s \in SegmentId, BeginAppend(s) PROVE FirstKept' /\ source' # Begun
  <2>1. /\ DOMAIN source' = DOMAIN source /\ s \in DOMAIN source
        /\ \A t \in DOMAIN source : t # s => source'[t] = source[t]
        /\ source'[s] = [source[s] EXCEPT !.torn = TRUE]
    BY <1>2 DEF BeginAppend, Newest, Put, Segments
  <2>2. source'[s].torn = TRUE /\ source'[s].last = source[s].last
    BY <1>0, <2>1, SegmentType DEF Segments, SegmentContent
  <2> QED BY <1>1, <2>1, <2>2 DEF FirstKept
<1>3. ASSUME NEW s \in SegmentId, EndAppend(s) PROVE FirstKept' /\ source' # Begun
  <2>1. /\ DOMAIN source' = DOMAIN source /\ s \in DOMAIN source
        /\ \A t \in DOMAIN source : t # s => source'[t] = source[t]
        /\ source'[s] = [source[s] EXCEPT !.torn = FALSE, !.last = @ + 1]
    BY <1>3 DEF EndAppend, Newest, Put, Segments
  <2>2. source'[s].last = source[s].last + 1 /\ source[s].last \in Int
    BY <1>0, <2>1, SegmentType DEF Segments, SegmentContent
  <2>3. CASE s = 1
    <3>1. source[1].last >= 1
      BY <2>1, <2>3 DEF FirstKept
    <3>2. source'[1].last = source[1].last + 1 /\ source[1].last \in Int
      BY <2>2, <2>3
    <3>3. source'[1].last >= 1 /\ source'[1].last # 1
      BY <3>1, <3>2
    <3> QED BY <1>1, <3>3 DEF FirstKept
  <2>4. CASE s # 1
    BY <1>1, <2>1, <2>4 DEF FirstKept
  <2> QED BY <2>3, <2>4
<1>4. ASSUME NEW s \in SegmentId, Rotate(s) PROVE FirstKept' /\ source' # Begun
  <2>1. s + 1 # 1 /\ s + 1 \in DOMAIN source' /\ (1 \in DOMAIN source' => source'[1] = source[1] /\ 1 \in DOMAIN source)
    BY <1>4 DEF Rotate, Put, SegmentId
  <2> QED BY <1>1, <2>1 DEF FirstKept
<1>5. ASSUME NEW s \in SegmentId, Expire(s) PROVE FirstKept' /\ source' # Begun
  <2>1. /\ s \in Segments(source) /\ \A t \in Segments(source) : s <= t
        /\ DOMAIN source' = DOMAIN source \ {s} /\ \A t \in DOMAIN source' : source'[t] = source[t]
    BY <1>5 DEF Expire, Keep
  <2>2. 1 \in DOMAIN source => s = 1
    <3>1. 1 \in DOMAIN source => s <= 1
      BY <1>0, <2>1 DEF Segments
    <3> QED BY <3>1 DEF SegmentId
  <2> QED BY <1>1, <2>1, <2>2 DEF FirstKept
<1>6. ASSUME WriteIndex PROVE FirstKept' /\ source' # Begun
  <2>1. IndexFile \in DOMAIN source' /\ (1 \in DOMAIN source' => source'[1] = source[1] /\ 1 \in DOMAIN source)
    BY <1>0, <1>6 DEF WriteIndex, Put
  <2> QED BY <1>0, <1>1, <2>1 DEF FirstKept
<1> QED BY <1>2, <1>3, <1>4, <1>5, <1>6 DEF Server

\* So a quiet state follows quiet ones only.
LEMMA WasQuiet ==
    ASSUME ServiceInv, FirstKept, [Next]_vars
    PROVE  FirstKept' /\ (Quiet' => Quiet /\ UNCHANGED <<source, faults>>)
<1>0. faults \in Nat
  BY BoundsAssumption DEF ServiceInv, TypeInv, TypeOK
<1>1. CASE Server
  BY <1>1, ServerMoves DEF Quiet
<1>2. CASE UNCHANGED <<source, faults>>
  BY <1>2 DEF Quiet, FirstKept
<1>3. CASE UNCHANGED source /\ faults' = faults + 1
  BY <1>0, <1>3 DEF Quiet, FirstKept
<1>4. CASE UNCHANGED vars \/ Tick
  BY <1>2, <1>4 DEF vars, Tick
<1>5. ASSUME NEW p \in Exporter, Export(p) PROVE FirstKept' /\ (Quiet' => Quiet /\ UNCHANGED <<source, faults>>)
  BY <1>2, <1>3, <1>5
     DEF Export, Work, Start, List, Name, Sweep, Redo, MakeStaging, Copy, Compare, Attest,
         VerifyCopy, Publish, RenameRaises, Cleanup, CleanupIgnored, SweepRaises, IOError, Kill,
         StrayFault, Fault
<1> QED BY <1>1, <1>4, <1>5 DEF Next

\* A step of another run, or one that leaves the staging directory of q alone.
LEMMA OthersUnspoilt ==
    ASSUME ServiceInv, NEW q \in Exporter, Unspoilt(q), run'[q] = run[q],
           Here(q) => staging'[run[q].dir] = staging[run[q].dir]
    PROVE  Unspoilt(q)'
<1>1. run[q].pc \in Copying => Here(q)
  BY Typed DEF Good, StagedOK
<1>2. run[q].pc \in Copying => Files(q)' = Files(q) /\ staging'[run'[q].dir] = staging[run[q].dir]
  BY <1>1 DEF Files
<1> QED BY <1>2 DEF Unspoilt, Copying, Staged

\* A step that carries nothing in its staging directory on.
LEMMA OnwardUnspoilt ==
    ASSUME NEW p \in Exporter, Unspoilt(p), run'[p].pc \notin Copying,
           run'[p].failed = run[p].failed, run'[p].mismatch = run[p].mismatch,
           run'[p].pc # "failed", run'[p].pc \in {"name", "sweep"} => run'[p].members = {1}
    PROVE  Unspoilt(p)'
  BY Zenon DEF Unspoilt, Copying, Staged

\* The retry finds its own evidence.
LEMMA SameWhenQuiet ==
    ASSUME ServiceInv, Quiet, AllBegun, NEW p \in Exporter,
           run[p].label \in DOMAIN archives, run[p].members = {1}
    PROVE  SameEvidence(p)
<1>1. IsBegun(source) /\ IsBegun(archives[run[p].label].files)
  BY SourceBegun DEF AllBegun
<1> QED BY <1>1 DEF SameEvidence, IsBegun

\* Before a run has a staging directory, and after it lost it.
LEMMA PlainUnspoilt ==
    ASSUME ServiceInv, Quiet, AllBegun, NEW p \in Exporter, Unspoilt(p),
           Start(p) \/ List(p) \/ Name(p) \/ Redo(p) \/ Publish(p) \/ RenameRaises(p) \/ Cleanup(p)
    PROVE  Unspoilt(p)'
<1>0. run[p] \in RunState /\ run \in [Exporter -> RunState] /\ IsBegun(source)
  BY Typed, SourceBegun
<1>1. CASE Start(p)
  <2>1. run' = [run EXCEPT ![p] = [Fresh EXCEPT !.pc = "list", !.seen = Records(source)]]
    BY <1>0, <1>1, BegunIs DEF Start
  <2>2. run'[p].pc = "list" /\ run'[p].failed = FALSE /\ run'[p].mismatch = FALSE
    BY <1>0, <2>1 DEF Fresh
  <2> QED BY <2>2 DEF Unspoilt, Copying, Staged
<1>2. CASE List(p)
  <2>1. ~ \E s \in Segments(source) : source[s].last < source[s].first /\ ~source[s].torn
    <3>1. Segments(source) = {1} /\ source[1] = [first |-> 1, last |-> 1, torn |-> FALSE]
      BY <1>0, BegunIs DEF IsBegun, Begun
    <3>2. source[1].last = 1 /\ source[1].first = 1
      BY <3>1
    <3> QED BY <3>1, <3>2
  <2>2. run' = [run EXCEPT ![p] = [run[p] EXCEPT !.pc = "name", !.members = DOMAIN source]]
    BY <1>2, <2>1 DEF List, Step
  <2>3. run'[p].pc = "name" /\ run'[p].failed = run[p].failed /\ run'[p].mismatch = run[p].mismatch
        /\ run'[p].members = {1}
    BY <1>0, <2>2 DEF RunState, IsBegun
  <2> QED BY <2>3, OnwardUnspoilt DEF Copying, Staged
<1>3. CASE Name(p)
  <2>1. run'[p].pc = "sweep" /\ run'[p].failed = run[p].failed /\ run'[p].mismatch = run[p].mismatch
        /\ run'[p].members = run[p].members /\ run[p].pc = "name"
    BY <1>0, <1>3 DEF Name, Step, RunState
  <2> QED BY <2>1, OnwardUnspoilt DEF Copying, Staged, Unspoilt
<1>4. ASSUME run' = [run EXCEPT ![p] = [run[p] EXCEPT !.pc = "cleanup"]] PROVE Unspoilt(p)'
  <2>1. run'[p].pc = "cleanup" /\ run'[p].failed = run[p].failed /\ run'[p].mismatch = run[p].mismatch
    BY <1>0, <1>4 DEF RunState
  <2> QED BY <2>1, OnwardUnspoilt DEF Copying, Staged
<1>5. CASE Redo(p)
  <2>1. run[p].members = {1} /\ run[p].label \in DOMAIN archives
    BY <1>5 DEF Redo, Step, Unspoilt
  <2> QED BY <1>4, <1>5, <2>1, SameWhenQuiet DEF Redo, Step
<1>6. CASE Publish(p)
  BY <1>4, <1>6 DEF Publish, Step
<1>7. CASE RenameRaises(p)
  <2>1. run[p].pc = "rename" /\ run[p].pc \in Copying
    BY <1>7 DEF RenameRaises, Step, Copying, Staged
  <2>2. Here(p) /\ run[p].members = {1}
    BY <2>1, Typed DEF Good, StagedOK, Unspoilt
  <2>3. run[p].label \in DOMAIN archives
    BY <1>7, <2>2 DEF RenameRaises
  <2> QED BY <1>4, <1>7, <2>2, <2>3, SameWhenQuiet DEF RenameRaises, Step
<1>8. CASE Cleanup(p)
  <2>1. CASE run[p].reported # {}
    <3>1. run' = [run EXCEPT ![p] = Verdict(p)]
      BY <1>8 DEF Cleanup, Step
    <3>2. run'[p].pc = "failed" /\ run'[p].failed = FALSE /\ run'[p].mismatch = FALSE
          /\ run'[p].reported = run[p].reported
      BY <1>0, <2>1, <3>1, VerdictIs
    <3> QED BY <2>1, <3>2, Zenon DEF Unspoilt, Copying, Staged
  <2>2. CASE run[p].reported = {}
    <3>1. run' = [run EXCEPT ![p] = Verdict(p)]
      BY <1>8 DEF Cleanup, Step
    <3>2. run'[p].pc = "ok" /\ run'[p].failed = FALSE /\ run'[p].mismatch = FALSE
      BY <1>0, <2>2, <3>1, VerdictIs DEF Unspoilt
    <3> QED BY <3>2 DEF Unspoilt, Copying, Staged
  <2> QED BY <2>1, <2>2
<1> QED BY <1>1, <1>2, <1>3, <1>5, <1>6, <1>7, <1>8

LEMMA SweepUnspoilt ==
    ASSUME ServiceInv, NEW p \in Exporter, Unspoilt(p), Sweep(p) PROVE Unspoilt(p)'
<1>1. PICK d, reported : Seen(p, d, reported)
  BY DEF Sweep, SweepGone, SweepYoung, SweepLocked, SweepStale
<1>2. run'[p].failed = run[p].failed /\ run'[p].mismatch = run[p].mismatch
  BY <1>1, Typed DEF Seen, RunState
<1>3. run'[p].pc = run[p].pc /\ run[p].pc \in {"sweep", "copy"} /\ run'[p].members = run[p].members
      /\ run'[p].pending = run[p].pending /\ run'[p].dir = run[p].dir
  BY SweepIs
<1>4. run[p].pc = "copy" => Files(p)' = Files(p)
  <2>1. run[p].pc = "copy" => Here(p)
    BY Typed DEF Good, StagedOK, Copying, Staged
  <2>2. Here(p) => staging'[run[p].dir] = staging[run[p].dir]
    BY SweepIs
  <2> QED BY <1>3, <2>1, <2>2 DEF Files
<1>5. run'[p].pc \in Copying => run[p].pc = "copy"
  BY <1>3 DEF Copying, Staged
<1>6. run[p].members = {1}
  BY <1>3 DEF Unspoilt, Copying, Staged
<1>7. run[p].pc = "copy" => run[p].pc \in Copying
  BY DEF Copying, Staged
<1> QED BY <1>2, <1>3, <1>4, <1>5, <1>6, <1>7, Zenon DEF Unspoilt

LEMMA MakeStagingUnspoilt ==
    ASSUME ServiceInv, NEW p \in Exporter, Unspoilt(p), MakeStaging(p) PROVE Unspoilt(p)'
<1>1. PICK d \in StagingName :
         /\ DOMAIN staging'[d].files = {} /\ run[p].pc = "sweep" /\ run'[p].pc = "copy"
         /\ run'[p].dir = d /\ run'[p].members = run[p].members /\ run'[p].pending = run[p].members
  BY MakeStagingIs
<1>2. run'[p].failed = run[p].failed /\ run'[p].mismatch = run[p].mismatch
  BY Typed DEF MakeStaging, Step, RunState
<1>3. run[p].members = {1}
  BY <1>1 DEF Unspoilt
<1>4. DOMAIN Files(p)' = {}
  BY <1>1 DEF Files
<1> QED BY <1>1, <1>2, <1>3, <1>4 DEF Unspoilt

LEMMA CopyUnspoilt ==
    ASSUME ServiceInv, Quiet, NEW p \in Exporter, Unspoilt(p),
           Copy(p) \/ Compare(p) \/ Attest(p) \/ VerifyCopy(p)
    PROVE  Unspoilt(p)'
<1>0. /\ run[p] \in RunState /\ run \in [Exporter -> RunState] /\ StagingOK /\ IsBegun(source)
      /\ run[p].pc \in Copying /\ Here(p) /\ run[p].members = {1} /\ run[p].pending \subseteq {1}
      /\ run[p].members \ run[p].pending \subseteq DOMAIN Files(p)
      /\ \A m \in DOMAIN Files(p) : m = 1 /\ Files(p)[m] = Begun[1]
  <2>1. run[p].pc \in Copying
    BY DEF Copy, Compare, Attest, VerifyCopy, Step, Copying, Staged
  <2>2. Good(p)
    BY Typed
  <2>3. Here(p) /\ run[p].members \ run[p].pending \subseteq DOMAIN Files(p)
    BY <2>1, <2>2 DEF Good, StagedOK
  <2> QED BY <2>1, <2>3, Typed, SourceBegun DEF Unspoilt
<1>1. run[p].pending # {} => Current(p) = 1
  BY <1>0, CurrentIsPending
<1>2. run[p].dir \in DOMAIN staging /\ DOMAIN staging[run[p].dir] = DOMAIN Empty
  BY <1>0 DEF Here, StagingOK
<1>3. run[p].pending = {} => IsBegun(Files(p))
  BY <1>0 DEF IsBegun
<1>4. CASE Copy(p)
  <2>1. 1 \in DOMAIN source /\ run[p].pending # {} /\ Current(p) = 1
    BY <1>0, <1>1, <1>4 DEF Copy, IsBegun
  <2>2. /\ run' = [run EXCEPT ![p] = [run[p] EXCEPT !.pc = "compare"]]
        /\ staging' = [staging EXCEPT ![run[p].dir].files = Put(@, 1, source[1]),
                                      ![run[p].dir].mtime = clock]
    BY <1>0, <1>4, <2>1 DEF Copy, Step
  <2>3. staging'[run[p].dir].files = Put(Files(p), 1, source[1])
    <3> DEFINE d == run[p].dir
               c == [staging[d] EXCEPT !.files = Put(@, 1, source[1]), !.mtime = clock]
    <3>1. d \in DOMAIN staging /\ DOMAIN staging[d] = DOMAIN Empty
      BY <1>2
    <3>2. staging' = [staging EXCEPT ![d] = c]
      BY <2>2
    <3> HIDE DEF d
    <3>3. c.files = Put(staging[d].files, 1, source[1])
      BY <3>1 DEF Empty
    <3> HIDE DEF c
    <3>4. staging'[d].files = Put(staging[d].files, 1, source[1])
      BY <3>1, <3>2, <3>3
    <3> QED BY <3>4 DEF Files, d
  <2>4. /\ run'[p].pc = "compare" /\ run'[p].dir = run[p].dir /\ run'[p].members = run[p].members
        /\ run'[p].pending = run[p].pending /\ run'[p].failed = run[p].failed
        /\ run'[p].mismatch = run[p].mismatch
    BY <1>0, <2>2 DEF RunState
  <2>5. \A m \in DOMAIN Files(p)' : m = 1 /\ Files(p)'[m] = Begun[1]
    BY <1>0, <2>3, <2>4 DEF Files, Put, IsBegun
  <2> QED BY <1>0, <2>1, <2>4, <2>5 DEF Unspoilt
<1>5. CASE Compare(p)
  <2>1. run[p].pc = "compare" /\ run[p].pending # {} /\ UNCHANGED staging
    BY <1>5 DEF Compare, Step, Unspoilt
  <2>2. Current(p) = 1 /\ 1 \in DOMAIN source /\ 1 \in DOMAIN Files(p) /\ source[1] = Files(p)[1]
    <3>1. Current(p) \in DOMAIN Files(p)
      BY <2>1, Typed DEF Good, StagedOK
    <3> QED BY <1>0, <1>1, <2>1, <3>1 DEF IsBegun
  <2>3. run' = [run EXCEPT ![p] = [run[p] EXCEPT !.pc = "copy", !.pending = @ \ {1},
                        !.mismatch = @ \/ source[1] # staging[run[p].dir].files[1]]]
    BY <1>0, <1>5, <2>2 DEF Compare, Step
  <2>4. /\ run'[p].pc = "copy" /\ run'[p].dir = run[p].dir /\ run'[p].members = run[p].members
        /\ run'[p].pending = run[p].pending \ {1} /\ run'[p].failed = run[p].failed
        /\ run'[p].mismatch = (run[p].mismatch \/ source[1] # staging[run[p].dir].files[1])
    BY <1>0, <2>3 DEF RunState
  <2>5. ~run'[p].mismatch
    BY <2>2, <2>4, Zenon DEF Unspoilt, Files
  <2>6. Files(p)' = Files(p)
    BY <2>1, <2>4 DEF Files
  <2> QED BY <1>0, <2>4, <2>5, <2>6 DEF Unspoilt
<1>6. CASE Attest(p)
  <2>1. run[p].pending = {} /\ HasRecords(Files(p)) /\ ~run[p].mismatch
    BY <1>3, <1>6, BegunIs DEF Attest, Unspoilt
  <2>2. /\ run' = [run EXCEPT ![p] = [run[p] EXCEPT !.pc = "verify"]]
        /\ staging' = [staging EXCEPT ![run[p].dir].manifest = staging[run[p].dir].files,
                                      ![run[p].dir].attested = TRUE,
                                      ![run[p].dir].index = IndexFile \in DOMAIN source,
                                      ![run[p].dir].mtime = clock]
    BY <1>0, <1>6, <2>1 DEF Attest, Step, Files
  <2>3. LET c == staging'[run[p].dir] IN
          c.files = Files(p) /\ c.manifest = Files(p) /\ c.attested = TRUE
    <3> DEFINE d == run[p].dir
               e == [staging[d] EXCEPT !.manifest = staging[d].files, !.attested = TRUE,
                                       !.index = IndexFile \in DOMAIN source, !.mtime = clock]
    <3>1. d \in DOMAIN staging /\ DOMAIN staging[d] = DOMAIN Empty
      BY <1>2
    <3>2. staging' = [staging EXCEPT ![d] = e]
      BY <2>2
    <3> HIDE DEF d
    <3>3. e.files = staging[d].files /\ e.manifest = staging[d].files /\ e.attested = TRUE
      BY <3>1 DEF Empty
    <3> HIDE DEF e
    <3>4. staging'[d].files = staging[d].files /\ staging'[d].manifest = staging[d].files
          /\ staging'[d].attested = TRUE
      BY <3>1, <3>2, <3>3
    <3> QED BY <3>4 DEF Files, d
  <2>4. /\ run'[p].pc = "verify" /\ run'[p].dir = run[p].dir /\ run'[p].members = run[p].members
        /\ run'[p].pending = run[p].pending /\ run'[p].failed = run[p].failed
        /\ run'[p].mismatch = run[p].mismatch
    BY <1>0, <2>2 DEF RunState
  <2>5. Files(p)' = Files(p)
    BY <2>3, <2>4 DEF Files
  <2> QED BY <1>0, <2>3, <2>4, <2>5 DEF Unspoilt
<1>7. CASE VerifyCopy(p)
  <2>1. run[p].pc = "verify" /\ UNCHANGED staging /\ run[p].pending = {}
    BY <1>7, Typed DEF VerifyCopy, Step, Good, StagedOK
  <2>2. Verified(staging[run[p].dir])
    BY <1>3, <2>1, BegunIs DEF Unspoilt, Verified, Files
  <2>3. run' = [run EXCEPT ![p] = [run[p] EXCEPT !.pc = "rename"]]
    BY <1>0, <1>7, <2>2 DEF VerifyCopy, Step
  <2>4. /\ run'[p].pc = "rename" /\ run'[p].dir = run[p].dir /\ run'[p].members = run[p].members
        /\ run'[p].pending = run[p].pending /\ run'[p].failed = run[p].failed
        /\ run'[p].mismatch = run[p].mismatch
    BY <1>0, <2>3 DEF RunState
  <2>5. Files(p)' = Files(p)
    BY <2>1, <2>4 DEF Files
  <2> QED BY <1>0, <2>1, <2>4, <2>5 DEF Unspoilt
<1> QED BY <1>4, <1>5, <1>6, <1>7

LEMMA StepStaysQuiet == ServiceInv /\ QuietInv /\ [Next]_vars => QuietInv'
<1> SUFFICES ASSUME ServiceInv, QuietInv, [Next]_vars, Quiet'
             PROVE  AllBegun' /\ \A p \in Exporter : Unspoilt(p)'
  BY WasQuiet DEF QuietInv
<1>1. Quiet /\ UNCHANGED <<source, faults>> /\ faults \in Nat
  BY WasQuiet, BoundsAssumption DEF QuietInv, ServiceInv, TypeInv, TypeOK
<1>2. AllBegun /\ \A p \in Exporter : Unspoilt(p)
  BY <1>1 DEF QuietInv
<1>3. CASE UNCHANGED <<staging, archives, run>>
  <2>1. AllBegun'
    BY <1>2, <1>3 DEF AllBegun, IsBegun
  <2> QED BY <1>2, <1>3, <2>1, OthersUnspoilt
<1>4. CASE UNCHANGED vars \/ Server \/ Tick
  BY <1>3, <1>4 DEF vars, Server, Tick
<1>5. ASSUME NEW p \in Exporter, Export(p) PROVE AllBegun' /\ \A q \in Exporter : Unspoilt(q)'
  <2>1. ASSUME NEW q \in Exporter, q # p PROVE Unspoilt(q)'
    BY <1>2, <1>5, <2>1, OthersKept, OthersUnspoilt
  <2>2. ~FaultStep(p)
    <3>1. faults' # faults + 1
      BY <1>1
    <3> QED BY <3>1 DEF FaultStep, CleanupIgnored, SweepRaises, IOError, Kill, StrayFault, Fault
  <2>3. Unspoilt(p)'
    BY <1>1, <1>2, <1>5, <2>2, PlainUnspoilt, SweepUnspoilt, MakeStagingUnspoilt, CopyUnspoilt
       DEF Export, Work, FaultStep
  <2>4. AllBegun'
    <3>1. CASE UNCHANGED archives
      BY <1>2, <3>1 DEF AllBegun, IsBegun
    <3>2. CASE Publish(p)
      <4>1. run[p].pc = "rename" /\ run[p].pc \in Copying
            /\ archives' = Put(archives, run[p].label, Final(staging[run[p].dir]))
        BY <3>2 DEF Publish, Step, Copying, Staged
      <4>2. run[p].pending = {} /\ run[p].members \ run[p].pending \subseteq DOMAIN Files(p)
        BY <4>1, Typed DEF Good, StagedOK
      <4>3. IsBegun(Files(p))
        BY <1>2, <4>1, <4>2 DEF Unspoilt, IsBegun
      <4>4. Final(staging[run[p].dir]).files = Files(p)
        BY DEF Final, Files
      <4>5. ASSUME NEW a \in DOMAIN archives' PROVE IsBegun(archives'[a].files)
        <5>1. archives'[a].files = IF a = run[p].label THEN Files(p) ELSE archives[a].files
          BY <4>1, <4>4, <4>5 DEF Put
        <5>2. a # run[p].label => a \in DOMAIN archives
          BY <4>1, <4>5 DEF Put
        <5> QED BY <1>2, <4>3, <5>1, <5>2 DEF AllBegun
      <4> QED BY <4>5 DEF AllBegun, IsBegun
    <3> QED BY <1>5, <3>1, <3>2
            DEF Export, Work, Start, List, Name, Sweep, Redo, MakeStaging, Copy, Compare, Attest,
                VerifyCopy, RenameRaises, Cleanup, CleanupIgnored, SweepRaises, IOError, Kill
  <2> QED BY <2>1, <2>3, <2>4
<1> QED BY <1>4, <1>5 DEF Next

\* However many exports race, retry and sweep one another's leftovers: with a quiet
\* server and no fault none fails but for what its sweep reported.
THEOREM QuietExportsPass == Spec => []OnlySweepFails
<1>1. Init => QuietInv
  <2> SUFFICES ASSUME Init PROVE QuietInv
    OBVIOUS
  <2>1. FirstKept
    BY DEF Init, FirstKept
  <2>2. ASSUME NEW p \in Exporter PROVE Unspoilt(p)
    <3>1. run[p] = Fresh
      BY DEF Init
    <3>2. run[p].pc = "idle" /\ run[p].failed = FALSE /\ run[p].mismatch = FALSE
      BY <3>1 DEF Fresh
    <3> QED BY <3>2 DEF Unspoilt, Copying, Staged
  <2>3. AllBegun
    BY DEF Init, AllBegun
  <2> QED BY <2>1, <2>2, <2>3 DEF QuietInv
<1>2. QuietInv => OnlySweepFails
  BY DEF QuietInv, Quiet, Begun, Unspoilt, OnlySweepFails
<1> QED BY <1>1, <1>2, InitService, StepKeepsService, StepStaysQuiet, PTL DEF Spec

\* Every archive verifies, and every success is worth one, in one theorem.
THEOREM ExportsAreSound == Spec => []ExportsSound
<1>1. Init => ServiceInv
  BY InitService
<1>2. ServiceInv => ExportsSound
  <2>1. ServiceInv => SuccessCovers
    BY Typed DEF SuccessCovers, ServiceInv, RestoreInv, ArchivesRestorable, Good, Promised
  <2> QED BY <2>1 DEF ExportsSound, ServiceInv, TypeInv, RestoreInv
<1> QED BY <1>1, <1>2, StepKeepsService, PTL DEF Spec
=============================================================================
