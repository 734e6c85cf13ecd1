--------------------------- MODULE ArchiveExport ---------------------------
(***************************************************************************)
(* export() of tools/evidence_export.py, run by several processes into one *)
(* archive root while the server keeps writing the evidence directory.     *)
(*                                                                         *)
(* One step is one filesystem call that another process can come between.  *)
(***************************************************************************)
EXTENDS EvidenceDirectory

CONSTANTS
    Exporter,       \* processes running export()
    StagingName,    \* the names mkdtemp can draw
    NoName,
    MaxClock,       \* bound: the last instant
    StaleAge,       \* STALE_STAGING_AGE_SECONDS, in clock units
    MaxFaults,      \* bound: kills, and calls that raise
    LockChoice,     \* may a staging directory that was left resist removal?
    Indexed,        \* does the server keep a segment index?
    Expires         \* does retention delete segments?

ASSUME BoundsAssumption ==
    /\ MaxClock \in Nat /\ StaleAge \in Nat /\ MaxFaults \in Nat
    /\ LockChoice \subseteq BOOLEAN /\ Indexed \in BOOLEAN /\ Expires \in BOOLEAN
    /\ NoName \notin StagingName

Instant == 0..MaxClock

VARIABLES
    source,    \* the evidence directory
    clock,     \* the wall clock
    staging,   \* staging name |-> what the staging directory holds
    archives,  \* stamp |-> what the archive of that name holds
    run,       \* exporter |-> the state of its export() call
    faults,    \* how often a process was killed or a call raised
    strays     \* history: how many of those left a staging directory

vars == <<source, clock, staging, archives, run, faults, strays>>

Resting == {"idle", "ok", "failed"}
Staged == {"copy", "compare", "verify", "rename", "cleanup"}
Phases == Resting \cup Staged \cup {"list", "name", "sweep"}

Fresh == [pc |-> "idle", seen |-> {}, members |-> {}, label |-> 0, todo |-> {}, reported |-> {},
          dir |-> NoName, pending |-> {}, mismatch |-> FALSE, failed |-> FALSE]
Empty == [files |-> [f \in {} |-> 0], manifest |-> [f \in {} |-> 0], attested |-> FALSE,
          index |-> FALSE, mtime |-> 0, locked |-> FALSE]

Live(d) == \E p \in Exporter : run[p].pc \in Staged /\ run[p].dir = d
-----------------------------------------------------------------------------
Init ==
    /\ source = [f \in {1} |-> [first |-> 1, last |-> 1, torn |-> FALSE]]
    /\ clock = 0
    /\ staging = [d \in {} |-> 0]
    /\ archives = [a \in {} |-> 0]
    /\ run = [p \in Exporter |-> Fresh]
    /\ faults = 0 /\ strays = 0
-----------------------------------------------------------------------------
(* The server.  Its writer is outside src/tools: one segment grows, a record *)
(* takes two steps to write, the index is written some time after the first  *)
(* segment and after each rotation, and retention removes the oldest segment.*)

Newest(s) == s \in Segments(source) /\ \A t \in Segments(source) : t <= s

BeginAppend(s) ==
    /\ Newest(s) /\ ~source[s].torn /\ source[s].last < MaxRecord
    /\ source' = Put(source, s, [source[s] EXCEPT !.torn = TRUE])

EndAppend(s) ==
    /\ Newest(s) /\ source[s].torn
    /\ source' = Put(source, s, [source[s] EXCEPT !.torn = FALSE, !.last = @ + 1])

Rotate(s) ==
    /\ Newest(s) /\ s < MaxSegment
    /\ ~source[s].torn /\ source[s].first <= source[s].last
    /\ source' = Put(source, s + 1, [first |-> source[s].last + 1, last |-> source[s].last,
                                     torn |-> FALSE])

WriteIndex ==
    /\ Indexed /\ (IndexFile \in DOMAIN source => source[IndexFile].listed # Segments(source))
    /\ source' = Put(source, IndexFile, [listed |-> Segments(source)])

\* Retention removes the oldest segment, never the one being written.
Expire(s) ==
    /\ Expires /\ s \in Segments(source)
    /\ \A t \in Segments(source) : s <= t
    /\ \E t \in Segments(source) : s < t
    /\ source' = Keep(source, DOMAIN source \ {s})

\* A live run touches its staging directory more often than StaleAge: the sweep's
\* docstring takes this for granted.
Tick ==
    /\ clock < MaxClock
    /\ \A d \in DOMAIN staging : Live(d) => clock + 1 - staging[d].mtime <= StaleAge
    /\ clock' = clock + 1
    /\ UNCHANGED <<source, staging, archives, run, faults, strays>>
-----------------------------------------------------------------------------
(* One export() call.                                                       *)

Step(p, from, to) == run[p].pc = from /\ run' = [run EXCEPT ![p] = to]

\* What failed has only its cleanup to come; the model forgets what only the steps
\* before it read.
Failing(p, to) ==
    [run[p] EXCEPT !.pc = to, !.failed = TRUE, !.label = 0, !.members = {}, !.pending = {},
                   !.mismatch = FALSE]
Refused == [Fresh EXCEPT !.pc = "failed"]

\* preflight: the chain is verified ...
Start(p) ==
    /\ run[p].pc \in Resting
    /\ run' = [run EXCEPT ![p] =
                 IF ChainOK(source) THEN [Fresh EXCEPT !.pc = "list", !.seen = Records(source)]
                 ELSE Refused]
    /\ UNCHANGED <<source, clock, staging, archives, faults, strays>>

\* ... and then the members are listed and looked at for zero-byte files.
List(p) ==
    /\ Step(p, "list",
            IF \E s \in Segments(source) : source[s].last < source[s].first /\ ~source[s].torn
              THEN Refused
              ELSE [run[p] EXCEPT !.pc = "name", !.members = DOMAIN source])
    /\ UNCHANGED <<source, clock, staging, archives, faults, strays>>

\* Mutant: the stamp is rounded up to the next instant.
NameNextInstant(p) ==
    /\ Step(p, "name", [run[p] EXCEPT !.pc = "sweep", !.label = clock + 1, !.todo = DOMAIN staging])
    /\ UNCHANGED <<source, clock, staging, archives, faults, strays>>

\* The instant is read once; it names the archive and ages the leftovers.
Name(p) ==
    /\ Step(p, "name", [run[p] EXCEPT !.pc = "sweep", !.label = clock, !.todo = DOMAIN staging])
    /\ UNCHANGED <<source, clock, staging, archives, faults, strays>>

\* Mutants: the age is not looked at; the comparison is the wrong way round.
StaleAlways(p, d) == TRUE
StaleReversed(p, d) == staging[d].mtime > run[p].label - StaleAge

Stale(p, d) == staging[d].mtime < run[p].label - StaleAge

Seen(p, d, reported) ==
    run' = [run EXCEPT ![p].todo = @ \ {d},
                       ![p].reported = IF reported THEN @ \cup {d} ELSE @]

\* A listed directory that is gone: before is_dir() looked it is skipped, after
\* it stat() or rmtree() raises and the sweep reports it.
SweepGone(p, d) ==
    /\ d \notin DOMAIN staging
    /\ \E afterIsDir \in BOOLEAN : Seen(p, d, afterIsDir)
    /\ UNCHANGED staging

SweepYoung(p, d) ==
    /\ d \in DOMAIN staging /\ ~Stale(p, d)
    /\ Seen(p, d, FALSE)
    /\ UNCHANGED staging

SweepLocked(p, d) ==
    /\ d \in DOMAIN staging /\ Stale(p, d) /\ staging[d].locked
    /\ Seen(p, d, TRUE)
    /\ UNCHANGED staging

SweepStale(p, d) ==
    /\ d \in DOMAIN staging /\ Stale(p, d) /\ ~staging[d].locked
    /\ Seen(p, d, FALSE)
    /\ staging' = Keep(staging, DOMAIN staging \ {d})

\* _sweep_stale_staging, one listed directory.
Sweep(p) ==
    /\ run[p].pc \in {"sweep", "copy"}
    /\ \E d \in run[p].todo :
          SweepGone(p, d) \/ SweepYoung(p, d) \/ SweepLocked(p, d) \/ SweepStale(p, d)
    /\ UNCHANGED <<source, clock, archives, faults, strays>>

\* mkdtemp draws a name nobody has, and the second sweep lists all but it.
MakeStaging(p) ==
    /\ run[p].todo = {} /\ run[p].label \notin DOMAIN archives
    /\ \E d \in StagingName :
          /\ d \notin DOMAIN staging /\ \A q \in Exporter : run[q].dir # d
          /\ Step(p, "sweep", [run[p] EXCEPT !.pc = "copy", !.dir = d, !.todo = DOMAIN staging,
                                             !.pending = run[p].members])
          /\ staging' = Put(staging, d, [Empty EXCEPT !.mtime = clock])
    /\ UNCHANGED <<source, clock, archives, faults, strays>>

Here(p) == run[p].dir \in DOMAIN staging
Current(p) == CHOOSE m \in run[p].pending : \A n \in run[p].pending : m <= n

\* copy_verified, once the second sweep is over: shutil.copy2 of the next member.
Copy(p) ==
    /\ run[p].todo = {} /\ run[p].pending # {}
    /\ LET m == Current(p) d == run[p].dir IN
         IF m \in DOMAIN source /\ Here(p)
           THEN /\ Step(p, "copy", [run[p] EXCEPT !.pc = "compare"])
                /\ staging' = [staging EXCEPT ![d].files = Put(@, m, source[m]), ![d].mtime = clock]
           ELSE Step(p, "copy", Failing(p, "cleanup")) /\ UNCHANGED staging
    /\ UNCHANGED <<source, clock, archives, faults, strays>>

\* ... and both sides are read again and compared.
Compare(p) ==
    /\ LET m == Current(p) IN
         Step(p, "compare",
              IF m \in DOMAIN source /\ Here(p)
                THEN [run[p] EXCEPT !.pc = "copy", !.pending = @ \ {m},
                        !.mismatch = @ \/ source[m] # staging[run[p].dir].files[m]]
                ELSE Failing(p, "cleanup"))
    /\ UNCHANGED <<source, clock, staging, archives, faults, strays>>

HasRecords(d) == \E s \in Segments(d) : d[s].torn \/ d[s].first <= d[s].last

\* stage(): a copy that differs stops here, an archive without records too, else
\* the manifest is built from the copies, but for its indexFile, which says whether
\* the source has an index now, and written beside them.
Attest(p) ==
    /\ run[p].todo = {} /\ run[p].pending = {}
    /\ IF ~run[p].mismatch /\ Here(p) /\ HasRecords(staging[run[p].dir].files)
         THEN /\ Step(p, "copy", [run[p] EXCEPT !.pc = "verify"])
              /\ staging' = [staging EXCEPT ![run[p].dir].manifest = staging[run[p].dir].files,
                                            ![run[p].dir].attested = TRUE,
                                            ![run[p].dir].index = IndexFile \in DOMAIN source,
                                            ![run[p].dir].mtime = clock]
         ELSE Step(p, "copy", Failing(p, "cleanup")) /\ UNCHANGED staging
    /\ UNCHANGED <<source, clock, archives, faults, strays>>

\* Mutant: the copies are taken to be a restorable archive unverified.
VerifyCopyTrusted(p) ==
    /\ Step(p, "verify", IF Here(p) THEN [run[p] EXCEPT !.pc = "rename"] ELSE Failing(p, "cleanup"))
    /\ UNCHANGED <<source, clock, staging, archives, faults, strays>>

VerifyCopy(p) ==
    /\ Step(p, "verify", IF Here(p) /\ Verified(staging[run[p].dir])
                           THEN [run[p] EXCEPT !.pc = "rename"]
                           ELSE Failing(p, "cleanup"))
    /\ UNCHANGED <<source, clock, staging, archives, faults, strays>>

Final(a) == [files |-> a.files, manifest |-> a.manifest, attested |-> a.attested, index |-> a.index]

\* Mutant: the rename replaces the archive that has the name.
PublishOver(p) ==
    /\ Here(p)
    /\ Step(p, "rename", [run[p] EXCEPT !.pc = "cleanup"])
    /\ archives' = Put(archives, run[p].label, Final(staging[run[p].dir]))
    /\ staging' = Keep(staging, DOMAIN staging \ {run[p].dir})
    /\ UNCHANGED <<source, clock, faults, strays>>

\* _rename_into_place: the rename lands ...
Publish(p) ==
    /\ Here(p) /\ run[p].label \notin DOMAIN archives
    /\ Step(p, "rename", [run[p] EXCEPT !.pc = "cleanup"])
    /\ archives' = Put(archives, run[p].label, Final(staging[run[p].dir]))
    /\ staging' = Keep(staging, DOMAIN staging \ {run[p].dir})
    /\ UNCHANGED <<source, clock, faults, strays>>

\* Mutant: the retry compares names and no bytes.
SameNames(p) == DOMAIN archives[run[p].label].files = run[p].members

\* redo_errors: the archive holds the members by name, and each by its bytes; a
\* member that is gone from the source raises.
SameEvidence(p) ==
    LET a == archives[run[p].label].files IN
    /\ DOMAIN a = run[p].members
    /\ \A m \in run[p].members : m \in DOMAIN source /\ source[m] = a[m]

\* Mutant: a lost race is a plain failure.
RenameRaisesRaw(p) ==
    /\ ~Here(p) \/ run[p].label \in DOMAIN archives
    /\ Step(p, "rename", Failing(p, "cleanup"))
    /\ UNCHANGED <<source, clock, staging, archives, faults, strays>>

\* ... or raises: with the name there the archive under it decides, as it does
\* for a retry, else the run failed.
RenameRaises(p) ==
    /\ ~Here(p) \/ run[p].label \in DOMAIN archives
    /\ Step(p, "rename", IF run[p].label \in DOMAIN archives /\ SameEvidence(p)
                           THEN [run[p] EXCEPT !.pc = "cleanup"]
                           ELSE Failing(p, "cleanup"))
    /\ UNCHANGED <<source, clock, staging, archives, faults, strays>>

\* The name is taken when the first sweep ends: a retry, and nothing is staged.
Redo(p) ==
    /\ run[p].todo = {} /\ run[p].label \in DOMAIN archives
    /\ Step(p, "sweep", IF SameEvidence(p) THEN [run[p] EXCEPT !.pc = "cleanup"]
                        ELSE Failing(p, "cleanup"))
    /\ UNCHANGED <<source, clock, staging, archives, faults, strays>>

Verdict(p) ==
    IF run[p].failed \/ run[p].reported # {}
      THEN [Refused EXCEPT !.reported = run[p].reported]
      ELSE [Fresh EXCEPT !.pc = "ok", !.label = run[p].label, !.seen = run[p].seen]

\* Mutant: only a run that succeeded removes its staging directory.
CleanupOnSuccess(p) ==
    /\ Step(p, "cleanup", Verdict(p))
    /\ staging' = IF run[p].failed THEN staging ELSE Keep(staging, DOMAIN staging \ {run[p].dir})
    /\ UNCHANGED <<source, clock, archives, faults, strays>>

\* finally: the staging directory goes, and the exit code is the errors' verdict.
Cleanup(p) ==
    /\ Step(p, "cleanup", Verdict(p))
    /\ staging' = Keep(staging, DOMAIN staging \ {run[p].dir})
    /\ UNCHANGED <<source, clock, archives, faults, strays>>

\* A fault; no fault that leaves a directory comes so late that the bounded clock
\* could not age what it leaves.
Fault == faults < MaxFaults /\ faults' = faults + 1
StrayFault == Fault /\ clock + StaleAge < MaxClock

\* What a run that is over leaves of its staging directory, last touched at t, with
\* whatever keeps it there.  Nobody reads what is in it, so the model forgets that.
Abandon(p, t) ==
    \E lock \in LockChoice :
       staging' = [d \in DOMAIN staging |->
                     IF d = run[p].dir THEN [Empty EXCEPT !.mtime = t, !.locked = lock]
                     ELSE staging[d]]

\* finally, with ignore_errors: the removal came to nothing, or stopped half way, and
\* neither the verdict nor anybody else hears of it.
CleanupIgnored(p) ==
    /\ StrayFault /\ Here(p)
    /\ Step(p, "cleanup", Verdict(p))
    /\ \E t \in {staging[run[p].dir].mtime, clock} : Abandon(p, t)
    /\ strays' = strays + 1
    /\ UNCHANGED <<source, clock, archives>>

\* The sweep beside the new staging directory raises before the try is entered.
SweepRaises(p) ==
    /\ StrayFault /\ Here(p)
    /\ run[p].pending = run[p].members
    /\ Step(p, "copy", Refused)
    /\ Abandon(p, staging[run[p].dir].mtime)
    /\ strays' = strays + 1
    /\ UNCHANGED <<source, clock, archives>>

\* A call raises OSError: past the try, the cleanup is still to come; before
\* mkdtemp, nothing is staged.
IOError(p) ==
    /\ Fault
    /\ \/ /\ run[p].pc \in {"list", "name", "sweep"}
          /\ run' = [run EXCEPT ![p] = Refused]
       \/ /\ run[p].pc \in {"copy", "compare", "verify", "rename"} /\ run[p].todo = {}
          /\ run' = [run EXCEPT ![p] = Failing(p, "cleanup")]
    /\ UNCHANGED <<source, clock, staging, archives, strays>>

\* The process is killed; its staging directory, if it has one, stays.
Kill(p) ==
    /\ run[p].pc \notin Resting
    /\ run' = [run EXCEPT ![p] = Fresh]
    /\ \/ /\ StrayFault /\ Here(p)
          /\ Abandon(p, staging[run[p].dir].mtime)
          /\ strays' = strays + 1
       \/ Fault /\ ~Here(p) /\ UNCHANGED <<staging, strays>>
    /\ UNCHANGED <<source, clock, archives>>

Server ==
    /\ \/ \E s \in SegmentId : BeginAppend(s) \/ EndAppend(s) \/ Rotate(s) \/ Expire(s)
       \/ WriteIndex
    /\ UNCHANGED <<clock, staging, archives, run, faults, strays>>

Work(p) ==
    \/ List(p) \/ Name(p) \/ Sweep(p) \/ Redo(p) \/ MakeStaging(p)
    \/ Copy(p) \/ Compare(p) \/ Attest(p) \/ VerifyCopy(p)
    \/ Publish(p) \/ RenameRaises(p) \/ Cleanup(p)

Export(p) ==
    \/ Start(p) \/ Work(p)
    \/ CleanupIgnored(p) \/ SweepRaises(p) \/ IOError(p) \/ Kill(p)

Next == Server \/ Tick \/ \E p \in Exporter : Export(p)

Spec == Init /\ [][Next]_vars
-----------------------------------------------------------------------------
RunState == [pc : Phases, seen : SUBSET (1..MaxRecord), members : SUBSET File, label : Instant,
             todo : SUBSET StagingName, reported : SUBSET StagingName,
             dir : StagingName \cup {NoName}, pending : SUBSET File,
             mismatch : BOOLEAN, failed : BOOLEAN]

SourceOK ==
    /\ IsDirectory(source) /\ Segments(source) # {}
    /\ IndexFile \in DOMAIN source => Indexed

StagingOK ==
    /\ DOMAIN staging \subseteq StagingName
    /\ \A d \in DOMAIN staging :
          /\ DOMAIN staging[d] = DOMAIN Empty
          /\ IsDirectory(staging[d].files) /\ IsDirectory(staging[d].manifest)
          /\ staging[d].mtime \in Instant

ArchivesOK ==
    /\ DOMAIN archives \subseteq Instant
    /\ \A a \in DOMAIN archives : IsDirectory(archives[a].files)

\* The types.
TypeOK ==
    /\ SourceOK /\ StagingOK /\ ArchivesOK
    /\ clock \in Instant
    /\ run \in [Exporter -> RunState]
    /\ faults \in 0..MaxFaults /\ strays \in 0..faults

\* Every archive in the root restores: its manifest attests its files and its
\* chain verifies, whatever the server, another export or a kill did meanwhile.
ArchivesRestorable == \A a \in DOMAIN archives : Verified(archives[a])

\* An archive, once it has its name, is never removed and never changed.
ArchivesKept ==
    [][\A a \in DOMAIN archives : a \in DOMAIN archives' /\ archives'[a] = archives[a]]_vars

\* Exit code 0 means that a restorable archive under this run's name holds every
\* record the run's preflight saw, whether this run wrote it, found it written by
\* a first attempt, or lost the race for the name.
SuccessCovers ==
    \A p \in Exporter : run[p].pc = "ok" =>
        /\ run[p].label \in DOMAIN archives
        /\ Verified(archives[run[p].label])
        /\ run[p].seen \subseteq Records(archives[run[p].label].files)

\* No sweep takes the staging directory of a run that is still filling it, nor
\* any file out of it.
LiveStagingKept ==
    \A p \in Exporter : run[p].pc \in Staged \ {"cleanup"} =>
        /\ Here(p)
        /\ run[p].members \ run[p].pending \subseteq DOMAIN staging[run[p].dir].files

\* A run that ends leaves no staging directory, but for one that was killed, whose
\* sweep raised before the try, or whose removal came to nothing: an error while
\* copying, verifying or renaming leaves none, nor does a lost race or a retry.
NothingLeftBehind ==
    Cardinality({d \in DOMAIN staging : ~Live(d)}) <= strays

\* Neither a sweep nor an end takes or leaves a staging directory wrongly.
StagingSound == LiveStagingKept /\ NothingLeftBehind

\* While nothing is written and nothing has failed, two exports never fail each
\* other: the loser of a race for a name, and a retry, find their own evidence.  The
\* one way left to fail is a sweep that reported a directory as undeletable.
OnlySweepFails ==
    source = [f \in {1} |-> [first |-> 1, last |-> 1, torn |-> FALSE]] /\ faults = 0 =>
        \A p \in Exporter : run[p].pc = "failed" => run[p].reported # {}

\* An archive that an exit code of 0 promises is there, verifies and holds what the
\* preflight saw, and so does every other in the root, while the server appends,
\* rotates, writes its index and expires segments between any two steps.
ExportsSound == TypeOK /\ ArchivesRestorable /\ SuccessCovers

\* The service of ArchiveStore, seen through the exports: a request lasts from
\* the preflight to the exit code.
Service == INSTANCE ArchiveStore WITH
    Client  <- Exporter,
    Stamp   <- Instant,
    written <- LET s == CHOOSE s \in SegmentId : Newest(s) IN source[s].last,
    stored  <- [a \in DOMAIN archives |-> Records(archives[a].files)],
    request <- [p \in Exporter |->
                  [status |-> IF run[p].pc \in Resting THEN run[p].pc ELSE "asked",
                   need   |-> run[p].seen]]

\* The exports implement the service of ArchiveStore.
ServiceSpec == Service!Spec
=============================================================================
