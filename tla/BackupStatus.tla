---------------------------- MODULE BackupStatus ----------------------------
(***************************************************************************)
(* tools/backup_status.py, run beside the exports whose archives it judges.*)
(* The exports are those of ArchiveStore, with the instants at which       *)
(* records are written and archives dated; once in the root, an archive    *)
(* may rot, lose its manifest or be removed.                               *)
(***************************************************************************)
EXTENDS Integers, FiniteSets

CONSTANTS
    Client,         \* whoever runs an export
    NoArchive,
    MaxAge,         \* --max-age-hours, in clock units
    Slack,          \* how much later than its preflight an export may date its
                    \* archive: the preflight's duration, and clocks that disagree
    MaxClock,       \* bound: the last instant
    MaxRecord,      \* bound: records the server writes
    MaxFaults       \* bound: archives that something happens to

ASSUME StatusAssumption ==
    /\ MaxAge \in Nat \ {0} /\ Slack \in Nat
    /\ MaxClock \in Nat /\ MaxRecord \in Nat \ {0} /\ MaxFaults \in Nat
    /\ NoArchive \notin Int

Instant == 0..MaxClock
Stamp == 0..(MaxClock + Slack)

VARIABLES
    written,    \* how many records were written
    stored,     \* stamp |-> the records that archive was written with
    request,    \* client |-> its export
    clock,      \* the wall clock
    at,         \* record |-> the instant it was written
    asked,      \* client |-> the instant of its preflight
    health,     \* stamp |-> what became of the archive
    check,      \* the state of the check() call
    faults

exports == <<written, stored, request>>
vars == <<written, stored, request, clock, at, asked, health, check, faults>>

Store == INSTANCE ArchiveStore

Condition == {"sound", "rotten", "undated", "removed"}
Fresh == [pc |-> "idle", moment |-> 0, found |-> {}, age |-> [n \in {} |-> 0],
          undated |-> {}, failed |-> {}, newest |-> NoArchive, quiet |-> TRUE, harmed |-> {}]
Resting == {"idle", "green", "red"}
-----------------------------------------------------------------------------
Init ==
    /\ written = 1 /\ Store!Init
    /\ clock = 0
    /\ at = [r \in {1} |-> 0]
    /\ asked = [c \in Client |-> 0]
    /\ health = [n \in {} |-> 0]
    /\ check = Fresh
    /\ faults = 0
-----------------------------------------------------------------------------
(* The server, the exports and what happens to archives.                    *)

Write ==
    /\ written < MaxRecord /\ written' = written + 1 /\ Store!Write
    /\ at' = [r \in 1..written' |-> IF r = written' THEN clock ELSE at[r]]
    /\ UNCHANGED <<clock, asked, health, check, faults>>

Ask(c) ==
    /\ Store!Ask(c)
    /\ asked' = [asked EXCEPT ![c] = clock]
    /\ UNCHANGED <<clock, at, health, check, faults>>

\* An archive comes into the root, dated between its preflight and Slack later.
Land(c) ==
    /\ Store!Store(c)
    /\ DOMAIN stored' \ DOMAIN stored \subseteq asked[c]..(asked[c] + Slack)
    /\ health' = [n \in DOMAIN stored' |-> IF n \in DOMAIN stored THEN health[n]
                                           ELSE "sound"]
    /\ check' = [check EXCEPT !.quiet = FALSE]
    /\ UNCHANGED <<clock, at, asked, faults>>

\* The check sees no exit codes: however an export ends, it is over.
Answer(c) ==
    /\ request[c].status = "asked"
    /\ Store!Refuse(c) /\ request'[c].status = "idle"
    /\ UNCHANGED <<clock, at, asked, health, check, faults>>

\* A sound archive stops verifying, loses its manifest or is removed.
Harm(n) ==
    /\ faults < MaxFaults /\ faults' = faults + 1
    /\ n \in DOMAIN health /\ health[n] = "sound"
    /\ \E c \in Condition \ {"sound"} : health' = [health EXCEPT ![n] = c]
    /\ check' = [check EXCEPT !.quiet = FALSE, !.harmed = @ \cup {n}]
    /\ UNCHANGED <<exports, clock, at, asked>>

Tick ==
    /\ clock < MaxClock /\ clock' = clock + 1
    /\ UNCHANGED <<exports, at, asked, health, check, faults>>
-----------------------------------------------------------------------------
(* One check() and its report().                                            *)

Step(from, to) == check.pc = from /\ check' = to
Ended(verdict) ==
    [Fresh EXCEPT !.pc = verdict, !.moment = check.moment, !.harmed = check.harmed]
Quietly == UNCHANGED <<exports, clock, at, asked, health, faults>>

\* Mutant: the instant is rounded up.
BeginLate ==
    /\ check.pc \in Resting
    /\ check' = [Fresh EXCEPT !.pc = "list", !.moment = clock + 1]
    /\ Quietly

\* The instant ages are measured against is read first.
Begin ==
    /\ check.pc \in Resting
    /\ check' = [Fresh EXCEPT !.pc = "list", !.moment = clock]
    /\ Quietly

Present == {n \in DOMAIN health : health[n] # "removed"}

\* archive_dirs: a root that holds no archive is reported.
List ==
    /\ Step("list", IF Present = {} THEN Ended("red")
                    ELSE [check EXCEPT !.pc = "date", !.found = Present])
    /\ Quietly

Dated(n) == health[n] \in {"sound", "rotten"}

\* created_utc of one archive of the listing; without a readable manifest, or gone
\* since it was listed, it has no date.
Date(n) ==
    /\ n \in check.found
    /\ Step("date",
            IF Dated(n)
              THEN [check EXCEPT !.found = @ \ {n},
                      !.age = [m \in DOMAIN @ \cup {n} |-> IF m = n THEN check.moment - n ELSE @[m]]]
              ELSE [check EXCEPT !.found = @ \ {n}, !.undated = @ \cup {n}])
    /\ Quietly

Verifies(n) == health[n] = "sound"
Youngest(n, N) == n \in N /\ \A m \in N : check.age[n] <= check.age[m]

\* The dated archives are verified, newest first, up to the first that verifies.
Verify(n) ==
    /\ check.found = {} /\ check.newest = NoArchive
    /\ Youngest(n, DOMAIN check.age \ check.failed)
    /\ Step("date", IF Verifies(n) THEN [check EXCEPT !.newest = n]
                    ELSE [check EXCEPT !.failed = @ \cup {n}])
    /\ Quietly

\* Mutant: only the newest archive's neighbour is looked at.
GapsFirst(age) ==
    {g \in (DOMAIN age) \X (DOMAIN age) :
        /\ Youngest(g[1], DOMAIN age) /\ age[g[2]] - age[g[1]] > MaxAge
        /\ ~\E m \in DOMAIN age : age[g[1]] < age[m] /\ age[m] < age[g[2]]}

\* gap_errors: neighbours in the series that are more than the window apart.
Gaps(age) ==
    {g \in (DOMAIN age) \X (DOMAIN age) :
        /\ age[g[2]] - age[g[1]] > MaxAge
        /\ ~\E m \in DOMAIN age : age[g[1]] < age[m] /\ age[m] < age[g[2]]}

\* Neighbours in the series that are exactly the window apart.
OnTheWindow(age) ==
    {g \in (DOMAIN age) \X (DOMAIN age) :
        /\ age[g[2]] - age[g[1]] = MaxAge
        /\ ~\E m \in DOMAIN age : age[g[1]] < age[m] /\ age[m] < age[g[2]]}

\* Mutant: an age is compared with the window only.
InWindowUnsigned(age) == age <= MaxAge

InWindow(age) == 0 <= age /\ age <= MaxAge

\* report: no finding.
Clean ==
    /\ check.undated = {} /\ check.failed = {} /\ Gaps(check.age) = {}
    /\ check.newest # NoArchive /\ InWindow(check.age[check.newest])

\* Ages are hours in floating point, each rounded on its own.  Compared with the window
\* an age is still exact, but the difference of two that are the window apart may come
\* out above it, which is a gap.
Report ==
    /\ check.found = {} /\ (check.newest # NoArchive \/ DOMAIN check.age \subseteq check.failed)
    /\ \E above \in SUBSET OnTheWindow(check.age) :
          Step("date", Ended(IF Clean /\ above = {} THEN "green" ELSE "red"))
    /\ Quietly

Checking == Begin \/ List \/ Report \/ \E n \in Stamp : Date(n) \/ Verify(n)

Surroundings ==
    \/ Write \/ Tick
    \/ \E c \in Client : Ask(c) \/ Land(c) \/ Answer(c)
    \/ \E n \in Stamp : Harm(n)

Next == Surroundings \/ Checking

Spec == Init /\ [][Next]_vars
-----------------------------------------------------------------------------
\* The types.
TypeOK ==
    /\ Store!TypeOK
    /\ clock \in Instant
    /\ at \in [1..written -> Instant]
    /\ asked \in [Client -> Instant]
    /\ health \in [DOMAIN stored -> Condition]
    /\ DOMAIN check = DOMAIN Fresh
    /\ check.pc \in Resting \cup {"list", "date"} /\ check.moment \in Instant
    /\ check.found \subseteq Stamp /\ check.undated \subseteq Stamp
    /\ DOMAIN check.age \subseteq Stamp /\ check.failed \subseteq DOMAIN check.age
    /\ check.newest \in DOMAIN check.age \cup {NoArchive} /\ check.quiet \in BOOLEAN
    /\ check.harmed \subseteq Stamp
    /\ faults \in 0..MaxFaults

\* Exit code 0 means the RPO: an archive dated inside the window, sound when the
\* check began, holds every record that is older than the window, whatever lands,
\* rots or goes while the check reads the root.
GreenMeansCovered ==
    check.pc = "green" =>
        \E n \in DOMAIN stored :
            /\ check.moment - MaxAge <= n /\ n <= check.moment
            /\ health[n] = "sound" \/ n \in check.harmed
            /\ \A r \in 1..written : at[r] < check.moment - MaxAge - Slack => r \in stored[n]

\* What the check answers for (OPERATIONS.md, Targets): every archive present has a
\* date, none of them in the future, the newest verifies, and at every instant since
\* the first of them the last one before it was at most MaxAge old.
Promise(moment) ==
    /\ Present # {}
    /\ \A n \in Present : Dated(n) /\ n <= moment
    /\ \A n \in Present : (\A m \in Present : m <= n) => Verifies(n)
    /\ \A n \in Present, t \in Instant :
          (n < t /\ t <= moment) => \E m \in Present : t - MaxAge <= m /\ m < t

\* Two archives present, with none between them, are exactly the window apart.
Edged ==
    \E n, m \in Present : m - n = MaxAge /\ ~\E k \in Present : n < k /\ k < m

\* A check in whose time nothing came into the root and nothing happened to it passes
\* only what keeps the promise, and all of it but a root where neighbours are exactly
\* the window apart: there the rounding of the ages decides.
VerdictExact ==
    [][ (check.pc \notin Resting /\ check'.pc \in Resting /\ check.quiet) =>
          /\ check'.pc = "green" => Promise(check.moment)
          /\ Promise(check.moment) /\ ~Edged => check'.pc = "green" ]_vars

\* OPERATIONS.md: "An archive counts as existing only when `make verify-archive
\* ARCHIVE=<dir>` exits 0".  After exit code 0, no two neighbours among the archives
\* that exist are more than the window apart.
ExistingInWindow ==
    [][ (check.pc \notin Resting /\ check'.pc = "green" /\ check.quiet) =>
          \A n, m \in {k \in Present : Verifies(k)} :
              m - n > MaxAge => \E k \in Present : Verifies(k) /\ n < k /\ k < m ]_vars
=============================================================================
