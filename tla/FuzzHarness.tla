----------------------------- MODULE FuzzHarness ----------------------------
(***************************************************************************)
(* The seeded fuzzers: a run draws the inputs of its targets from one      *)
(* stream, builds each in a scratch directory it removes afterwards, and   *)
(* stops at the first input that breaks an invariant.  Runs of one harness *)
(* share the scratch directory.                                            *)
(***************************************************************************)
EXTENDS RunDir, Sequences, FiniteSets

CONSTANTS
    HarnessRun,         \* the runs of a harness, numbered as they start
    Iterations,         \* what --iterations may be
    MaxBeside           \* runs that a run may be started beside

\* fuzz_args: "a run of zero tests proves nothing".
ASSUME IterationsAssumption == Iterations \subseteq Nat \ {0}

VARIABLES
    runs,               \* run -> where it stands
    scratch,            \* the directories below RUNS: iteration -> the inputs built in it
    breaks,             \* the inputs that break an invariant, by target and position
    disturbed           \* the runs that ran beside another

harnessVars == <<runs, scratch, breaks, disturbed>>

\* fuzz_backup_status: how many inputs each target that draws has, and the targets
\* whose inputs are archives on disk.
Targets(n) == <<n, IF n \div 2 > 1 THEN n \div 2 ELSE 1, n>>
OnDisk == {1, 2}

IdleRun == [state |-> "idle", n |-> 0, target |-> 1, i |-> 1, at |-> 0, report |-> <<>>]
Busy(r) == runs[r].state \in {"ready", "built"}
Others(r) == {q \in HarnessRun \ {r} : Busy(q)}

\* No run yet, and nothing below RUNS; which inputs break an invariant is up to the code.
HarnessInit ==
    /\ runs = [r \in HarnessRun |-> IdleRun]
    /\ scratch = <<>>
    /\ disturbed = {}

\* random.Random(args.seed): a run draws from the start of the stream.
StartAt == 0

StartRun(r) ==
    /\ runs[r].state = "idle" /\ \A q \in HarnessRun : q < r => runs[q].state # "idle"
    /\ Cardinality(Others(r)) <= MaxBeside
    /\ \E n \in Iterations :
        runs' = [runs EXCEPT ![r] = [IdleRun EXCEPT !.state = "ready", !.n = n, !.at = StartAt]]
    /\ disturbed' = disturbed \union (IF Others(r) = {} THEN {} ELSE {r} \union Others(r))
    /\ UNCHANGED <<scratch, breaks>>

ScratchOf(r) == <<runs[r].target, runs[r].i>>

\* Mutant: what a killed run has left in the directory stays.
ClearedNot(place) == IF place \in DOMAIN scratch THEN scratch[place] ELSE {}
\* The directory is cleared of what a killed run has left in it.
Cleared(place) == {}

BuildInput(r) ==
    /\ runs[r].state = "ready" /\ runs[r].target <= Len(Targets(runs[r].n))
    /\ scratch' = [place \in DOMAIN scratch \union {p \in {ScratchOf(r)} : p[1] \in OnDisk} |->
                    IF place = ScratchOf(r) THEN Cleared(place) \union {runs[r].at} ELSE scratch[place]]
    /\ runs' = [runs EXCEPT ![r].state = "built"]
    /\ UNCHANGED <<breaks, disturbed>>

NextInput(run) ==
    IF run.i < Targets(run.n)[run.target]
    THEN [run EXCEPT !.state = "ready", !.i = @ + 1, !.at = @ + 1]
    ELSE [run EXCEPT !.state = "ready", !.i = 1, !.target = @ + 1, !.at = @ + 1]

\* What is read is what is in the directory, and it is removed however the check ends.
CheckInput(r) ==
    /\ runs[r].state = "built"
    /\ LET read == IF runs[r].target \notin OnDisk THEN {runs[r].at}
                   ELSE IF ScratchOf(r) \in DOMAIN scratch THEN scratch[ScratchOf(r)] ELSE {}
           ok == read = {runs[r].at} /\ <<runs[r].target, runs[r].at>> \notin breaks
       IN  IF ok
           THEN /\ runs' = [runs EXCEPT ![r] = NextInput(@)]
                /\ scratch' = [place \in DOMAIN scratch \ {ScratchOf(r)} |-> scratch[place]]
           ELSE /\ runs' = [runs EXCEPT ![r].state = "done",
                                        ![r].report = <<runs[r].target, runs[r].at, read>>]
                /\ scratch' = <<>>
    /\ UNCHANGED <<breaks, disturbed>>

Finish(r) ==
    /\ runs[r].state = "ready" /\ runs[r].target > Len(Targets(runs[r].n))
    /\ runs' = [runs EXCEPT ![r].state = "done"]
    /\ scratch' = <<>>
    /\ UNCHANGED <<breaks, disturbed>>

\* Nothing is removed by a run that is killed.
KillRun(r) ==
    /\ Busy(r)
    /\ runs' = [runs EXCEPT ![r].state = "killed"]
    /\ UNCHANGED <<scratch, breaks, disturbed>>

HarnessNext ==
    \E r \in HarnessRun : StartRun(r) \/ BuildInput(r) \/ CheckInput(r) \/ Finish(r) \/ KillRun(r)

HarnessSpec == HarnessInit /\ [][HarnessNext]_harnessVars

---------------------------------------------------------------------------

(* "A failing seed replays exactly": two runs of the same iterations report   *)
(* the same input, or both none, whatever a killed run has left behind, as    *)
(* long as neither has run beside another.  An input of the first target is   *)
(* found again by any run that gets as far.                                   *)
SeedReplays ==
    \A r, q \in {p \in HarnessRun \ disturbed : runs[p].state = "done"} :
        \/ runs[r].report = runs[q].report
        \/ runs[r].n # runs[q].n
            /\ ~(runs[r].report # <<>> /\ runs[r].report[1] = 1 /\ runs[r].n <= runs[q].n)
            /\ ~(runs[q].report # <<>> /\ runs[q].report[1] = 1 /\ runs[q].n <= runs[r].n)

\* The fuzzers: a seed replays, and each input stands alone.
FuzzVerdict == SeedReplays /\ InputStandsAlone

=============================================================================
