---------------------------- MODULE ReplayContract --------------------------
(***************************************************************************)
(* tools/replay_contract_check.py: a replay trace that is edited, resealed *)
(* with --fix-fingerprint and checked.                                     *)
(*                                                                         *)
(* A trace promises, per case, the findings, actions and work of a replay, *)
(* and seals the promise with a digest over the outcome projection.  The   *)
(* digest is the projection itself (no two share a SHA-256).  Two values   *)
(* stand for all the wrong ones: Ill, of another type or missing, and NaN. *)
(***************************************************************************)
EXTENDS Findings, Integers, Sequences, SequencesExt

CONSTANTS
    NaN,            \* a number JSON has no literal for
    ZeroDigest,     \* a digest of no projection
    Registered,     \* the detector ids of the spec
    ShippedTrace,   \* the fixtures as shipped
    HeaderEdit,     \* <<field, value>>: what an edit may write in each part
    ClockEdit, BudgetEdit, CaseEdit, ExpectEdit, EventEdit,
    MaxTraceEdits

\* What may stand where a number, a name or a part of a trace belongs.
Quantity == Int \union {Ill, NaN}
Word == STRING \union {Ill}

EventType == [sequence : Quantity, tick : Quantity, claimed : Quantity, limit : Quantity]

ExpectType == [findings : Seq(STRING) \union {Ill}, actions : (SUBSET STRING) \union {Ill}, work : Quantity]

CaseType == [class : Word, events : Seq(EventType) \union {Ill}, expect : ExpectType \union {Ill}]

BudgetType == [events : Quantity, work : Quantity]

OutcomeType ==
    [header : (Word \union {NaN}) \X Word \X Quantity \X (BudgetType \union {Ill}),
     clock : STRING \X Quantity,
     cases : Seq(Word \X ExpectType)]

ClockType == [start : STRING, ms : Quantity, fingerprint : OutcomeType \union {ZeroDigest, Ill}]

TraceType ==
    [detectorId : Word, build : Word \union {NaN}, seed : Quantity,
     workBudget : BudgetType \union {Ill}, determinism : ClockType \union {Ill},
     cases : Seq(CaseType) \union {Ill}]

ASSUME WrongValues == {Ill, NaN, ZeroDigest} \intersect Int = {} /\ Ill \notin OutcomeType \union ClockType

ASSUME TraceAssumption ==
    /\ ShippedTrace \subseteq TraceType
    /\ HeaderEdit \subseteq ({"detectorId"} \X Word) \union ({"build"} \X (Word \union {NaN}))
            \union ({"seed"} \X Quantity) \union ({"cases", "workBudget", "determinism"} \X {Ill})
    /\ BudgetEdit \subseteq {"events", "work"} \X Quantity
    /\ ClockEdit \subseteq ({"start"} \X STRING) \union ({"ms"} \X Quantity)
            \union ({"fingerprint"} \X {ZeroDigest, Ill})
    /\ CaseEdit \subseteq ({"class"} \X Word) \union ({"events", "expect"} \X {Ill})
    /\ ExpectEdit \subseteq ({"findings"} \X (Seq(STRING) \union {Ill}))
            \union ({"actions"} \X ((SUBSET STRING) \union {Ill})) \union ({"work"} \X Quantity)
    /\ EventEdit \subseteq {"sequence", "tick", "claimed", "limit"} \X Quantity

VARIABLES
    trace,          \* the fixture
    traceEdits      \* how many edits were made

traceVars == <<trace, traceEdits>>

IsInt(v) == v \in Int

---------------------------------------------------------------------------
(* The outcome projection and its digest. *)

\* What an expectation that is not an object leaves of each of its keys.
Expect(case) ==
    IF case.expect = Ill THEN [findings |-> Ill, actions |-> Ill, work |-> Ill] ELSE case.expect

Expectations(t) == [i \in DOMAIN t.cases |-> Expect(t.cases[i])]

Projection(t, expects) ==
    [header |-> <<t.build, t.detectorId, t.seed, t.workBudget>>,
     clock |-> <<t.determinism.start, t.determinism.ms>>,
     cases |-> [i \in DOMAIN t.cases |-> <<t.cases[i].class, expects[i]>>]]

Outcome(t) == Projection(t, Expectations(t))

---------------------------------------------------------------------------
(* The contract: what is wrong with a trace. *)

NonFinite(t) ==
    \/ NaN \in {t.build, t.seed}
    \/ t.cases # Ill /\ \E case \in Range(t.cases) :
            \/ Expect(case).work = NaN
            \/ case.events # Ill /\ \E e \in Range(case.events) : NaN \in {e.claimed, e.limit}

Increasing(s) == \A i, j \in DOMAIN s : i < j => s[i] < s[j]

NeverDecreasing(s) == \A i, j \in DOMAIN s : i < j => s[i] <= s[j]

\* Integers, and in the order asked for.
InOrder(events, field, Order(_)) ==
    /\ \A e \in Range(events) : IsInt(e[field])
    /\ Order([i \in DOMAIN events |-> events[i][field]])

\* Mutant: only the events of a case that expects a finding are held against the limit.
StackInvariantErrorsIfExpected(events, expected) == Broken([
    quantities |-> \E e \in Range(events) : ~(IsInt(e.claimed) /\ IsInt(e.limit)),
    disagrees |-> expected /\ \E e \in Range(events) :
        IsInt(e.claimed) /\ IsInt(e.limit) /\ ~(e.claimed > e.limit)])

\* The limit itself may be claimed.
StackInvariantErrors(events, expected) == Broken([
    quantities |-> \E e \in Range(events) : ~(IsInt(e.claimed) /\ IsInt(e.limit)),
    disagrees |-> \E e \in Range(events) :
        IsInt(e.claimed) /\ IsInt(e.limit) /\ (e.claimed > e.limit) # expected])

WellShaped(case) == case.events # Ill /\ case.expect # Ill

CaseErrors(case, detectorId) ==
    IF ~WellShaped(case) THEN {"shape"}
    ELSE LET findings == IF case.expect.findings = Ill THEN <<>> ELSE case.expect.findings
         IN  StackInvariantErrors(case.events, findings # <<>>) \union Broken([
                sequence |-> ~InOrder(case.events, "sequence", Increasing),
                tick |-> ~InOrder(case.events, "tick", NeverDecreasing),
                work |-> ~IsInt(case.expect.work),
                findings |-> case.expect.findings = Ill,
                normal |-> case.class = "normal" /\ findings # <<>>,
                violation |-> case.class = "violation" /\ findings # <<detectorId>>,
                actions |-> case.expect.actions \notin {Ill, {}}])

\* What one case adds to the events and the work of the run.
CaseEvents(case) == IF WellShaped(case) THEN Len(case.events) ELSE 0

CaseWork(case) == IF WellShaped(case) /\ IsInt(case.expect.work) THEN case.expect.work ELSE 0

\* What some of the cases charge.
Charged(cases, kept, Of(_)) ==
    Sums([i \in DOMAIN cases |-> IF i \in kept THEN Of(cases[i]) ELSE 0])[Len(cases)]

\* A digest is compared once the rest of the block is sound.
DeterminismErrors(t) ==
    IF t.determinism = Ill THEN {"determinism"}
    ELSE LET block == Broken([start |-> t.determinism.start = "bad",
                              ms |-> ~(IsInt(t.determinism.ms) /\ t.determinism.ms >= 0),
                              digest |-> t.determinism.fingerprint = Ill])
         IN  block \union Broken([fingerprint |->
                block = {} /\ t.determinism.fingerprint # Outcome(t)])

BudgetErrors(budget, events, work) ==
    IF budget = Ill THEN {"budget"}
    ELSE Broken([maxEvents |-> ~IsInt(budget.events) \/ events > budget.events,
                 maxWorkUnits |-> ~IsInt(budget.work) \/ work > budget.work])

\* What is wrong with a trace whose detector and cases can be read.
ReadableErrors(t) ==
    (UNION {CaseErrors(case, t.detectorId) : case \in Range(t.cases)})
    \union DeterminismErrors(t)
    \union BudgetErrors(t.workBudget, Charged(t.cases, DOMAIN t.cases, CaseEvents),
                        Charged(t.cases, DOMAIN t.cases, CaseWork))
    \union Broken([
        unknown |-> t.detectorId \notin Registered,
        classes |-> {case.class : case \in Range(t.cases)} \ {Ill} # {"normal", "violation"},
        seed |-> ~(IsInt(t.seed) /\ t.seed >= 0)])

\* An unreadable trace is not looked into.
ContractErrors(t) ==
    IF NonFinite(t) THEN {"nonFinite"}
    ELSE IF t.detectorId = Ill THEN {"detectorId"}
    ELSE IF t.cases = Ill THEN {"cases"} \union Broken([unknown |-> t.detectorId \notin Registered])
    ELSE ReadableErrors(t)

---------------------------------------------------------------------------
(* config/schemas/replay-trace.v1.schema.json, which the documentation     *)
(* gate holds the fixture to.                                              *)

Reaches(v, least) == IsInt(v) /\ v >= least

EventSchemaOK(e) ==
    /\ Reaches(e.sequence, 1) /\ Reaches(e.tick, 0)
    /\ Reaches(e.claimed, 0) /\ Reaches(e.limit, 1)

CaseSchemaOK(case) ==
    /\ WellShaped(case)
    /\ case.class \in {"normal", "violation"}
    /\ Len(case.events) >= 1
    /\ \A e \in Range(case.events) : EventSchemaOK(e)
    /\ case.expect.findings # Ill
    /\ case.expect.actions = {}
    /\ Reaches(case.expect.work, 1)

SchemaOK(t) ==
    /\ t.detectorId # Ill /\ t.build \notin {Ill, NaN} /\ Reaches(t.seed, 0)
    /\ t.determinism # Ill /\ t.determinism.fingerprint # Ill
    /\ Reaches(t.determinism.ms, 0)
    /\ t.workBudget # Ill /\ Reaches(t.workBudget.events, 1) /\ Reaches(t.workBudget.work, 1)
    /\ t.cases # Ill /\ Len(t.cases) >= 2
    /\ \A case \in Range(t.cases) : CaseSchemaOK(case)

---------------------------------------------------------------------------
(* The fixture is edited by hand, and resealed. *)

TraceInit == trace \in ShippedTrace /\ traceEdits = 0

PutTrace(t) ==
    /\ traceEdits < MaxTraceEdits
    /\ t # trace
    /\ trace' = t
    /\ traceEdits' = traceEdits + 1

EditHeader ==
    \/ \E e \in HeaderEdit : PutTrace([trace EXCEPT ![e[1]] = e[2]])
    \/ trace.workBudget # Ill /\ \E e \in BudgetEdit : PutTrace([trace EXCEPT !.workBudget[e[1]] = e[2]])

EditClock ==
    /\ trace.determinism # Ill
    /\ \E e \in ClockEdit : PutTrace([trace EXCEPT !.determinism[e[1]] = e[2]])

EditCase ==
    /\ trace.cases # Ill
    /\ \E i \in DOMAIN trace.cases :
        \/ PutTrace([trace EXCEPT !.cases = RemoveAt(@, i)])
        \/ \E e \in CaseEdit : PutTrace([trace EXCEPT !.cases[i][e[1]] = e[2]])
        \/ /\ trace.cases[i].expect # Ill
           /\ \E e \in ExpectEdit : PutTrace([trace EXCEPT !.cases[i].expect[e[1]] = e[2]])

EditEvent ==
    /\ trace.cases # Ill
    /\ \E i \in {n \in DOMAIN trace.cases : trace.cases[n].events \notin {Ill, <<>>}} :
        LET events == trace.cases[i].events
        IN  \/ \E e \in EventEdit : PutTrace([trace EXCEPT
                    !.cases[i].events = <<[Head(@) EXCEPT ![e[1]] = e[2]]>> \o Tail(@)])
            \/ \E e \in EventEdit : PutTrace([trace EXCEPT
                    !.cases[i].events = Append(@, [Last(@) EXCEPT ![e[1]] = e[2]])])
            \/ PutTrace([trace EXCEPT !.cases[i].events = Front(@)])

\* A projection with no JSON, or no cases, ends the command with a traceback.
Sealable(t) ==
    /\ t.determinism # Ill
    /\ t.cases # Ill
    /\ NaN \notin {t.build, t.seed}
    /\ \A case \in Range(t.cases) : Expect(case).work # NaN

\* Mutant: a trace without one digest to replace is given one.
SealAnything ==
    /\ Sealable(trace)
    /\ trace' = [trace EXCEPT !.determinism.fingerprint = Outcome(trace)]
    /\ UNCHANGED traceEdits

\* --fix-fingerprint replaces the one digest the file's text holds.
Seal ==
    /\ Sealable(trace)
    /\ trace.determinism.fingerprint # Ill
    /\ trace' = [trace EXCEPT !.determinism.fingerprint = Outcome(trace)]
    /\ UNCHANGED traceEdits

SealRefused ==
    /\ Sealable(trace) => trace.determinism.fingerprint = Ill
    /\ UNCHANGED traceVars

TraceEdit == EditHeader \/ EditClock \/ EditCase \/ EditEvent

TraceNext == TraceEdit \/ Seal \/ SealRefused

TraceSpec == TraceInit /\ [][TraceNext]_traceVars

---------------------------------------------------------------------------
(* What acceptance is worth to the harness that will replay the trace. *)

Accepted(t) == SchemaOK(t) /\ ContractErrors(t) = {}

\* What the stack detector makes of a case's events, in observe mode.
Replayed(t) ==
    [i \in DOMAIN t.cases |->
        [findings |-> IF \E e \in Range(t.cases[i].events) : e.claimed > e.limit
                      THEN <<t.detectorId>> ELSE <<>>,
         actions |-> {},
         work |-> t.cases[i].expect.work]]

(* A replay of an accepted trace, however it was edited and resealed on the  *)
(* way, produces the digest the trace records over budget, clock and cases,  *)
(* and one of its cases fires the detector and another does not.  The contract *)
(* alone does not promise it: a violation case without events passes         *)
(* replay_contract_check.py:237, and the schema's minItems refuses it.       *)
ReplayReproduces ==
    Accepted(trace) =>
        /\ Projection(trace, Replayed(trace)) = trace.determinism.fingerprint
        /\ {Len(Replayed(trace)[i].findings) : i \in DOMAIN trace.cases} = {0, 1}

(* No part of an accepted trace's cases exceeds the budget, run alone or     *)
(* together: a case that charges less than nothing would pay for another's   *)
(* work in replay_contract_check.py:279, and the schema's minimum refuses it. *)
BudgetCovers ==
    Accepted(trace) =>
        \A kept \in SUBSET DOMAIN trace.cases :
            /\ Charged(trace.cases, kept, CaseEvents) <= trace.workBudget.events
            /\ Charged(trace.cases, kept, CaseWork) <= trace.workBudget.work

(* Resealing answers the stale digest and nothing else: every other finding  *)
(* stays, and none appears.                                                  *)
SealHidesNothing ==
    [][trace' # trace /\ Seal => ContractErrors(trace') = ContractErrors(trace) \ {"fingerprint"}]_traceVars

\* The trace: a replay of what is accepted reproduces the digest it records, within the
\* budget it declares.
ReplayVerdict == ReplayReproduces /\ BudgetCovers

=============================================================================
