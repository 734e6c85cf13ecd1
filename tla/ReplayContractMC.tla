--------------------------- MODULE ReplayContractMC -------------------------
EXTENDS ReplayContract

TraceEvent(claimed) == [sequence |-> 1, tick |-> 1, claimed |-> claimed, limit |-> 2]

Case(class, findings, claimed) ==
    [class |-> class, events |-> <<TraceEvent(claimed)>>,
     expect |-> [findings |-> findings, actions |-> {}, work |-> 1]]

Unsealed ==
    [detectorId |-> "stack", build |-> "b1", seed |-> 1,
     workBudget |-> [events |-> 2, work |-> 3],
     determinism |-> [start |-> "noon", ms |-> 0, fingerprint |-> ZeroDigest],
     cases |-> <<Case("normal", <<>>, 2), Case("violation", <<"stack">>, 3)>>]

Begun ==
    [detectorId |-> Ill, build |-> "b1", seed |-> 1, workBudget |-> Ill, determinism |-> Ill,
     cases |-> Ill]

MCShippedTrace == {[Unsealed EXCEPT !.determinism.fingerprint = Outcome(Unsealed)], Begun}

MCHeaderEdit ==
    {<<"detectorId", "delta">>, <<"detectorId", "stak">>, <<"detectorId", Ill>>,
     <<"build", NaN>>,
     <<"cases", Ill>>, <<"workBudget", Ill>>, <<"determinism", Ill>>}

MCBudgetEdit == {<<"events", 1>>, <<"events", Ill>>, <<"work", 1>>}

MCClockEdit ==
    {<<"start", "one">>, <<"start", "bad">>, <<"ms", -1>>,
     <<"fingerprint", ZeroDigest>>, <<"fingerprint", Ill>>}

MCCaseEdit ==
    {<<"class", "normal">>, <<"class", "violation">>, <<"class", Ill>>, <<"events", Ill>>,
     <<"expect", Ill>>}

MCExpectEdit ==
    {<<"findings", <<>> >>, <<"findings", <<"stack">> >>, <<"findings", <<"stack", "stack">> >>,
     <<"findings", Ill>>, <<"actions", {"warn"}>>,
     <<"work", 3>>, <<"work", -2>>, <<"work", NaN>>}

MCEventEdit ==
    {<<"sequence", 2>>, <<"tick", 0>>, <<"tick", Ill>>,
     <<"claimed", 2>>, <<"claimed", 3>>, <<"claimed", NaN>>, <<"limit", Ill>>}
=============================================================================
