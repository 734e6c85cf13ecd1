--------------------------- MODULE DetectorGateMC ---------------------------
EXTENDS DetectorGate

Number(kind, size) == [kind |-> kind, size |-> size]

Input(name, authority, role) == [name |-> name, authority |-> authority, role |-> role]

MCPristine == {<<>>,
    <<[id |-> "d1", ceiling |-> "Hard", mode |-> "observe", described |-> TRUE,
       condition |-> FALSE, fixtures |-> {"normal", "violation"},
       inputs |-> <<Input("stage", "server-derived", "decision"),
                    Input("count", "client-declared", "observed")>>,
       thresholds |-> <<[key |-> "max", type |-> "int", default |-> Number("int", 2),
                         range |-> <<Number("int", 1), Number("int", 3)>>]>>],
      [id |-> "d2", ceiling |-> "Weak", mode |-> "correct", described |-> TRUE,
       condition |-> FALSE, fixtures |-> {"normal", "violation"},
       inputs |-> <<Input("age", "client-declared", "decision")>>,
       thresholds |-> NoValue]>>}

MCExample ==
    [fixed |-> <<>>, modes |-> "d1" :> "observe" @@ "d2" :> "observe",
     thresholds |-> "d1" :> ("max" :> Number("int", 2)) @@ "d2" :> <<>>]

MCValueEdit == {Number("int", 0), Number("int", 3), Number("float", 2), Number("text", 0),
                Number("bool", 1)}

MCRangeEdit == {<<Number("int", 0)>>, <<Number("int", 3), Number("int", 3)>>,
                <<Number("int", 3), Number("int", 1)>>, <<Number("float", 0), Number("int", 3)>>,
                <<Number("text", 0), Number("text", 0)>>}

MCInputEdit == {Input("seen", "client-declared", "decision"), Input(NoValue, "client-declared", "decision"),
                Input("seen", "nope", "observed"), Input("seen", "server-derived", "nope"), Ill}
=============================================================================
