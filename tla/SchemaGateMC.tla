----------------------------- MODULE SchemaGateMC ---------------------------
EXTENDS SchemaGate, TLC

Str(word, n) == Value("string", word, n, <<>>, <<>>)
Num(type, n) == Value(type, "", n, <<>>, <<>>)
Null == Value("null", "", 0, <<>>, <<>>)

MCScalar == {Str("clean", 1), Str("person", 2), Num("integer", 1), Num("float", 1),
             Num("boolean", 1), Num("nan", 0), Null}

One(k, v) == [x \in {k} |-> v]
Two(j, v, k, w) == [x \in {j, k} |-> IF x = j THEN v ELSE w]

MCRecords == {Object(One("a", Object(One("b", Str("clean", 1))))),
             Object(One("a", Array(<<Object(One("b", Num("integer", 1)))>>)))}

Typed(t) == [type |-> {t}]
SafeNames == [type |-> {"string"}, pattern |-> {"a", "b"}]
SafeValues == [type |-> {"string", "number", "boolean", "null"}, pattern |-> {"clean"}]

ClosedTo(fields) == [type |-> {"object"}, closed |-> TRUE, properties |-> fields]
Guarded == [type |-> {"object"}, propertyNames |-> DenyNames, additional |-> DenyValues]

Bag == {Guarded, Typed("object"), Typed("array"), Typed("string"), ClosedTo(One("b", Typed("string"))),
        [type |-> {"object"}, propertyNames |-> DenyNames],
        [type |-> {"object"}, additional |-> DenyValues],
        [type |-> {"array"}, items |-> Guarded],
        [type |-> {"array"}, items |-> Typed("object")],
        [type |-> {"object", "array"}, propertyNames |-> DenyNames, additional |-> DenyValues],
        [type |-> {"string"}, maxLength |-> 2, allOf |-> <<DenyValues>>]}

Lists == Two("denyNames", SafeNames, "denyValues", SafeValues)

\* The places a bag may stand in a schema.
Holding(bag) ==
    {[definitions |-> Lists] @@ ClosedTo(One("a", bag)),
     [definitions |-> Lists @@ One("bag", bag)] @@ ClosedTo(One("a", [ref |-> "bag"])),
     [definitions |-> Lists, oneOf |-> <<ClosedTo(One("a", bag)), Typed("string")>>],
     [definitions |-> Lists, type |-> {"object"}, propertyNames |-> DenyNames, additional |-> bag],
     [definitions |-> Lists] @@ ClosedTo(One("a", [allOf |-> <<bag>>]))}

Bounded == [type |-> {"number"}, minimum |-> 1, maximum |-> 1]

Other ==
    {[required |-> {"a"}, definitions |-> Lists] @@ ClosedTo(Two("a", Bounded, "b", [const |-> Num("boolean", 1)])),
     [definitions |-> Lists @@ One("list", [type |-> {"array"}, maxItems |-> 1, items |-> [ref |-> "list"]])]
        @@ ClosedTo(One("a", [ref |-> "list"])),
     [definitions |-> Lists @@ One("loop", [ref |-> "loop"])] @@ ClosedTo(One("a", [ref |-> "loop"])),
     [definitions |-> Lists] @@ ClosedTo(One("a", [oneOf |-> <<Typed("integer"), Typed("number"), Typed("null")>>])),
     [definitions |-> Lists] @@ ClosedTo(One("a", [enum |-> {Num("integer", 1), Str("person", 2)}])),
     [definitions |-> Lists, type |-> {"object"}, minProperties |-> 1, maxProperties |-> 1,
        patternProperties |-> <<[words |-> {"a", "b"}, schema |-> Typed("string")],
                                [words |-> {"b", "steam"}, schema |-> Typed("number")]>>]}

MCSchemas == (UNION {Holding(bag) : bag \in Bag}) \union Other \union {Typed("null")}
=============================================================================
