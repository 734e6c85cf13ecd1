---------------------------- MODULE SchemaValidate --------------------------
(***************************************************************************)
(* tools/schema_validate.py: a JSON value against a schema, the keywords   *)
(* in the order the code takes them and nested no deeper than its bound.   *)
(*                                                                         *)
(* A value is one record for every type: size is a number, a boolean's 0   *)
(* or 1 or a string's length, word tells strings apart.  A schema is a     *)
(* function on the keywords it has; a pattern is the words it matches.     *)
(* What validate() calls itself with is made level by level, so that its   *)
(* recursion is one on the depth it counts.                                *)
(***************************************************************************)
EXTENDS Findings, Integers, Sequences, FiniteSets

CONSTANT MaxSchemaDepth

ASSUME DepthAssumption == MaxSchemaDepth \in Nat

Value(type, word, size, items, fields) ==
    [type |-> type, word |-> word, size |-> size, items |-> items, fields |-> fields]

Has(s, keyword) == keyword \in DOMAIN s

Keys(v) == IF v.type = "object" THEN DOMAIN v.fields ELSE {}
Places(v) == IF v.type = "array" THEN DOMAIN v.items ELSE {}

\* A key, read as the string propertyNames validates.
KeyValue(key) == Value("string", key, 1, <<>>, <<>>)

Alike(a, b, types) ==
    /\ a.type = b.type \/ (a.type \in types /\ b.type \in types)
    /\ a.word = b.word /\ a.size = b.size /\ a.items = b.items /\ a.fields = b.fields

\* ==, to which a boolean is a number, and a boolean is never one.  The shipped schemas
\* compare with scalars, so no container is compared with another element by element.
JsonEqual(a, b) ==
    /\ (a.type = "boolean") = (b.type = "boolean")
    /\ a.type # "nan" /\ Alike(a, b, {"integer", "float", "boolean"})

TypeMatches(v, types) ==
    \/ v.type \in types
    \/ v.type \in {"integer", "float"} /\ "number" \in types

ScalarErrors(v, s) ==
    IF v.type = "nan" THEN {"finite"}
    ELSE LET number == v.type \in {"integer", "float"}
             string == v.type = "string"
         IN  Broken([minimum |-> Has(s, "minimum") /\ number /\ v.size < s.minimum,
                     maximum |-> Has(s, "maximum") /\ number /\ v.size > s.maximum,
                     pattern |-> Has(s, "pattern") /\ string /\ v.word \notin s.pattern,
                     minLength |-> Has(s, "minLength") /\ string /\ v.size < s.minLength,
                     maxLength |-> Has(s, "maxLength") /\ string /\ v.size > s.maxLength])

\* The definition a local pointer names, if it names one.
RefTarget(root, ref) ==
    IF Has(root, "definitions") /\ ref \in DOMAIN root.definitions
    THEN {root.definitions[ref]} ELSE {}

\* The subschemas under a keyword that holds an array of them.
Branches(s, keyword) == IF Has(s, keyword) THEN s[keyword] ELSE <<>>

AllOf(s) == {s.allOf[i] : i \in DOMAIN Branches(s, "allOf")}
OneOf(s) == {s.oneOf[i] : i \in DOMAIN Branches(s, "oneOf")}

Declares(s, key) == Has(s, "properties") /\ key \in DOMAIN s.properties

Matching(s, key) ==
    {i \in DOMAIN Branches(s, "patternProperties") : key \in s.patternProperties[i].words}

\* The subschema that answers for a key: the declared one, else that of the first
\* pattern it matches, else the one for additional keys, if any.
KeySchema(s, key) ==
    IF Declares(s, key) THEN {s.properties[key]}
    ELSE IF Matching(s, key) # {}
    THEN {s.patternProperties[i].schema
            : i \in {i \in Matching(s, key) : \A j \in Matching(s, key) : i <= j}}
    ELSE IF Has(s, "additional") THEN {s.additional} ELSE {}

Unexpected(s, key) == Has(s, "closed") /\ ~Declares(s, key) /\ Matching(s, key) = {}

\* Every subschema a value may be held to, with the value, one level down.
Applied(v, s, root) ==
    IF Has(s, "ref") THEN {<<v, target>> : target \in RefTarget(root, s.ref)}
    ELSE {<<v, branch>> : branch \in AllOf(s) \union OneOf(s)}
         \union {<<KeyValue(k), s.propertyNames>>
                    : k \in IF Has(s, "propertyNames") THEN Keys(v) ELSE {}}
         \union (UNION {{<<v.fields[k], sub>> : sub \in KeySchema(s, k)} : k \in Keys(v)})
         \union {<<v.items[i], s.items>> : i \in IF Has(s, "items") THEN Places(v) ELSE {}}

\* The calls of validate() at each depth.
Calls(v, root) ==
    LET calls[depth \in 0..(MaxSchemaDepth + 1)] ==
            IF depth = 0 THEN {<<v, root>>}
            ELSE UNION {Applied(call[1], call[2], root) : call \in calls[depth - 1]}
    IN  calls

---------------------------------------------------------------------------
(* What a call finds, given what the calls below it found. *)

\* Mutant: oneOf is anyOf.
OneOfErrorsAny(v, branches, found) ==
    IF \E i \in DOMAIN branches : found[<<v, branches[i]>>] = {} THEN {} ELSE {"oneOf"}

OneOfErrors(v, branches, found) ==
    LET matched == {i \in DOMAIN branches : found[<<v, branches[i]>>] = {}}
    IN  IF branches = <<>> THEN {"oneOf"}
        ELSE IF \E i \in matched : matched = {i} THEN {}
        ELSE {"oneOf"} \union (IF matched = {} THEN found[<<v, branches[1]>>] ELSE {})

ObjectErrors(v, s, found) ==
    Broken([
        maxProperties |-> Has(s, "maxProperties") /\ Cardinality(Keys(v)) > s.maxProperties,
        minProperties |-> Has(s, "minProperties") /\ Cardinality(Keys(v)) < s.minProperties,
        propertyNames |-> Has(s, "propertyNames")
                            /\ \E k \in Keys(v) : found[<<KeyValue(k), s.propertyNames>>] # {},
        unexpected |-> \E k \in Keys(v) : Unexpected(s, k),
        required |-> Has(s, "required") /\ ~(s.required \subseteq Keys(v))])
    \union UNION {UNION {found[<<v.fields[k], sub>>] : sub \in KeySchema(s, k)} : k \in Keys(v)}

ArrayErrors(v, s, found) ==
    Broken([minItems |-> Has(s, "minItems") /\ Len(v.items) < s.minItems,
            maxItems |-> Has(s, "maxItems") /\ Len(v.items) > s.maxItems])
    \union UNION {found[<<v.items[i], s.items>>] : i \in IF Has(s, "items") THEN Places(v) ELSE {}}

\* The keywords that end the walk where they stand.
FastPath(v, s, found, root) ==
    IF ~Has(s, "ref") THEN Broken([const |-> ~JsonEqual(v, s.const)])
    ELSE IF RefTarget(root, s.ref) = {} THEN {"ref"}
    ELSE UNION {found[<<v, target>>] : target \in RefTarget(root, s.ref)}

OrdinaryErrors(v, s, found) ==
    LET enum == Broken([enum |-> Has(s, "enum") /\ \A e \in s.enum : ~JsonEqual(v, e)])
        scalar == enum \union ScalarErrors(v, s)
    IN  IF Has(s, "type") /\ ~TypeMatches(v, s.type) THEN enum \union {"type"}
        ELSE IF Has(s, "oneOf") THEN scalar \union OneOfErrors(v, s.oneOf, found)
        ELSE UNION ({scalar} \union {found[<<v, branch>>] : branch \in AllOf(s)}
                    \union (IF v.type = "object" THEN {ObjectErrors(v, s, found)} ELSE {})
                    \union (IF v.type = "array" THEN {ArrayErrors(v, s, found)} ELSE {}))

Errors(v, s, found, root) ==
    IF Has(s, "ref") \/ Has(s, "const") THEN FastPath(v, s, found, root)
    ELSE OrdinaryErrors(v, s, found)

Validate(v, root) ==
    LET found[depth \in 0..(MaxSchemaDepth + 1)] ==
            [call \in Calls(v, root)[depth] |->
                IF depth > MaxSchemaDepth THEN {"deep"}
                ELSE Errors(call[1], call[2], found[depth + 1], root)]
    IN  found

Valid(v, root) == Validate(v, root)[0][<<v, root>>] = {}
=============================================================================
