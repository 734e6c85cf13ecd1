----------------------------- MODULE SchemaGate -----------------------------
(***************************************************************************)
(* A record is edited under a schema, by the edits of the fuzzers' Mutator *)
(* (tools/fuzz_common.py): what the validator's verdict is worth, and what *)
(* a schema the personal-data gate passed keeps out of a record.           *)
(***************************************************************************)
EXTENDS EvidenceBags, SequencesExt

CONSTANTS
    Schema,         \* the schemas a release may ship
    Records,        \* the documents the edits start from
    Scalar,         \* what a mutated value may be
    Key,            \* the keys an edit may add
    MaxDepth,       \* how deep a mutation reaches
    MaxNesting,     \* bound: how deep a record is looked into
    MaxMutations

\* MaxWalk is enough for every walk of every schema.
ASSUME SchemaAssumption ==
    /\ MaxNesting \in Nat
    /\ \A root \in Schema : \A walk \in {"bags", "text", "all"} :
            Further(Reached(root, walk), root, walk) = Reached(root, walk)

VARIABLES
    schema,
    record,
    mutations       \* how often the record was edited

schemaVars == <<schema, record, mutations>>

Object(fields) == Value("object", "", 0, <<>>, fields)
Array(items) == Value("array", "", 0, items, <<>>)

Nested(v) == {v.fields[k] : k \in Keys(v)} \union {v.items[i] : i \in Places(v)}

\* What stands in a value, so many levels down.
Levels(v, most) ==
    LET level[n \in 0..most] ==
            IF n = 0 THEN {v} ELSE UNION {Nested(part) : part \in level[n - 1]}
    IN  level

\* The parts of a value, itself included.
Parts(v) == UNION {Levels(v, MaxNesting)[n] : n \in 0..MaxNesting}

Drop(f, k) == [x \in DOMAIN f \ {k} |-> f[x]]
With(f, k, v) == [x \in DOMAIN f \union {k} |-> IF x = k THEN v ELSE f[x]]

\* A replaced value is a scalar, an empty container, or the old one, nested or not.
Replaced(v) == Scalar \union {Object(<<>>), Array(<<>>), Array(<<v>>), v}

MutatedObject(v, mutated) ==
    {[v EXCEPT !.fields = Drop(@, k)] : k \in Keys(v)}
    \union {[v EXCEPT !.fields = With(@, k, new)] : k \in Key, new \in Scalar}
    \union UNION {{[v EXCEPT !.fields = With(@, k, new)] : new \in mutated[v.fields[k]]}
                  : k \in Keys(v)}

MutatedArray(v, mutated) ==
    {[v EXCEPT !.items = RemoveAt(@, i)] : i \in {j \in Places(v) : Len(v.items) > 1}}
    \union {[v EXCEPT !.items[i] = new] : i \in Places(v), new \in Scalar}
    \union UNION {{[v EXCEPT !.items[i] = new] : new \in mutated[v.items[i]]} : i \in Places(v)}

Mutants(v) ==
    LET mutants[depth \in 0..MaxDepth] ==
            [part \in Levels(v, MaxDepth)[depth] |->
                CASE Keys(part) # {} /\ depth < MaxDepth -> MutatedObject(part, mutants[depth + 1])
                  [] Places(part) # {} /\ depth < MaxDepth -> MutatedArray(part, mutants[depth + 1])
                  [] OTHER -> Replaced(part)]
    IN  mutants[0][v]

SchemaInit ==
    /\ schema \in Schema
    /\ record \in Records
    /\ mutations = 0

Mutate ==
    /\ mutations < MaxMutations
    /\ record' \in Mutants(record)
    /\ mutations' = mutations + 1
    /\ UNCHANGED schema

SchemaNext == Mutate

SchemaSpec == SchemaInit /\ [][SchemaNext]_schemaVars

---------------------------------------------------------------------------
(* What the schema says, without the order and the bound of the code: a    *)
(* record that nests within the bound is held to no ref that leads back to *)
(* itself on one value.                                                    *)

ObjectConforms(v, s, holds) ==
    /\ Has(s, "maxProperties") => ~(Cardinality(Keys(v)) > s.maxProperties)
    /\ Has(s, "minProperties") => ~(Cardinality(Keys(v)) < s.minProperties)
    /\ Has(s, "required") => s.required \subseteq Keys(v)
    /\ \A k \in Keys(v) :
        /\ ~Unexpected(s, k)
        /\ Has(s, "propertyNames") => holds[<<KeyValue(k), s.propertyNames>>]
        /\ \A sub \in KeySchema(s, k) : holds[<<v.fields[k], sub>>]

ArrayConforms(v, s, holds) ==
    /\ Has(s, "minItems") => ~(Len(v.items) < s.minItems)
    /\ Has(s, "maxItems") => ~(Len(v.items) > s.maxItems)
    /\ Has(s, "items") => \A i \in Places(v) : holds[<<v.items[i], s.items>>]

\* Given what holds one level down.
ConformsHere(v, s, holds, root) ==
    IF Has(s, "ref") THEN \E target \in RefTarget(root, s.ref) : holds[<<v, target>>]
    ELSE
    /\ v.type # "nan"
    /\ Has(s, "type") => TypeMatches(v, s.type)
    /\ Has(s, "const") => Alike(v, s.const, {"integer", "float"})
    /\ Has(s, "enum") => \E e \in s.enum : Alike(v, e, {"integer", "float"})
    /\ ScalarErrors(v, s) = {}
    /\ Has(s, "oneOf") => \E i \in DOMAIN s.oneOf :
            {i} = {j \in DOMAIN s.oneOf : holds[<<v, s.oneOf[j]>>]}
    /\ \A branch \in AllOf(s) : holds[<<v, branch>>]
    /\ v.type = "object" => ObjectConforms(v, s, holds)
    /\ v.type = "array" => ArrayConforms(v, s, holds)

Judged(v, root) ==
    LET judged[depth \in 0..(MaxSchemaDepth + 1)] ==
            [call \in Calls(v, root)[depth] |->
                /\ depth <= MaxSchemaDepth
                /\ ConformsHere(call[1], call[2], judged[depth + 1], root)]
    IN  judged

Conforms(v, root) == Judged(v, root)[0][<<v, root>>]

NestsWithin(v, root) == Calls(v, root)[MaxSchemaDepth + 1] = {}

Subschemas(root) == Reached(root, "all")

Applicators == {"allOf", "properties", "patternProperties", "closed", "additional", "required",
                "propertyNames", "maxProperties", "minProperties", "items", "minItems", "maxItems"}

\* What a subschema compares with: scalars and empty containers only.
ComparesSimply(s) ==
    /\ Has(s, "const") => Nested(s.const) = {}
    /\ Has(s, "enum") => \A e \in s.enum : Nested(e) = {}

\* The shipped schemas put nothing beside a const and no applicator beside a oneOf: what
\* the code reads of the rest is another matter.
Portable(root) == \A s \in Subschemas(root) :
    /\ ComparesSimply(s)
    /\ Has(s, "const") => DOMAIN s = {"const"}
    /\ Has(s, "oneOf") => DOMAIN s \intersect Applicators = {}

Choice(root) == \E s \in Subschemas(root) : Has(s, "oneOf")

(* A record that nests within the bound is accepted exactly when the schema  *)
(* admits it, whatever order the keywords are taken in and wherever the walk *)
(* stops early; one that nests deeper is refused, and the walk ends.  Under  *)
(* a oneOf the bound refuses a branch and so can decide for another one.     *)
VerdictIsTheSchema ==
    Portable(schema) =>
        IF NestsWithin(record, schema)
        THEN Valid(record, schema) <=> Conforms(record, schema)
        ELSE Choice(schema) \/ ~Valid(record, schema)

\* The keys a schema names itself, which are the schema author's to defend.
NamedKeys(root) == UNION {IF Has(s, "properties") THEN DOMAIN s.properties ELSE {}
                      : s \in Subschemas(root)}

\* A list of the schema's matches nothing else.
Clear(root, name, word) == \A list \in RefTarget(root, name) : word \in list.pattern

KeepsOut(root) ==
    Valid(record, root) => LET named == NamedKeys(root) IN
        \A part \in Parts(record) : \A k \in Keys(part) \ named :
            /\ Clear(root, "denyNames", k)
            /\ \A v \in Parts(part.fields[k]) : v.type = "string" => Clear(root, "denyValues", v.word)

\* A subschema whose type the walk can read, an array that says what it holds.
Legible(root) == \A s \in Subschemas(root) :
    /\ {"ref", "const", "enum", "oneOf", "type"} \intersect DOMAIN s # {} \/ AllOf(s) # {}
    /\ Has(s, "type") /\ "array" \in s.type => Has(s, "items")
    /\ ~Has(s, "patternProperties")
    /\ ComparesSimply(s)

\* A list is a pattern, and what it is asked of is a scalar.
ListsOfScalars(root) ==
    /\ \A list \in RefTarget(root, "denyNames") \union RefTarget(root, "denyValues") :
            {"ref", "const"} \intersect DOMAIN list = {}
    /\ \A list \in RefTarget(root, "denyValues") :
            Has(list, "type") /\ {"object", "array"} \intersect list.type = {}

(* A schema the gate passed accepts no record with a denied key, or a denied *)
(* value under a key of the writer's own, in any bag, however the schema     *)
(* reaches it: through a definition, an item, a branch or another bag.  The  *)
(* walk reads types, so an untyped subschema is outside of what it can see,  *)
(* and the shipped schemas use allOf for the value deny-list only.           *)
GateClosesBags ==
    /\ PersonalDataErrors(schema) = {}
    /\ Legible(schema) /\ ListsOfScalars(schema)
    /\ \A s \in Subschemas(schema) : AllOf(s) \subseteq {DenyValues}
    => KeepsOut(schema)

(* The validator and the gate over the evidence schema: the verdict on a     *)
(* record is the schema's, and a schema that passed leaves no bag open.      *)
SchemaVerdict == VerdictIsTheSchema /\ GateClosesBags

(* fuzz_schema_validate.py:315: the walk "must see a bag however the schema  *)
(* reaches it".  It does not descend into allOf, as the walk for free text   *)
(* does, and a bag there keeps nothing out.                                  *)
GateSeesEveryBag ==
    /\ PersonalDataErrors(schema) = {}
    /\ Legible(schema) /\ ListsOfScalars(schema)
    => KeepsOut(schema)
=============================================================================
