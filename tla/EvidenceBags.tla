---------------------------- MODULE EvidenceBags ---------------------------
(***************************************************************************)
(* The personal-data gate of tools/doccheck.py: a walk over a schema that  *)
(* collects the bags a writer may put keys of his own in, and the bounded  *)
(* free text, and holds each to the shared deny-lists.                     *)
(***************************************************************************)
EXTENDS SchemaValidate

CONSTANT MaxWalk    \* bound: how many steps a walk takes

ASSUME WalkAssumption == MaxWalk \in Nat

DenyNames == [ref |-> "denyNames"]
DenyValues == [ref |-> "denyValues"]

Children(s) ==
    {s.properties[k] : k \in IF Has(s, "properties") THEN DOMAIN s.properties ELSE {}}
    \union {s.patternProperties[i].schema : i \in DOMAIN Branches(s, "patternProperties")}
    \union {s.definitions[d] : d \in IF Has(s, "definitions") THEN DOMAIN s.definitions ELSE {}}
    \union OneOf(s)
    \union (IF Has(s, "additional") THEN {s.additional} ELSE {})
    \union (IF Has(s, "items") THEN {s.items} ELSE {})

\* Where the walk for bags and the walk for free text go from a subschema, and all that
\* a value may be held to.
Follows(s, root, walk) ==
    IF Has(s, "ref") THEN RefTarget(root, s.ref)
    ELSE Children(s)
         \union {branch \in AllOf(s) : walk # "bags"}
         \union {names \in (IF Has(s, "propertyNames") THEN {s.propertyNames} ELSE {}) : walk = "all"}

Further(subschemas, root, walk) ==
    subschemas \union UNION {Follows(s, root, walk) : s \in subschemas}

\* A ref met again leads to what was walked from it before.
WalkedFrom(root, walk) ==
    LET walked[n \in 0..MaxWalk] ==
            IF n = 0 THEN {root} ELSE LET before == walked[n - 1] IN Further(before, root, walk)
    IN  walked

Reached(root, walk) == WalkedFrom(root, walk)[MaxWalk]

IsOpen(s) ==
    /\ Has(s, "type")
    /\ \/ "object" \in s.type /\ ~Has(s, "closed")
       \/ "array" \in s.type /\ ~Has(s, "items")

OpenValueBags(root) == {s \in Reached(root, "bags") : ~Has(s, "ref") /\ IsOpen(s)}

FreeTextFields(root) == {s \in Reached(root, "text") : ~Has(s, "ref") /\ Has(s, "maxLength")}

ListPresent(root, name) ==
    \E list \in RefTarget(root, name) : Has(list, "pattern")

BagErrors(bag) == Broken([
    names |-> ~Has(bag, "propertyNames") \/ bag.propertyNames # DenyNames,
    values |-> ~Has(bag, "additional") \/ bag.additional # DenyValues])

PersonalDataErrors(root) ==
    IF ~ListPresent(root, "denyNames") \/ ~ListPresent(root, "denyValues") THEN {"no list"}
    ELSE (UNION {BagErrors(bag) : bag \in OpenValueBags(root)})
         \union (UNION {Broken([text |-> DenyValues \notin AllOf(field)])
                        : field \in FreeTextFields(root)})
=============================================================================
