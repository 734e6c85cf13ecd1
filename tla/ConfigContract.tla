---------------------------- MODULE ConfigContract --------------------------
(***************************************************************************)
(* The config schema, the example and the table that documents the keys,   *)
(* edited by hand, and what tools/doccheck.py says of them.  A key is the  *)
(* tuple of its segments.  A schema says of a key that it is a section, or *)
(* one keyed by pattern, or a value, and whether it has a default.         *)
(***************************************************************************)
EXTENDS Findings, Integers, Sequences, SequencesExt

CONSTANTS
    ConfigKey,          \* the keys the schema may declare
    PlainRow,           \* rows of the table that name a key, as that key
    WideRow,            \* rows that end in a placeholder, as the key before it
    MaxConfigDepth,     \* sections nested deeper are not walked
    ShippedSchema, ShippedKeys, ShippedRows,    \* the three files as shipped
    MaxContractEdits

\* Keys are tuples, and what is above a key of the schema as shipped is a section.
ASSUME ContractAssumption ==
    /\ ConfigKey \subseteq Seq(STRING) /\ MaxConfigDepth \in Nat
    /\ DOMAIN ShippedSchema \subseteq ConfigKey
    /\ \A key \in DOMAIN ShippedSchema :
          /\ ShippedSchema[key] \in [kind : {"value", "section", "patterns"}, default : BOOLEAN]
          /\ \A n \in 1..(Len(key) - 1) :
                /\ SubSeq(key, 1, n) \in DOMAIN ShippedSchema
                /\ ShippedSchema[SubSeq(key, 1, n)].kind # "value"

VARIABLES
    declared,           \* the schema: key -> [kind |-> ..., default |-> ...]
    spelled,            \* the keys the example gives, sections included
    rows,               \* the rows of the table in docs/SCHEMAS.md
    contractEdits

contractVars == <<declared, spelled, rows, contractEdits>>

Above(key) == {SubSeq(key, 1, n) : n \in 1..(Len(key) - 1)}
Below(key, keys) == {k \in keys : key \in Above(k)}

\* A placeholder stands for one segment or more.
Documented(key) ==
    \/ key \in rows \intersect PlainRow
    \/ \E row \in rows \intersect WideRow : row \in Above(key)

\* What the walk over "properties" comes to: it leaves out the sections keyed by
\* pattern, and stops below MaxConfigDepth.
Walked(key) ==
    /\ Len(key) <= MaxConfigDepth + 1
    /\ \A k \in Above(key) \union {key} : declared[k].kind # "patterns"

\* Mutant: the sections themselves only.
LeavesTop == {key \in DOMAIN declared : Walked(key) /\ Len(key) = 1 /\ declared[key].kind = "value"}

\* A section that declares nothing counts as a value.
Leaves == {key \in DOMAIN declared : Walked(key) /\ Below(key, DOMAIN declared) = {}}

ExampleLeaves == {key \in spelled : declared[key].kind = "value"}

ContractIssues ==
    Broken([
        undocumented |-> \E key \in Leaves : ~Documented(key),
        required |-> \E key \in Leaves : ~declared[key].default /\ key \notin ExampleLeaves])

ExampleIssues == Broken([undeclared |-> \E key \in ExampleLeaves : ~Documented(key)])

---------------------------------------------------------------------------

\* The three files as shipped, or none of them written yet.
ContractInit ==
    /\ \/ declared = ShippedSchema /\ spelled = ShippedKeys /\ rows = ShippedRows
       \/ declared = <<>> /\ spelled = {} /\ rows = {}
    /\ contractEdits = 0

EditContract ==
    /\ contractEdits < MaxContractEdits
    /\ contractEdits' = contractEdits + 1

\* A key enters the schema below a section that is there.
DeclareKey ==
    /\ EditContract
    /\ \E key \in ConfigKey \ DOMAIN declared, default \in BOOLEAN, kind \in {"value", "section"} :
        /\ \A k \in Above(key) : k \in DOMAIN declared /\ declared[k].kind # "value"
        /\ declared' = [k \in DOMAIN declared \union {key} |->
                        IF k = key THEN [kind |-> kind, default |-> default] ELSE declared[k]]
    /\ UNCHANGED <<spelled, rows>>

\* A key and what is below it leaves the schema, and the example with it.
DropKey ==
    /\ EditContract
    /\ \E key \in DOMAIN declared :
        /\ declared' = [k \in {x \in DOMAIN declared : key \notin Above(x) \union {x}} |-> declared[k]]
        /\ spelled' = {k \in spelled : key \notin Above(k) \union {k}}
    /\ UNCHANGED rows

EditKey ==
    /\ EditContract
    /\ \E key \in DOMAIN declared :
        \/ declared' = [declared EXCEPT ![key].default = ~@]
        \/ /\ declared[key].kind # "value"
           /\ declared' = [declared EXCEPT ![key].kind = IF @ = "section" THEN "patterns" ELSE "section"]
    /\ UNCHANGED <<spelled, rows>>

\* The example stays one the schema accepts.
EditSpelled ==
    /\ EditContract
    /\ \E key \in DOMAIN declared :
        \/ spelled' = spelled \union {key} \union Above(key)
        \/ spelled' = {k \in spelled : key \notin Above(k) \union {k}}
    /\ UNCHANGED <<declared, rows>>

EditTable ==
    /\ EditContract
    /\ \E row \in PlainRow \union WideRow : rows' = SymDiff(rows, {row})
    /\ UNCHANGED <<declared, spelled>>

ContractNext == DeclareKey \/ DropKey \/ EditKey \/ EditSpelled \/ EditTable

ContractSpec == ContractInit /\ [][ContractNext]_contractVars

---------------------------------------------------------------------------

\* effective_config of config_check: a section is filled when the example has it, or
\* when it has no default of its own, which would be taken as it is.
FilledSection(key) ==
    declared[key].kind = "section" /\ (key \in spelled \/ ~declared[key].default)

HasValue(key) ==
    \/ key \in spelled
    \/ declared[key].default /\ \A k \in Above(key) : FilledSection(k)

NoSectionDefault ==
    \A key \in DOMAIN declared : Below(key, DOMAIN declared) # {} => ~declared[key].default

(* An operator who starts from the example of a tree the gate passes has a   *)
(* value for every key the server may read, each in a row of the table: from *)
(* the file, or from the default that the loader fills in.  A section that   *)
(* has a default is taken whole where the example leaves it out, so none is  *)
(* taken to have one; and the keys are those the gate walks, which are not   *)
(* the ones in sections nested past the depth it stops at.                   *)
EveryKeyHasValue ==
    ContractIssues \union ExampleIssues = {} /\ NoSectionDefault =>
        \A key \in DOMAIN declared :
            declared[key].kind = "value" /\ Walked(key) => HasValue(key) /\ Documented(key)

=============================================================================
