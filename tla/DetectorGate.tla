----------------------------- MODULE DetectorGate ---------------------------
(***************************************************************************)
(* The detector spec, the config manifest rendered from it and the shipped *)
(* example config, and the checks tools/doccheck.py and                    *)
(* tools/render_detectors.py make between them, while all three are edited *)
(* by hand.  Module ConfigFile is what an operator's config then meets.    *)
(***************************************************************************)
EXTENDS ConfigFile, Findings, Sequences, SequencesExt

CONSTANTS
    Pristine,       \* the specs as shipped
    Example,        \* an example config as shipped
    ValueEdit,      \* numbers an edit may write
    RangeEdit,      \* ranges an edit may write
    InputEdit,      \* inputs an edit may declare
    MaxGateEdits

VARIABLES
    spec,           \* tools/detector_spec.yaml: records in order
    manifest,       \* config/detector-config-manifest.json
    example,        \* config/server-guard.example.json
    gateEdits

gateVars == <<spec, manifest, example, gateEdits>>

Ceiling == {"Hard", "Strong", "Weak"}
Authority == {"server-derived", "client-declared"}
Role == {"observed", "decision"}
Numeric == {"int", "float"}
Fixture == {"normal", "violation", "rollback"}
ThresholdField == {"key", "type", "range", "default"}

\* A field that is not there, or holds the wrong type, is no string.
Text(value) == value \notin {Ill, NoValue}

ListOf(value) == IF value \in {Ill, NoValue} THEN <<>> ELSE value

Mappings(value) == Range(ListOf(value)) \ {Ill}

---------------------------------------------------------------------------
(* render_detectors.py *)

RecordErrors(d) ==
    IF d = Ill THEN {"mapping"}
    ELSE Broken([
            described |-> ~d.described,
            id |-> ~Text(d.id), ceiling |-> ~Text(d.ceiling), mode |-> ~Text(d.mode),
            thresholds |-> d.thresholds = Ill,
            entry |-> Ill \in Range(ListOf(d.thresholds)),
            field |-> \E t \in Mappings(d.thresholds), f \in ThresholdField : t[f] = NoValue])

ValidateSpec(records) == UNION {RecordErrors(d) : d \in Range(records)}

\* Where the records with an id are, and which of some places dict() keeps.
Identified(records) == {i \in DOMAIN records : records[i] # Ill /\ Text(records[i].id)}

LastOf(places) == CHOOSE i \in places : \A j \in places \ {i} : j < i

RenderManifest(records) ==
    [i \in DOMAIN records |->
        [id |-> records[i].id, ceiling |-> records[i].ceiling, mode |-> records[i].mode,
         thresholds |-> ListOf(records[i].thresholds)]]

---------------------------------------------------------------------------
(* doccheck.py: the spec. *)

Finite(value) == Text(value) /\ value.kind \in Numeric

Whole(value) == Text(value) /\ value.kind = "int"

\* Mutant: only the bounds of a range are looked at, not the default.
RangeDefaultOKBounds(t) ==
    t.type \in Numeric /\ Text(t.range) =>
        /\ Len(t.range) = 2
        /\ \A b \in Range(t.range) : Finite(b) /\ (t.type = "int" => Whole(b))
        /\ t.range[1].size <= t.range[2].size

RangeDefaultOK(t) ==
    t.type \in Numeric /\ Text(t.range) =>
        /\ Len(t.range) = 2
        /\ \A b \in Range(t.range) : Finite(b) /\ (t.type = "int" => Whole(b))
        /\ t.range[1].size <= t.range[2].size
        /\ Finite(t.default) /\ (t.type = "int" => Whole(t.default))
        /\ t.default.size \in t.range[1].size..t.range[2].size

ThresholdListErrors(d) ==
    LET entries == ListOf(d.thresholds)
        keyed == {i \in DOMAIN entries : entries[i] # Ill /\ Text(entries[i].key)}
    IN  Broken([
            thresholds |-> d.thresholds = Ill,
            entry |-> Ill \in Range(entries),
            key |-> keyed # DOMAIN entries,
            duplicate |-> \E i, j \in keyed : i # j /\ entries[i].key = entries[j].key,
            type |-> \E t \in Mappings(entries) : t.type \notin Numeric \union {"string"},
            range |-> \E t \in Mappings(entries) : ~RangeDefaultOK(t)])

InputErrors(d) ==
    Broken([
        inputs |-> d.inputs = Ill,
        none |-> d.inputs \in {NoValue, <<>>},
        entry |-> Ill \in Range(ListOf(d.inputs)),
        authority |-> \E i \in Mappings(d.inputs) : i.authority \notin Authority,
        role |-> \E i \in Mappings(d.inputs) : i.role \notin Role])

FixtureErrors(d) ==
    IF d.fixtures = Ill THEN {"fixtures"}
    ELSE Broken([unknown |-> ~(d.fixtures \subseteq Fixture),
                 layer4 |-> ~({"normal", "violation"} \subseteq d.fixtures)])

\* The decision inputs a client declares, of those that have a name.
DecisionClient(d) ==
    {i.name : i \in {x \in Mappings(d.inputs) :
        x.role = "decision" /\ x.authority = "client-declared" /\ Text(x.name)}}

DetectorErrors(d) ==
    IF d = Ill \/ ~Text(d.id) THEN {"record"}
    ELSE Broken([
            described |-> ~d.described,
            ceiling |-> d.ceiling \notin Ceiling,
            mode |-> d.mode \notin Mode,
            authority |-> d.ceiling = "Hard" /\ DecisionClient(d) # {} /\ ~d.condition])
         \union InputErrors(d) \union FixtureErrors(d) \union ThresholdListErrors(d)

SpecIds == {spec[i].id : i \in Identified(spec)}

CheckSpec ==
    ValidateSpec(spec)
    \union Broken([duplicates |->
                        \E i, j \in Identified(spec) : i # j /\ spec[i].id = spec[j].id])
    \union UNION {DetectorErrors(d) : d \in Range(spec)}

\* "make detectors" was run: nothing renders from a spec that is not valid.
RegistrySync ==
    Broken([renderable |-> ValidateSpec(spec) # {},
            stale |-> ValidateSpec(spec) = {} /\ manifest # RenderManifest(spec)])

---------------------------------------------------------------------------
(* doccheck.py: the manifest and the example config. *)

ByKey(entries) ==
    LET keyed == {t \in Mappings(entries) : Text(t.key)}
    IN  [k \in {t.key : t \in keyed} |-> CHOOSE t \in keyed : t.key = k]

SpecOf(id) == spec[LastOf({i \in Identified(spec) : spec[i].id = id})]

ManifestIds == {e.id : e \in Range(manifest)}

EntryOf(id) == manifest[LastOf({i \in DOMAIN manifest : manifest[i].id = id})]

\* The manifest as a release: what ConfigFile checks a config against.
Manifest ==
    [id \in ManifestIds |->
        [mode |-> EntryOf(id).mode,
         thresholds |->
            [k \in DOMAIN ByKey(EntryOf(id).thresholds) |->
                LET t == ByKey(EntryOf(id).thresholds)[k]
                IN  [type |-> t.type, default |-> t.default,
                     range |-> IF Text(t.range) /\ Len(t.range) = 2 /\ Finite(t.range[1])
                                  /\ Finite(t.range[2])
                               THEN <<t.range[1].size, t.range[2].size>> ELSE NoValue]]]]

ShippedRelease == [schema |-> <<>>, spec |-> SpecIds, manifest |-> Manifest]

ManifestErrors ==
    Broken([
        unknown |-> ~(ManifestIds \subseteq SpecIds),
        detector |-> ~(SpecIds \subseteq ManifestIds),
        drift |-> \E e \in Range(manifest) : e.id \in SpecIds /\
                    (e.ceiling # SpecOf(e.id).ceiling \/ e.mode # SpecOf(e.id).mode),
        keys |-> \E e \in Range(manifest) : e.id \in SpecIds /\
                    DOMAIN ByKey(e.thresholds) # DOMAIN ByKey(SpecOf(e.id).thresholds),
        undeclared |-> \E d \in DOMAIN example.thresholds : ~(DOMAIN example.thresholds[d]
                    \subseteq (IF d \in ManifestIds THEN DOMAIN Manifest[d].thresholds ELSE {})),
        value |-> ThresholdErrors(ShippedRelease, example) # {}])

ModeRank == [observe |-> 1, correct |-> 2, enforce |-> 3]

ASSUME ModeAssumption == Mode \subseteq DOMAIN ModeRank

\* The example may not ship a mode above the default.
ExampleModeErrors ==
    Broken([raised |-> \E d \in DOMAIN example.modes \intersect SpecIds :
                example.modes[d] \in Mode /\ SpecOf(d).mode \in Mode
                /\ ModeRank[example.modes[d]] > ModeRank[SpecOf(d).mode]])

CheckDetectorIds ==
    IF SpecIds = {} THEN {"no detector ids"}
    ELSE Broken([modes |-> DOMAIN example.modes # SpecIds])
         \union ExampleModeErrors \union ManifestErrors

\* The schemas of the manifest and of the config, as far as they bind these fields.
CheckSchemas ==
    Broken([
        manifest |-> \E e \in Range(manifest) :
            \/ e.ceiling \notin Ceiling \/ e.mode \notin Mode
            \/ \E t \in Range(e.thresholds) :
                \/ \E f \in ThresholdField : ~Text(t[f])
                \/ Len(t.range) # 2,
        example |-> \E d \in DOMAIN example.modes : example.modes[d] \notin Mode])

Gate == CheckSpec \union RegistrySync \union CheckDetectorIds \union CheckSchemas

---------------------------------------------------------------------------
(* The three files under edit. *)

GateInit ==
    /\ spec \in Pristine
    /\ manifest = RenderManifest(spec)
    /\ example = Example
    /\ gateEdits = 0

EditSpec(s) ==
    /\ gateEdits < MaxGateEdits
    /\ s # spec
    /\ spec' = s
    /\ gateEdits' = gateEdits + 1
    /\ UNCHANGED <<manifest, example>>

\* A record is lost, doubled or no mapping; a field is missing, mistyped or moved.
EditRecord ==
    \E n \in DOMAIN spec :
        LET d == spec[n]
            Rewritten(e) == EditSpec([spec EXCEPT ![n] = e])
        IN  \/ EditSpec(RemoveAt(spec, n))
            \/ EditSpec(Append(spec, d))
            \/ Rewritten(Ill)
            \/ /\ d # Ill
               /\ \/ \E f \in {"id", "ceiling", "mode"} : Rewritten([d EXCEPT ![f] = NoValue])
                  \/ \E f \in {"inputs", "fixtures", "thresholds"} : Rewritten([d EXCEPT ![f] = Ill])
                  \/ Rewritten([d EXCEPT !.described = FALSE])
                  \/ \E c \in Ceiling : Rewritten([d EXCEPT !.ceiling = c])
                  \/ \E m \in Mode \union {"nope"} : Rewritten([d EXCEPT !.mode = m])
                  \/ Rewritten([d EXCEPT !.condition = ~@])
                  \/ \E i \in InputEdit : Rewritten([d EXCEPT !.inputs = Append(ListOf(@), i)])
                  \/ \E x \in Fixture \union {"nope"} :
                        d.fixtures # Ill /\ Rewritten([d EXCEPT !.fixtures =
                                                         (@ \union {x}) \ (@ \intersect {x})])

EditThreshold ==
    \E n \in DOMAIN spec :
        /\ spec[n] # Ill
        /\ \E i \in DOMAIN ListOf(spec[n].thresholds) :
            LET t == spec[n].thresholds[i]
                Rewritten(u) == EditSpec([spec EXCEPT ![n].thresholds[i] = u])
            IN  \/ Rewritten(Ill)
                \/ EditSpec([spec EXCEPT ![n].thresholds = Append(@, t)])
                \/ /\ t # Ill
                   /\ \/ \E f \in ThresholdField : Rewritten([t EXCEPT ![f] = NoValue])
                      \/ \E ty \in Numeric \union {"string", "nope"} : Rewritten([t EXCEPT !.type = ty])
                      \/ \E v \in ValueEdit : Rewritten([t EXCEPT !.default = v])
                      \/ \E r \in RangeEdit : Rewritten([t EXCEPT !.range = r])

\* "make detectors".
Render ==
    /\ ValidateSpec(spec) = {}
    /\ manifest' = RenderManifest(spec)
    /\ UNCHANGED <<spec, example, gateEdits>>

\* A manifest edited by hand instead.
EditManifest ==
    /\ gateEdits < MaxGateEdits
    /\ gateEdits' = gateEdits + 1
    /\ \E n \in DOMAIN manifest :
        \/ manifest' = RemoveAt(manifest, n)
        \/ \E m \in Mode : manifest' = [manifest EXCEPT ![n].mode = m]
        \/ \E i \in DOMAIN manifest[n].thresholds, v \in ValueEdit :
                manifest' = [manifest EXCEPT ![n].thresholds[i].default = v]
    /\ UNCHANGED <<spec, example>>

EditExample ==
    /\ gateEdits < MaxGateEdits
    /\ gateEdits' = gateEdits + 1
    /\ \/ \E d \in DOMAIN example.modes, m \in Mode \union {"nope"} :
                example' = [example EXCEPT !.modes[d] = m]
       \/ \E d \in DOMAIN example.modes :
                example' = [example EXCEPT !.modes = [x \in DOMAIN @ \ {d} |-> @[x]]]
       \/ \E d \in DOMAIN example.thresholds : \E k \in DOMAIN example.thresholds[d], v \in ValueEdit :
                example' = [example EXCEPT !.thresholds[d][k] = v]
    /\ UNCHANGED <<spec, manifest>>

GateNext == EditRecord \/ EditThreshold \/ Render \/ EditManifest \/ EditExample

DetectorSpec == GateInit /\ [][GateNext]_gateVars

---------------------------------------------------------------------------

\* The example's blocks that set nothing.
EmptyBlocks == {d \in DOMAIN example.thresholds : DOMAIN example.thresholds[d] = {}}

(* A tree the gate passes ships a manifest config_check.py can live with: it *)
(* has the spec's detectors and modes, the example is accepted, and a config *)
(* that spells out any numeric default is too.  Of a default that is a       *)
(* string nothing is checked, not even that it is one, and a block that sets *)
(* nothing may be left of a detector that is gone.                           *)
ShippedIsAccepted ==
    Gate = {} =>
        /\ RegistryErrors(ShippedRelease, example) \subseteq {<<"block", d>> : d \in EmptyBlocks}
        /\ ThresholdErrors(ShippedRelease, example) = {}
        /\ DefaultMode(ShippedRelease) = [d \in SpecIds |-> SpecOf(d).mode]
        /\ \A d \in ManifestIds : \A t \in Range(EntryOf(d).thresholds) :
                t.type # "string" => ThresholdOK(Manifest[d].thresholds[t.key], t.default)

(* No operator who starts from the example runs a detector above the mode it *)
(* loads at when the file names none, whichever of spec, manifest and        *)
(* example was edited last.                                                  *)
ExampleNeverRaises ==
    Gate = {} =>
        \A d \in DOMAIN Effective(ShippedRelease, example).modes :
            ModeRank[Effective(ShippedRelease, example).modes[d]] <= ModeRank[DefaultMode(ShippedRelease)[d]]

\* The detectors: what ships fits together, and raises no mode.
DetectorVerdict == ShippedIsAccepted /\ ExampleNeverRaises

=============================================================================
