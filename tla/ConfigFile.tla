----------------------------- MODULE ConfigFile -----------------------------
(***************************************************************************)
(* A runtime config file, the settings a release makes of it, and what     *)
(* tools/config_check.py says of it.                                       *)
(*                                                                         *)
(* A file is what an operator spelled: the fixed keys, the modes and the   *)
(* threshold blocks, each a function on the keys that are there.  A        *)
(* release is what was shipped: the schema of the fixed keys, the ids the  *)
(* detector spec registers, and the manifest generated from it.  A number  *)
(* is [kind, size], for 3 and 3.0 are different to the checks.             *)
(***************************************************************************)
EXTENDS Integers, FiniteSets

CONSTANTS
    NoValue,        \* a default, a range or a value that is not there
    EscapingPath,   \* the paths with a ".." segment
    Mode            \* what a mode may be

Flag == {"true", "false"}

\* A section that can be switched on, and the key that names its secret's variable.
SecretEnvSections == {<<"webhook.enabled", "webhook.urlEnv">>,
                      <<"dashboard.enabled", "dashboard.secretEnv">>}

DependentActions == {<<"actions.tempBanLocal", "actions.kick">>}

PathKeys == {"evidence.dir", "identityMap.path", "hmacKey.path"}

\* What a file says of a key, and what a block says of a detector.
Spelled(f, key) == IF key \in DOMAIN f THEN f[key] ELSE NoValue

Block(file, d) == IF d \in DOMAIN file.thresholds THEN file.thresholds[d] ELSE <<>>

\* What is spelled wins over what a default says.
Filled(spelled, defaults) ==
    [key \in DOMAIN spelled \union DOMAIN defaults |->
        IF key \in DOMAIN spelled THEN spelled[key] ELSE defaults[key]]

---------------------------------------------------------------------------
(* The effective config. *)

Manifested(release) == DOMAIN release.manifest

\* The mode a registered detector loads at when the file names none.
DefaultMode(release) ==
    [d \in release.spec |->
        IF d \in Manifested(release) THEN release.manifest[d].mode ELSE "observe"]

DeclaredDefaults(entries) ==
    LET has == {k \in DOMAIN entries : entries[k].default # NoValue}
    IN  [k \in has |-> entries[k].default]

SchemaDefaults(release) == DeclaredDefaults(release.schema)

\* The block of a detector with the manifest's defaults filled in.
FilledBlock(release, file, d) ==
    IF d \in Manifested(release)
    THEN Filled(Block(file, d), DeclaredDefaults(release.manifest[d].thresholds))
    ELSE Block(file, d)

\* Mutant: the registry's defaults are left out.
EffectiveSchemaOnly(release, file) ==
    [fixed |-> Filled(file.fixed, SchemaDefaults(release)),
     modes |-> file.modes, thresholds |-> file.thresholds]

\* What the file says wins over every default.
Effective(release, file) ==
    [fixed |-> Filled(file.fixed, SchemaDefaults(release)),
     modes |-> Filled(file.modes, DefaultMode(release)),
     thresholds |-> [d \in DOMAIN file.thresholds \union Manifested(release) |->
                        FilledBlock(release, file, d)]]

\* SHA-256 over canonical JSON: one digest per effective config.
ConfigHash(release, file) == Effective(release, file)

---------------------------------------------------------------------------
(* The findings: sets of what is reported, an empty one where nothing is. *)

\* Unknown keys and values the schema does not take.
SchemaErrors(release, file) ==
    {<<"schema", key>> : key \in {k \in DOMAIN file.fixed :
        \/ k \notin DOMAIN release.schema
        \/ file.fixed[k] \notin release.schema[k].accepts}}
    \union {<<"mode", d>> : d \in {x \in DOMAIN file.modes : file.modes[x] \notin Mode}}

RegistryErrors(release, file) ==
    {<<"mode", d>> : d \in DOMAIN file.modes \ release.spec}
    \union {<<"block", d>> : d \in DOMAIN file.thresholds \ release.spec}
    \union UNION {{<<d, k>> : k \in DOMAIN Block(file, d)
                        \ (IF d \in Manifested(release)
                           THEN DOMAIN release.manifest[d].thresholds ELSE {})}
                  : d \in DOMAIN file.thresholds \intersect release.spec}

RightKind(type, value) ==
    CASE type = "int" -> value.kind = "int"
      [] type = "float" -> value.kind \in {"int", "float"}
      [] OTHER -> value.kind = "text"

InRange(range, value) ==
    \/ range = NoValue
    \/ range[1] <= value.size /\ value.size <= range[2]

ThresholdOK(entry, value) ==
    /\ RightKind(entry.type, value)
    /\ entry.type \in {"int", "float"} => InRange(entry.range, value)

ThresholdErrors(release, file) ==
    UNION {{<<d, k>> : k \in {x \in DOMAIN Block(file, d)
                                    \intersect DOMAIN release.manifest[d].thresholds :
                ~ThresholdOK(release.manifest[d].thresholds[x], file.thresholds[d][x])}}
           : d \in DOMAIN file.thresholds \intersect Manifested(release)}

ActionErrors(file) ==
    {<<pair[1], pair[2]>> : pair \in {p \in DependentActions :
        /\ Spelled(file.fixed, p[1]) = "true"
        /\ Spelled(file.fixed, p[2]) # "true"}}

\* Mutant: only the evidence directory's path is looked at.
PathErrorsDirOnly(file) ==
    {<<"escapes", key>> : key \in {k \in {"evidence.dir"} :
        Spelled(file.fixed, k) \in EscapingPath}}

PathErrors(file) ==
    {<<"escapes", key>> : key \in {k \in PathKeys :
        Spelled(file.fixed, k) \in EscapingPath}}

\* env is the set of variables that are set and not empty.
SecretEnvErrors(file, env) ==
    {<<pair[1], pair[2]>> : pair \in {p \in SecretEnvSections :
        /\ Spelled(file.fixed, p[1]) = "true"
        /\ Spelled(file.fixed, p[2]) \notin env}}

\* The schema's findings stand alone: the other checks read keys it may have refused.
Check(release, file, env) ==
    IF SchemaErrors(release, file) # {}
    THEN SchemaErrors(release, file)
    ELSE UNION {RegistryErrors(release, file), ThresholdErrors(release, file),
                ActionErrors(file), PathErrors(file), SecretEnvErrors(file, env)}

UnlistedDetectors(release, file) == release.spec \ DOMAIN file.modes

=============================================================================
