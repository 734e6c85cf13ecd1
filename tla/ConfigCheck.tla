----------------------------- MODULE ConfigCheck ----------------------------
(***************************************************************************)
(* tools/config_check.py run on the file of a server whose operator edits  *)
(* it, sets and unsets variables, and upgrades.  The edits are those of    *)
(* tools/fuzz_config_check.py: a value legal or not, a key that names      *)
(* nothing, a section switched on, a variable renamed.                     *)
(***************************************************************************)
EXTENDS ConfigFile

CONSTANTS
    Release,        \* what was ever shipped
    ShippedFile,    \* config/server-guard.example.json
    FixedEdit,      \* <<key, value>>: what an edit may write
    Detector,       \* the ids an edit may name, registered or not
    ThresholdEdit,  \* <<detector, key, value>>: what an edit may write
    Variable,       \* the environment variables that may be set
    MaxEdits

\* The keys a rule beyond the schema reads.
RuleKeys ==
    PathKeys \union {pair[1] : pair \in SecretEnvSections}
             \union UNION {{pair[1], pair[2]} : pair \in DependentActions}

\* The schema and the manifest are registered and accept their own defaults.
ASSUME ReleaseAssumption ==
    \A r \in Release :
        /\ \A key \in DOMAIN SchemaDefaults(r) : SchemaDefaults(r)[key] \in r.schema[key].accepts
        /\ Manifested(r) \subseteq r.spec
        /\ \A d \in Manifested(r) :
              /\ r.manifest[d].mode \in Mode
              /\ \A key \in DOMAIN DeclaredDefaults(r.manifest[d].thresholds) :
                    ThresholdOK(r.manifest[d].thresholds[key], r.manifest[d].thresholds[key].default)

\* No default switches on what a rule is about, or leaves the data root.
ASSUME DefaultAssumption ==
    \A r \in Release :
        /\ RuleKeys \subseteq DOMAIN SchemaDefaults(r)
        /\ \A key \in PathKeys : SchemaDefaults(r)[key] \notin EscapingPath
        /\ \A key \in RuleKeys \ PathKeys : SchemaDefaults(r)[key] # "true"

ASSUME NoValueAssumption ==
    /\ NoValue \notin Release /\ NoValue \notin Variable
    /\ NoValue \notin EscapingPath /\ NoValue # "true"
    /\ "observe" \in Mode

ASSUME ShippedFileAssumption ==
    ShippedFile = [fixed |-> ShippedFile.fixed, modes |-> ShippedFile.modes,
                   thresholds |-> ShippedFile.thresholds]

VARIABLES
    file,           \* the operator's file
    env,            \* the variables set in the server's environment
    release,        \* the installed release
    printed,        \* what the last accepted check printed, and where
    edits           \* how many edits were made

configVars == <<file, env, release, printed, edits>>

NothingPrinted == [hash |-> NoValue, release |-> NoValue, env |-> {}]

ConfigInit ==
    /\ file \in {ShippedFile, [fixed |-> <<>>, modes |-> <<>>, thresholds |-> <<>>]}
    /\ env \in SUBSET Variable
    /\ release \in Release
    /\ printed = NothingPrinted
    /\ edits = 0

Edited(f) ==
    /\ edits < MaxEdits
    /\ f # file
    /\ file' = f
    /\ edits' = edits + 1
    /\ UNCHANGED <<env, release, printed>>

Without(f, key) == [k \in DOMAIN f \ {key} |-> f[k]]

With(f, key, value) == [k \in DOMAIN f \union {key} |-> IF k = key THEN value ELSE f[k]]

MoveFixed ==
    \/ \E e \in FixedEdit : Edited([file EXCEPT !.fixed = With(@, e[1], e[2])])
    \/ \E key \in DOMAIN file.fixed : Edited([file EXCEPT !.fixed = Without(@, key)])

MoveModes ==
    \/ \E d \in Detector, m \in Mode \union {"nope"} :
            Edited([file EXCEPT !.modes = With(@, d, m)])
    \/ \E d \in DOMAIN file.modes : Edited([file EXCEPT !.modes = Without(@, d)])

MoveThresholds ==
    \/ \E e \in ThresholdEdit :
            Edited([file EXCEPT !.thresholds =
                        With(@, e[1], With(Block(file, e[1]), e[2], e[3]))])
    \/ \E d \in DOMAIN file.thresholds : Edited([file EXCEPT !.thresholds = Without(@, d)])

\* The operator writes down what a default would have supplied.
SpellDefault ==
    \/ \E key \in DOMAIN SchemaDefaults(release) \ DOMAIN file.fixed :
            Edited([file EXCEPT !.fixed = With(@, key, SchemaDefaults(release)[key])])
    \/ \E d \in UnlistedDetectors(release, file) :
            Edited([file EXCEPT !.modes = With(@, d, DefaultMode(release)[d])])
    \/ \E d \in Manifested(release) :
            Edited([file EXCEPT !.thresholds = With(@, d, FilledBlock(release, file, d))])

SetEnvironment ==
    /\ edits < MaxEdits
    /\ env' \in (SUBSET Variable) \ {env}
    /\ edits' = edits + 1
    /\ UNCHANGED <<file, release, printed>>

Upgrade ==
    /\ edits < MaxEdits
    /\ release' \in Release \ {release}
    /\ edits' = edits + 1
    /\ UNCHANGED <<file, env, printed>>

\* config_check.py --show-effective: a valid file has its hash printed.
RunCheck ==
    /\ Check(release, file, env) = {}
    /\ printed' = [hash |-> ConfigHash(release, file), release |-> release, env |-> env]
    /\ UNCHANGED <<file, env, release, edits>>

\* A refusal prints findings and changes nothing.
Refuse ==
    /\ Check(release, file, env) # {}
    /\ UNCHANGED configVars

ConfigNext ==
    \/ MoveFixed \/ MoveModes \/ MoveThresholds \/ SpellDefault
    \/ SetEnvironment \/ Upgrade \/ RunCheck \/ Refuse

ConfigSpec == ConfigInit /\ [][ConfigNext]_configVars

---------------------------------------------------------------------------
(* What a check has to mean, said of the settings a server would run with. *)

EnabledUnset(settings, variables) ==
    {p \in SecretEnvSections : settings.fixed[p[1]] = "true"
                               /\ Spelled(settings.fixed, p[2]) \notin variables}

Safe(r, settings, variables) ==
    /\ \A key \in DOMAIN settings.fixed :
            key \in DOMAIN r.schema /\ settings.fixed[key] \in r.schema[key].accepts
    /\ \A d \in DOMAIN settings.modes : d \in r.spec /\ settings.modes[d] \in Mode
    /\ \A d \in DOMAIN settings.thresholds : \A k \in DOMAIN settings.thresholds[d] :
            /\ d \in r.spec \intersect Manifested(r)
            /\ k \in DOMAIN r.manifest[d].thresholds
            /\ ThresholdOK(r.manifest[d].thresholds[k], settings.thresholds[d][k])
    /\ DOMAIN settings.thresholds \subseteq r.spec
    /\ settings.fixed["actions.tempBanLocal"] = "true" => settings.fixed["actions.kick"] = "true"
    /\ \A key \in PathKeys : settings.fixed[key] \notin EscapingPath
    /\ EnabledUnset(settings, variables) = {}

SameSettings(r, f) == printed.release = r /\ printed.hash = ConfigHash(r, f)

(* A server that reports the hash an accepting check printed, from the same  *)
(* release and with the variables that were set, runs settings that break no *)
(* rule of the release, whatever the file looks like by now.                 *)
PrintedHashIsSafe ==
    SameSettings(release, file) /\ printed.env \subseteq env
        => Safe(release, Effective(release, file), env)

(* A file is refused only when the settings it makes break a rule, but for   *)
(* the one case config_check.py:322 refuses without looking at defaults: a   *)
(* section switched on that leaves its variable's name to the schema.        *)
RefusedForCause ==
    Check(release, file, env) # {}
        => \/ ~Safe(release, Effective(release, file), env)
           \/ \E p \in SecretEnvSections :
                /\ Spelled(file.fixed, p[1]) = "true"
                /\ p[2] \notin DOMAIN file.fixed

\* Both of the above: what an accepted file and a refused one say of the server's settings.
ConfigVerdict == PrintedHashIsSafe /\ RefusedForCause

(* Writing down a default is not a change: the hash stays, and an accepted   *)
(* file stays accepted.                                                      *)
SpellingIsNoChange ==
    [][file' # file /\ SpellDefault =>
        /\ ConfigHash(release, file') = ConfigHash(release, file)
        /\ Check(release, file, env) = {} => Check(release, file', env) = {}]_configVars

=============================================================================
