---------------------------- MODULE ConfigCheckMC ---------------------------
EXTENDS ConfigCheck, TLC

Int3(n) == [kind |-> "int", size |-> n]
Float3(n) == [kind |-> "float", size |-> n]
Words == [kind |-> "text", size |-> 0]

Flagged(default) == [accepts |-> Flag, default |-> default]
VariableNamed(default) == [accepts |-> {"URL", "SECRET", "OTHER"}, default |-> default]
Located(default) == [accepts |-> {"here", "../out"}, default |-> default]

MCSchema ==
    "actions.kick" :> Flagged("false") @@ "actions.tempBanLocal" :> Flagged("false")
    @@ "webhook.enabled" :> Flagged("false") @@ "webhook.urlEnv" :> VariableNamed("URL")
    @@ "dashboard.enabled" :> Flagged("false") @@ "dashboard.secretEnv" :> VariableNamed("SECRET")
    @@ "evidence.dir" :> Located("here") @@ "identityMap.path" :> Located("here")
    @@ "hmacKey.path" :> Located("here")

MCManifest(limit, mode) ==
    "d1" :> [mode |-> mode,
             thresholds |-> ("max" :> [type |-> "int", range |-> <<1, 3>>, default |-> Int3(limit)]
                         @@ "rate" :> [type |-> "float", range |-> <<0, 2>>, default |-> Int3(1)]
                         @@ "note" :> [type |-> "string", range |-> NoValue, default |-> Words])]

\* The second release moves a threshold's default and a detector's mode; d2 is
\* registered and in no manifest.
MCRelease == {[schema |-> MCSchema, spec |-> {"d1", "d2"}, manifest |-> MCManifest(2, "observe")],
              [schema |-> MCSchema, spec |-> {"d1", "d2"}, manifest |-> MCManifest(3, "correct")]}

MCShippedFile ==
    [fixed |-> "actions.kick" :> "false" @@ "actions.tempBanLocal" :> "false"
               @@ "webhook.enabled" :> "false" @@ "webhook.urlEnv" :> "URL",
     modes |-> "d1" :> "observe" @@ "d2" :> "observe",
     thresholds |-> "d1" :> ("max" :> Int3(2))]

MCFixedEdit ==
    {<<k, v>> : k \in {"actions.kick", "actions.tempBanLocal", "webhook.enabled",
                       "dashboard.enabled"}, v \in Flag}
    \union {<<"webhook.urlEnv", "OTHER">>, <<"webhook.urlEnv", "not a name">>,
            <<"dashboard.secretEnv", "OTHER">>, <<"hmacKey.path", "../out">>,
            <<"evidence.dir", "../out">>, <<"webhook.enabled", "yes">>, <<"nope", "here">>}

MCThresholdEdit ==
    {<<"d1", "max", v>> : v \in {Int3(0), Int3(1), Int3(3), Int3(4), Float3(2), Words}}
    \union {<<"d1", "rate", Float3(2)>>, <<"d1", "rate", Words>>, <<"d1", "note", Words>>,
            <<"d1", "note", Int3(1)>>, <<"d1", "nope", Words>>, <<"d2", "max", Int3(2)>>,
            <<"d9", "max", Int3(2)>>}
=============================================================================
