--------------------------- MODULE SecretsDrillMC ---------------------------
EXTENDS SecretsDrill, TLC

Limit(n) == [kind |-> "int", size |-> n]

\* A release that moves the default of one threshold.
MovingTo(n) ==
    [schema |-> "identityMap.permissions" :> [accepts |-> {"0400", "0600"}, default |-> "0600"],
     spec |-> {"d1"},
     manifest |-> "d1" :> [mode |-> "observe",
        thresholds |-> "max" :> [type |-> "int", range |-> <<1, 3>>, default |-> Limit(n)]]]

MCInstallable == {MovingTo(1), MovingTo(2)}

At(map, key, dir) ==
    "identityMap.path" :> map @@ "hmacKey.path" :> key @@ "backup.keyCopyDir" :> dir

Kept(fixed, thresholds) == [fixed |-> fixed, modes |-> <<>>, thresholds |-> thresholds]

Spelt == "d1" :> ("max" :> Limit(1))

Good == Kept(At("own", "own", "store"), Spelt)
Terse == Kept(At("own", "own", "store"), <<>>)
Beside == Kept(At("own", "own", "beside"), Spelt)
\* A map that must not be written, a key that is gone, and a store only the host can open.
Odd == Kept("identityMap.permissions" :> "0400" @@ At("own", "gone", "host"), Spelt)

MCConfigs == {Good, Terse, Beside, Odd}

=============================================================================
