--------------------------- MODULE OperatorProofs ---------------------------
(***************************************************************************)
(* What the verdicts of the operator's tools mean, proved: the settings    *)
(* tools/config_check.py accepts, the secrets the restore drill passes,    *)
(* the names every host takes for the same files, the exit codes and       *)
(* reports of the command lines, and the archives verify() accepts.        *)
(***************************************************************************)
EXTENDS ConfigCheck, SecretsDrill, HostNames, CommandLine, ArchiveVerify,
        NumberProofs, FiniteSetTheorems, TLAPS

-----------------------------------------------------------------------------
(* The checks of a config, rule by rule. *)

Accepted(r, f, e) ==
    /\ \A k \in DOMAIN f.fixed : k \in DOMAIN r.schema /\ f.fixed[k] \in r.schema[k].accepts
    /\ \A d \in DOMAIN f.modes : f.modes[d] \in Mode
    /\ \A d \in DOMAIN f.modes : d \in r.spec
    /\ \A d \in DOMAIN f.thresholds : d \in r.spec
    /\ \A d \in DOMAIN f.thresholds : \A k \in DOMAIN Block(f, d) :
          d \in Manifested(r) /\ k \in DOMAIN r.manifest[d].thresholds
    /\ \A d \in DOMAIN f.thresholds \intersect Manifested(r) :
          \A k \in DOMAIN Block(f, d) \intersect DOMAIN r.manifest[d].thresholds :
              ThresholdOK(r.manifest[d].thresholds[k], f.thresholds[d][k])
    /\ \A p \in DependentActions :
          Spelled(f.fixed, p[1]) = "true" => Spelled(f.fixed, p[2]) = "true"
    /\ \A k \in PathKeys : Spelled(f.fixed, k) \notin EscapingPath
    /\ \A p \in SecretEnvSections :
          Spelled(f.fixed, p[1]) = "true" => Spelled(f.fixed, p[2]) \in e

LEMMA SchemaRule ==
    ASSUME NEW r, NEW f
    PROVE  SchemaErrors(r, f) = {} <=>
              /\ \A k \in DOMAIN f.fixed : k \in DOMAIN r.schema /\ f.fixed[k] \in r.schema[k].accepts
              /\ \A d \in DOMAIN f.modes : f.modes[d] \in Mode
<1> DEFINE K == {k \in DOMAIN f.fixed : k \notin DOMAIN r.schema \/ f.fixed[k] \notin r.schema[k].accepts}
           D == {x \in DOMAIN f.modes : f.modes[x] \notin Mode}
<1>1. K = {} <=> \A k \in DOMAIN f.fixed : k \in DOMAIN r.schema /\ f.fixed[k] \in r.schema[k].accepts
  OBVIOUS
<1>2. D = {} <=> \A d \in DOMAIN f.modes : f.modes[d] \in Mode
  OBVIOUS
<1>3. SchemaErrors(r, f) = {<<"schema", key>> : key \in K} \union {<<"mode", d>> : d \in D}
  BY Zenon DEF SchemaErrors
<1> HIDE DEF K, D
<1> QED BY <1>1, <1>2, <1>3

LEMMA RegistryRule ==
    ASSUME NEW r, NEW f
    PROVE  RegistryErrors(r, f) = {} <=>
              /\ \A d \in DOMAIN f.modes : d \in r.spec
              /\ \A d \in DOMAIN f.thresholds : d \in r.spec
              /\ \A d \in DOMAIN f.thresholds \intersect r.spec : \A k \in DOMAIN Block(f, d) :
                    d \in Manifested(r) /\ k \in DOMAIN r.manifest[d].thresholds
<1> DEFINE known(d) == IF d \in Manifested(r) THEN DOMAIN r.manifest[d].thresholds ELSE {}
           foreign(d) == {<<d, k>> : k \in DOMAIN Block(f, d) \ known(d)}
           M == DOMAIN f.modes \ r.spec
           B == DOMAIN f.thresholds \ r.spec
           T == DOMAIN f.thresholds \intersect r.spec
<1>1. RegistryErrors(r, f) = {<<"mode", d>> : d \in M} \union {<<"block", d>> : d \in B}
                             \union UNION {foreign(d) : d \in T}
  BY Zenon DEF RegistryErrors
<1>2. ASSUME NEW d
      PROVE  foreign(d) = {} <=> \A k \in DOMAIN Block(f, d) : k \in known(d)
  OBVIOUS
<1>3. ASSUME NEW d, NEW k
      PROVE  k \in known(d) <=> d \in Manifested(r) /\ k \in DOMAIN r.manifest[d].thresholds
  OBVIOUS
<1>4. M = {} <=> \A d \in DOMAIN f.modes : d \in r.spec
  OBVIOUS
<1>5. B = {} <=> \A d \in DOMAIN f.thresholds : d \in r.spec
  OBVIOUS
<1> HIDE DEF known, foreign, M, B, T
<1>6. UNION {foreign(d) : d \in T} = {} <=> \A d \in T : foreign(d) = {}
  OBVIOUS
<1>7. RegistryErrors(r, f) = {} <=> M = {} /\ B = {} /\ \A d \in T : foreign(d) = {}
  <2> DEFINE P == {<<"mode", d>> : d \in M}
             Q == {<<"block", d>> : d \in B}
             U == UNION {foreign(d) : d \in T}
  <2>1. P = {} <=> M = {}
    OBVIOUS
  <2>2. Q = {} <=> B = {}
    OBVIOUS
  <2>3. RegistryErrors(r, f) = P \union Q \union U
    BY <1>1
  <2>4. U = {} <=> \A d \in T : foreign(d) = {}
    BY <1>6
  <2> HIDE DEF P, Q, U
  <2> QED BY <2>1, <2>2, <2>3, <2>4
<1> QED BY <1>2, <1>3, <1>4, <1>5, <1>7 DEF T

LEMMA ThresholdRule ==
    ASSUME NEW r, NEW f
    PROVE  ThresholdErrors(r, f) = {} <=>
              \A d \in DOMAIN f.thresholds \intersect Manifested(r) :
                 \A k \in DOMAIN Block(f, d) \intersect DOMAIN r.manifest[d].thresholds :
                    ThresholdOK(r.manifest[d].thresholds[k], f.thresholds[d][k])
<1> DEFINE bad(d) == {x \in DOMAIN Block(f, d) \intersect DOMAIN r.manifest[d].thresholds :
                        ~ThresholdOK(r.manifest[d].thresholds[x], f.thresholds[d][x])}
           named(d) == {<<d, k>> : k \in bad(d)}
           T == DOMAIN f.thresholds \intersect Manifested(r)
<1>1. ThresholdErrors(r, f) = UNION {named(d) : d \in T}
  BY Zenon DEF ThresholdErrors
<1>2. ASSUME NEW d
      PROVE  bad(d) = {} <=>
                \A k \in DOMAIN Block(f, d) \intersect DOMAIN r.manifest[d].thresholds :
                    ThresholdOK(r.manifest[d].thresholds[k], f.thresholds[d][k])
  OBVIOUS
<1> HIDE DEF bad
<1>3. ASSUME NEW d PROVE named(d) = {} <=> bad(d) = {}
  OBVIOUS
<1> HIDE DEF named
<1>4. UNION {named(d) : d \in T} = {} <=> \A d \in T : named(d) = {}
  OBVIOUS
<1> QED BY <1>1, <1>2, <1>3, <1>4

LEMMA OtherRules ==
    ASSUME NEW f, NEW e
    PROVE  /\ ActionErrors(f) = {} <=> \A p \in DependentActions :
                  Spelled(f.fixed, p[1]) = "true" => Spelled(f.fixed, p[2]) = "true"
           /\ PathErrors(f) = {} <=> \A k \in PathKeys : Spelled(f.fixed, k) \notin EscapingPath
           /\ SecretEnvErrors(f, e) = {} <=> \A p \in SecretEnvSections :
                  Spelled(f.fixed, p[1]) = "true" => Spelled(f.fixed, p[2]) \in e
<1> DEFINE A == {p \in DependentActions : /\ Spelled(f.fixed, p[1]) = "true"
                                          /\ Spelled(f.fixed, p[2]) # "true"}
           K == {k \in PathKeys : Spelled(f.fixed, k) \in EscapingPath}
           S == {p \in SecretEnvSections : /\ Spelled(f.fixed, p[1]) = "true"
                                           /\ Spelled(f.fixed, p[2]) \notin e}
<1>1. A = {} <=> \A p \in DependentActions :
                  Spelled(f.fixed, p[1]) = "true" => Spelled(f.fixed, p[2]) = "true"
  OBVIOUS
<1>2. K = {} <=> \A k \in PathKeys : Spelled(f.fixed, k) \notin EscapingPath
  OBVIOUS
<1>3. S = {} <=> \A p \in SecretEnvSections :
                  Spelled(f.fixed, p[1]) = "true" => Spelled(f.fixed, p[2]) \in e
  OBVIOUS
<1>4. /\ ActionErrors(f) = {<<pair[1], pair[2]>> : pair \in A}
      /\ PathErrors(f) = {<<"escapes", key>> : key \in K}
      /\ SecretEnvErrors(f, e) = {<<pair[1], pair[2]>> : pair \in S}
  BY Zenon DEF ActionErrors, PathErrors, SecretEnvErrors
<1> HIDE DEF A, K, S
<1> QED BY <1>1, <1>2, <1>3, <1>4

LEMMA CheckIsAccepted ==
    ASSUME NEW r, NEW f, NEW e
    PROVE  Check(r, f, e) = {} <=> Accepted(r, f, e)
<1>1. CASE SchemaErrors(r, f) # {}
  <2>1. Check(r, f, e) # {}
    BY <1>1 DEF Check
  <2> QED BY <1>1, <2>1, SchemaRule DEF Accepted
<1>2. CASE SchemaErrors(r, f) = {}
  <2> DEFINE rest == {RegistryErrors(r, f), ThresholdErrors(r, f), ActionErrors(f), PathErrors(f),
                      SecretEnvErrors(f, e)}
  <2>1. Check(r, f, e) = UNION rest
    BY <1>2 DEF Check
  <2>2. UNION rest = {} <=>
          /\ RegistryErrors(r, f) = {} /\ ThresholdErrors(r, f) = {}
          /\ ActionErrors(f) = {} /\ PathErrors(f) = {} /\ SecretEnvErrors(f, e) = {}
    BY Zenon
  <2> HIDE DEF rest
  <2>3. RegistryErrors(r, f) = {} <=>
              /\ \A d \in DOMAIN f.modes : d \in r.spec
              /\ \A d \in DOMAIN f.thresholds : d \in r.spec
              /\ \A d \in DOMAIN f.thresholds : \A k \in DOMAIN Block(f, d) :
                    d \in Manifested(r) /\ k \in DOMAIN r.manifest[d].thresholds
    BY RegistryRule
  <2> QED BY <1>2, <2>1, <2>2, <2>3, SchemaRule, ThresholdRule, OtherRules DEF Accepted
<1> QED BY <1>1, <1>2
-----------------------------------------------------------------------------
(* The settings a release makes of a file. *)

LEMMA FilledFacts ==
    ASSUME NEW f, NEW g
    PROVE  /\ DOMAIN Filled(f, g) = DOMAIN f \union DOMAIN g
           /\ \A k \in DOMAIN f : Filled(f, g)[k] = f[k]
           /\ \A k \in DOMAIN g \ DOMAIN f : Filled(f, g)[k] = g[k]
BY DEF Filled

LEMMA EffectiveFacts ==
    ASSUME NEW r, NEW f
    PROVE  /\ Effective(r, f).fixed = Filled(f.fixed, SchemaDefaults(r))
           /\ Effective(r, f).modes = Filled(f.modes, DefaultMode(r))
           /\ DOMAIN Effective(r, f).thresholds = DOMAIN f.thresholds \union Manifested(r)
           /\ \A d \in DOMAIN f.thresholds \union Manifested(r) :
                 Effective(r, f).thresholds[d] = FilledBlock(r, f, d)
BY DEF Effective

LEMMA BlockFacts ==
    ASSUME NEW r, NEW f, NEW d
    PROVE  /\ DOMAIN Block(f, d) \subseteq DOMAIN FilledBlock(r, f, d)
           /\ \A k \in DOMAIN Block(f, d) : FilledBlock(r, f, d)[k] = Block(f, d)[k]
           /\ \A k \in DOMAIN FilledBlock(r, f, d) \ DOMAIN Block(f, d) :
                 /\ d \in Manifested(r)
                 /\ k \in DOMAIN DeclaredDefaults(r.manifest[d].thresholds)
                 /\ FilledBlock(r, f, d)[k] = DeclaredDefaults(r.manifest[d].thresholds)[k]
<1>1. CASE d \in Manifested(r)
  <2> DEFINE b == Block(f, d)
             g == DeclaredDefaults(r.manifest[d].thresholds)
  <2>1. FilledBlock(r, f, d) = Filled(b, g)
    BY <1>1 DEF FilledBlock
  <2> HIDE DEF b, g
  <2>2. /\ DOMAIN Filled(b, g) = DOMAIN b \union DOMAIN g
        /\ \A k \in DOMAIN b : Filled(b, g)[k] = b[k]
        /\ \A k \in DOMAIN g \ DOMAIN b : Filled(b, g)[k] = g[k]
    BY FilledFacts
  <2> QED BY <1>1, <2>1, <2>2 DEF b, g
<1>2. CASE d \notin Manifested(r)
  BY <1>2 DEF FilledBlock
<1> QED BY <1>1, <1>2

LEMMA DeclaredFacts ==
    ASSUME NEW entries
    PROVE  /\ DOMAIN DeclaredDefaults(entries) \subseteq DOMAIN entries
           /\ \A k \in DOMAIN DeclaredDefaults(entries) :
                 DeclaredDefaults(entries)[k] = entries[k].default
BY DEF DeclaredDefaults

\* A key with a default reads as it was spelled, or else as its default.
LEMMA Reads ==
    ASSUME NEW r, NEW f, NEW k \in DOMAIN SchemaDefaults(r)
    PROVE  /\ k \in DOMAIN f.fixed => Effective(r, f).fixed[k] = Spelled(f.fixed, k)
           /\ k \notin DOMAIN f.fixed => /\ Effective(r, f).fixed[k] = SchemaDefaults(r)[k]
                                         /\ Spelled(f.fixed, k) = NoValue
<1> DEFINE b == f.fixed
           g == SchemaDefaults(r)
           h == Effective(r, f).fixed
<1>1. h = Filled(b, g)
  BY EffectiveFacts
<1>2. k \in DOMAIN g
  OBVIOUS
<1>3. k \in DOMAIN b => Spelled(f.fixed, k) = b[k]
  BY DEF Spelled
<1>4. k \notin DOMAIN b => Spelled(f.fixed, k) = NoValue
  BY DEF Spelled
<1> HIDE DEF b, g, h
<1>5. /\ DOMAIN Filled(b, g) = DOMAIN b \union DOMAIN g
      /\ \A x \in DOMAIN b : Filled(b, g)[x] = b[x]
      /\ \A x \in DOMAIN g \ DOMAIN b : Filled(b, g)[x] = g[x]
  BY FilledFacts
<1> QED BY <1>1, <1>2, <1>3, <1>4, <1>5 DEF b, g, h

LEMMA ModesOf ==
    ASSUME NEW r \in Release
    PROVE  DOMAIN DefaultMode(r) = r.spec /\ \A d \in r.spec : DefaultMode(r)[d] \in Mode
BY ReleaseAssumption, NoValueAssumption DEF DefaultMode

LEMMA SafeFixed ==
    ASSUME NEW r \in Release, NEW f
    PROVE  (\A k \in DOMAIN f.fixed : k \in DOMAIN r.schema /\ f.fixed[k] \in r.schema[k].accepts)
             <=> \A k \in DOMAIN Effective(r, f).fixed :
                    k \in DOMAIN r.schema /\ Effective(r, f).fixed[k] \in r.schema[k].accepts
<1> DEFINE b == f.fixed
           g == SchemaDefaults(r)
           h == Effective(r, f).fixed
<1>1. /\ DOMAIN h = DOMAIN b \union DOMAIN g
      /\ \A k \in DOMAIN b : h[k] = b[k]
      /\ \A k \in DOMAIN g \ DOMAIN b : h[k] = g[k]
  <2>1. h = Filled(b, g)
    BY EffectiveFacts
  <2> HIDE DEF b, g, h
  <2>2. /\ DOMAIN Filled(b, g) = DOMAIN b \union DOMAIN g
        /\ \A x \in DOMAIN b : Filled(b, g)[x] = b[x]
        /\ \A x \in DOMAIN g \ DOMAIN b : Filled(b, g)[x] = g[x]
    BY FilledFacts
  <2> QED BY <2>1, <2>2
<1>2. \A k \in DOMAIN g : k \in DOMAIN r.schema /\ g[k] \in r.schema[k].accepts
  BY ReleaseAssumption, DeclaredFacts DEF SchemaDefaults
<1> HIDE DEF g, h
<1>3. (\A k \in DOMAIN f.fixed : k \in DOMAIN r.schema /\ f.fixed[k] \in r.schema[k].accepts)
             <=> \A k \in DOMAIN h : k \in DOMAIN r.schema /\ h[k] \in r.schema[k].accepts
  BY <1>1, <1>2
<1> QED BY <1>3 DEF h

LEMMA SafeModes ==
    ASSUME NEW r \in Release, NEW f
    PROVE  (\A d \in DOMAIN f.modes : f.modes[d] \in Mode /\ d \in r.spec)
             <=> \A d \in DOMAIN Effective(r, f).modes :
                    d \in r.spec /\ Effective(r, f).modes[d] \in Mode
<1> DEFINE b == f.modes
           g == DefaultMode(r)
           h == Effective(r, f).modes
<1>1. /\ DOMAIN h = DOMAIN b \union DOMAIN g
      /\ \A k \in DOMAIN b : h[k] = b[k]
      /\ \A k \in DOMAIN g \ DOMAIN b : h[k] = g[k]
  <2>1. h = Filled(b, g)
    BY EffectiveFacts
  <2> HIDE DEF b, g, h
  <2>2. /\ DOMAIN Filled(b, g) = DOMAIN b \union DOMAIN g
        /\ \A x \in DOMAIN b : Filled(b, g)[x] = b[x]
        /\ \A x \in DOMAIN g \ DOMAIN b : Filled(b, g)[x] = g[x]
    BY FilledFacts
  <2> QED BY <2>1, <2>2
<1>2. DOMAIN g = r.spec /\ \A d \in DOMAIN g : g[d] \in Mode
  BY ModesOf
<1> HIDE DEF g, h
<1>3. (\A d \in DOMAIN f.modes : f.modes[d] \in Mode /\ d \in r.spec)
             <=> \A d \in DOMAIN h : d \in r.spec /\ h[d] \in Mode
  BY <1>1, <1>2
<1> QED BY <1>3 DEF h

SafeBlocks(r, t) ==
    /\ \A d \in DOMAIN t : \A k \in DOMAIN t[d] :
            /\ d \in r.spec \intersect Manifested(r)
            /\ k \in DOMAIN r.manifest[d].thresholds
            /\ ThresholdOK(r.manifest[d].thresholds[k], t[d][k])
    /\ DOMAIN t \subseteq r.spec

LEMMA SafeThresholds ==
    ASSUME NEW r \in Release, NEW f
    PROVE  /\ \A d \in DOMAIN f.thresholds : d \in r.spec
           /\ \A d \in DOMAIN f.thresholds : \A k \in DOMAIN Block(f, d) :
                 d \in Manifested(r) /\ k \in DOMAIN r.manifest[d].thresholds
           /\ \A d \in DOMAIN f.thresholds \intersect Manifested(r) :
                 \A k \in DOMAIN Block(f, d) \intersect DOMAIN r.manifest[d].thresholds :
                     ThresholdOK(r.manifest[d].thresholds[k], f.thresholds[d][k])
           <=> SafeBlocks(r, Effective(r, f).thresholds)
<1> DEFINE t == Effective(r, f).thresholds
           D == DOMAIN f.thresholds \union Manifested(r)
<1>1. DOMAIN t = D /\ \A d \in D : t[d] = FilledBlock(r, f, d)
  BY EffectiveFacts
<1>2. /\ Manifested(r) \subseteq r.spec
      /\ \A d \in Manifested(r) : \A k \in DOMAIN DeclaredDefaults(r.manifest[d].thresholds) :
            /\ k \in DOMAIN r.manifest[d].thresholds
            /\ ThresholdOK(r.manifest[d].thresholds[k], DeclaredDefaults(r.manifest[d].thresholds)[k])
  BY ReleaseAssumption, DeclaredFacts
<1>3. ASSUME NEW d \in DOMAIN f.thresholds
      PROVE  Block(f, d) = f.thresholds[d]
  BY DEF Block
<1>4. ASSUME NEW d, d \notin DOMAIN f.thresholds
      PROVE  DOMAIN Block(f, d) = {}
  BY <1>4 DEF Block
<1> HIDE DEF t
<1>5. ASSUME NEW d \in D, d \in r.spec
      PROVE  (\A k \in DOMAIN t[d] :
                /\ d \in r.spec \intersect Manifested(r)
                /\ k \in DOMAIN r.manifest[d].thresholds
                /\ ThresholdOK(r.manifest[d].thresholds[k], t[d][k]))
             <=> \A k \in DOMAIN Block(f, d) :
                    /\ d \in Manifested(r) /\ k \in DOMAIN r.manifest[d].thresholds
                    /\ ThresholdOK(r.manifest[d].thresholds[k], Block(f, d)[k])
  <2>1. t[d] = FilledBlock(r, f, d)
    BY <1>1
  <2>2. /\ DOMAIN Block(f, d) \subseteq DOMAIN t[d]
        /\ \A k \in DOMAIN Block(f, d) : t[d][k] = Block(f, d)[k]
        /\ \A k \in DOMAIN t[d] \ DOMAIN Block(f, d) :
                 /\ d \in Manifested(r)
                 /\ k \in DOMAIN DeclaredDefaults(r.manifest[d].thresholds)
                 /\ t[d][k] = DeclaredDefaults(r.manifest[d].thresholds)[k]
    BY <2>1, BlockFacts
  <2> QED BY <1>2, <1>5, <2>2
<1>6. SafeBlocks(r, t) <=>
        /\ \A d \in DOMAIN f.thresholds : d \in r.spec
        /\ \A d \in D : \A k \in DOMAIN Block(f, d) :
                    /\ d \in Manifested(r) /\ k \in DOMAIN r.manifest[d].thresholds
                    /\ ThresholdOK(r.manifest[d].thresholds[k], Block(f, d)[k])
  <2>1. DOMAIN t \subseteq r.spec <=> \A d \in DOMAIN f.thresholds : d \in r.spec
    BY <1>1, <1>2
  <2>2. CASE DOMAIN t \subseteq r.spec
    BY <1>1, <1>5, <2>1, <2>2 DEF SafeBlocks
  <2>3. CASE ~(DOMAIN t \subseteq r.spec)
    BY <2>1, <2>3 DEF SafeBlocks
  <2> QED BY <2>2, <2>3
<1>7. (\A d \in D : \A k \in DOMAIN Block(f, d) :
                    /\ d \in Manifested(r) /\ k \in DOMAIN r.manifest[d].thresholds
                    /\ ThresholdOK(r.manifest[d].thresholds[k], Block(f, d)[k]))
       <=> \A d \in DOMAIN f.thresholds : \A k \in DOMAIN Block(f, d) :
                    /\ d \in Manifested(r) /\ k \in DOMAIN r.manifest[d].thresholds
                    /\ ThresholdOK(r.manifest[d].thresholds[k], f.thresholds[d][k])
  BY <1>3, <1>4
<1>8. (\A d \in DOMAIN f.thresholds : \A k \in DOMAIN Block(f, d) :
                    /\ d \in Manifested(r) /\ k \in DOMAIN r.manifest[d].thresholds
                    /\ ThresholdOK(r.manifest[d].thresholds[k], f.thresholds[d][k]))
       <=> /\ \A d \in DOMAIN f.thresholds : \A k \in DOMAIN Block(f, d) :
                 d \in Manifested(r) /\ k \in DOMAIN r.manifest[d].thresholds
           /\ \A d \in DOMAIN f.thresholds \intersect Manifested(r) :
                 \A k \in DOMAIN Block(f, d) \intersect DOMAIN r.manifest[d].thresholds :
                     ThresholdOK(r.manifest[d].thresholds[k], f.thresholds[d][k])
  OBVIOUS
<1> QED BY <1>6, <1>7, <1>8 DEF t
-----------------------------------------------------------------------------
(* Accepting a file and running safe settings. *)

SwitchKeys == RuleKeys \ PathKeys

\* The switches are spelled out: they are no path and every release declares them.
LEMMA Switches ==
    ASSUME NEW r \in Release
    PROVE  /\ SwitchKeys = {"webhook.enabled", "dashboard.enabled", "actions.tempBanLocal", "actions.kick"}
           /\ \A k \in SwitchKeys : k \in DOMAIN SchemaDefaults(r) /\ SchemaDefaults(r)[k] # "true"
           /\ \A k \in PathKeys : /\ k \in DOMAIN SchemaDefaults(r)
                                  /\ SchemaDefaults(r)[k] \notin EscapingPath
<1>1. {pair[1] : pair \in SecretEnvSections} = {"webhook.enabled", "dashboard.enabled"}
  BY DEF SecretEnvSections
<1>2. UNION {{pair[1], pair[2]} : pair \in DependentActions} = {"actions.tempBanLocal", "actions.kick"}
  BY DEF DependentActions
<1>3. RuleKeys = PathKeys \union {"webhook.enabled", "dashboard.enabled"}
                          \union {"actions.tempBanLocal", "actions.kick"}
  BY <1>1, <1>2 DEF RuleKeys
<1>4. SwitchKeys = {"webhook.enabled", "dashboard.enabled", "actions.tempBanLocal", "actions.kick"}
  BY <1>3 DEF SwitchKeys, PathKeys
<1>5. PathKeys \subseteq RuleKeys
  BY <1>3
<1> QED BY <1>4, <1>5, DefaultAssumption DEF SwitchKeys

LEMMA SafeParts ==
    ASSUME NEW r \in Release, NEW f, NEW e
    PROVE  Safe(r, Effective(r, f), e) <=>
              /\ \A k \in DOMAIN f.fixed : k \in DOMAIN r.schema /\ f.fixed[k] \in r.schema[k].accepts
              /\ \A d \in DOMAIN f.modes : f.modes[d] \in Mode /\ d \in r.spec
              /\ SafeBlocks(r, Effective(r, f).thresholds)
              /\ Effective(r, f).fixed["actions.tempBanLocal"] = "true"
                    => Effective(r, f).fixed["actions.kick"] = "true"
              /\ \A k \in PathKeys : Effective(r, f).fixed[k] \notin EscapingPath
              /\ EnabledUnset(Effective(r, f), e) = {}
<1> DEFINE s == Effective(r, f)
<1>1. (\A k \in DOMAIN f.fixed : k \in DOMAIN r.schema /\ f.fixed[k] \in r.schema[k].accepts)
        <=> \A k \in DOMAIN s.fixed : k \in DOMAIN r.schema /\ s.fixed[k] \in r.schema[k].accepts
  BY SafeFixed
<1>2. (\A d \in DOMAIN f.modes : f.modes[d] \in Mode /\ d \in r.spec)
        <=> \A d \in DOMAIN s.modes : d \in r.spec /\ s.modes[d] \in Mode
  BY SafeModes
<1> HIDE DEF s
<1> QED BY <1>1, <1>2 DEF Safe, SafeBlocks, s

\* A switch reads as on just when the file says so: no default switches it on.
LEMMA SwitchedOn ==
    ASSUME NEW r \in Release, NEW f, NEW k \in SwitchKeys
    PROVE  /\ Effective(r, f).fixed[k] = "true" <=> Spelled(f.fixed, k) = "true"
           /\ Spelled(f.fixed, k) = "true" => k \in DOMAIN f.fixed
BY Switches, Reads, NoValueAssumption

LEMMA PathRead ==
    ASSUME NEW r \in Release, NEW f, NEW k \in PathKeys
    PROVE  Effective(r, f).fixed[k] \in EscapingPath <=> Spelled(f.fixed, k) \in EscapingPath
BY Switches, Reads, NoValueAssumption

\* The variable a section names, where the file names one.
LEMMA SecretRead ==
    ASSUME NEW r \in Release, NEW f, NEW k \in DOMAIN f.fixed
    PROVE  Spelled(Effective(r, f).fixed, k) = Spelled(f.fixed, k)
<1> DEFINE b == f.fixed
           g == SchemaDefaults(r)
           h == Effective(r, f).fixed
<1>1. h = Filled(b, g)
  BY EffectiveFacts
<1>2. Spelled(b, k) = b[k]
  BY DEF Spelled
<1>3. k \in DOMAIN b
  OBVIOUS
<1>4. k \in DOMAIN h => Spelled(h, k) = h[k]
  BY DEF Spelled
<1> HIDE DEF b, g, h
<1>5. /\ DOMAIN Filled(b, g) = DOMAIN b \union DOMAIN g
      /\ \A x \in DOMAIN b : Filled(b, g)[x] = b[x]
  BY FilledFacts
<1>6. Spelled(h, k) = Spelled(b, k)
  BY <1>1, <1>2, <1>3, <1>4, <1>5
<1> QED BY <1>6 DEF b, h

\* Sections are switches, and the variable of each is one key.
LEMMA Sections ==
    /\ \A p \in SecretEnvSections : p[1] \in SwitchKeys
    /\ \A p \in DependentActions : p[1] = "actions.tempBanLocal" /\ p[2] = "actions.kick"
    /\ "actions.tempBanLocal" \in SwitchKeys /\ "actions.kick" \in SwitchKeys
BY DEF SecretEnvSections, DependentActions, SwitchKeys, RuleKeys, PathKeys

LEMMA NoneUnset ==
    ASSUME NEW s, NEW e
    PROVE  EnabledUnset(s, e) = {} <=>
              \A p \in SecretEnvSections : s.fixed[p[1]] = "true" => Spelled(s.fixed, p[2]) \in e
BY DEF EnabledUnset

LEMMA AcceptedIsSafe ==
    ASSUME NEW r \in Release, NEW f, NEW e \in SUBSET Variable, Accepted(r, f, e)
    PROVE  Safe(r, Effective(r, f), e)
<1> DEFINE s == Effective(r, f)
<1>1. SafeBlocks(r, s.thresholds)
  BY SafeThresholds DEF Accepted
<1>2. s.fixed["actions.tempBanLocal"] = "true" => s.fixed["actions.kick"] = "true"
  <2>1. Spelled(f.fixed, "actions.tempBanLocal") = "true" => Spelled(f.fixed, "actions.kick") = "true"
    BY DEF Accepted, DependentActions
  <2> QED BY <2>1, Sections, SwitchedOn
<1>3. \A k \in PathKeys : s.fixed[k] \notin EscapingPath
  BY PathRead DEF Accepted
<1>4. ASSUME NEW p \in SecretEnvSections, s.fixed[p[1]] = "true"
      PROVE  Spelled(s.fixed, p[2]) \in e
  <2>1. Spelled(f.fixed, p[1]) = "true"
    BY <1>4, Sections, SwitchedOn
  <2>2. Spelled(f.fixed, p[2]) \in e
    BY <2>1 DEF Accepted
  <2>3. p[2] \in DOMAIN f.fixed
    BY <2>2, NoValueAssumption DEF Spelled
  <2> QED BY <2>2, <2>3, SecretRead
<1>5. EnabledUnset(s, e) = {}
  BY <1>4, NoneUnset
<1> QED BY <1>1, <1>2, <1>3, <1>5, SafeParts DEF Accepted

LEMMA SafeIsAccepted ==
    ASSUME NEW r \in Release, NEW f, NEW e, Safe(r, Effective(r, f), e),
           \A p \in SecretEnvSections : Spelled(f.fixed, p[1]) = "true" => p[2] \in DOMAIN f.fixed
    PROVE  Accepted(r, f, e)
<1> DEFINE s == Effective(r, f)
<1>1. /\ \A k \in DOMAIN f.fixed : k \in DOMAIN r.schema /\ f.fixed[k] \in r.schema[k].accepts
      /\ \A d \in DOMAIN f.modes : f.modes[d] \in Mode /\ d \in r.spec
      /\ SafeBlocks(r, s.thresholds)
      /\ s.fixed["actions.tempBanLocal"] = "true" => s.fixed["actions.kick"] = "true"
      /\ \A k \in PathKeys : s.fixed[k] \notin EscapingPath
      /\ EnabledUnset(s, e) = {}
  BY SafeParts
<1>2. /\ \A d \in DOMAIN f.thresholds : d \in r.spec
      /\ \A d \in DOMAIN f.thresholds : \A k \in DOMAIN Block(f, d) :
            d \in Manifested(r) /\ k \in DOMAIN r.manifest[d].thresholds
      /\ \A d \in DOMAIN f.thresholds \intersect Manifested(r) :
            \A k \in DOMAIN Block(f, d) \intersect DOMAIN r.manifest[d].thresholds :
                ThresholdOK(r.manifest[d].thresholds[k], f.thresholds[d][k])
  BY <1>1, SafeThresholds
<1>3. \A p \in DependentActions :
          Spelled(f.fixed, p[1]) = "true" => Spelled(f.fixed, p[2]) = "true"
  BY <1>1, Sections, SwitchedOn
<1>4. \A k \in PathKeys : Spelled(f.fixed, k) \notin EscapingPath
  BY <1>1, PathRead
<1>5. ASSUME NEW p \in SecretEnvSections, Spelled(f.fixed, p[1]) = "true"
      PROVE  Spelled(f.fixed, p[2]) \in e
  <2>1. s.fixed[p[1]] = "true"
    BY <1>5, Sections, SwitchedOn
  <2>2. Spelled(s.fixed, p[2]) \in e
    BY <1>1, <2>1, NoneUnset
  <2>3. p[2] \in DOMAIN f.fixed
    BY <1>5
  <2> QED BY <2>2, <2>3, SecretRead
<1> QED BY <1>1, <1>2, <1>3, <1>4, <1>5 DEF Accepted

\* More variables set unsets none.
LEMMA SafeWithMore ==
    ASSUME NEW r, NEW s, NEW e, NEW more, Safe(r, s, e), e \subseteq more
    PROVE  Safe(r, s, more)
<1>1. EnabledUnset(s, more) = {}
  BY NoneUnset DEF Safe
<1> QED BY <1>1 DEF Safe
-----------------------------------------------------------------------------
(* The config check's own history. *)

FileShape(f) == f = [fixed |-> f.fixed, modes |-> f.modes, thresholds |-> f.thresholds]

\* Whatever hash is still on record is the hash of settings that were safe
\* where it was printed.
ConfigInv ==
    /\ FileShape(file)
    /\ env \in SUBSET Variable
    /\ release \in Release
    /\ printed.env \in SUBSET Variable
    /\ printed.release \in Release => Safe(printed.release, printed.hash, printed.env)

LEMMA ConfigInvInit == ConfigInit => ConfigInv
<1> SUFFICES ASSUME ConfigInit PROVE ConfigInv
  OBVIOUS
<1>1. FileShape(file)
  BY ShippedFileAssumption DEF ConfigInit, FileShape
<1>2. printed.env = {} /\ printed.release = NoValue
  BY DEF ConfigInit, NothingPrinted
<1> QED BY <1>1, <1>2, NoValueAssumption DEF ConfigInit, ConfigInv

\* An edit replaces one of the three parts of the file.
LEMMA EditKeepsShape ==
    ASSUME FileShape(file),
           MoveFixed \/ MoveModes \/ MoveThresholds \/ SpellDefault
    PROVE  FileShape(file') /\ UNCHANGED <<env, release, printed>>
<1>1. ASSUME NEW v
      PROVE  /\ FileShape([file EXCEPT !.fixed = v])
             /\ FileShape([file EXCEPT !.modes = v])
             /\ FileShape([file EXCEPT !.thresholds = v])
  <2> PICK a, b, c : file = [fixed |-> a, modes |-> b, thresholds |-> c]
    BY DEF FileShape
  <2> QED BY DEF FileShape
<1>2. \E v : \/ Edited([file EXCEPT !.fixed = v])
             \/ Edited([file EXCEPT !.modes = v])
             \/ Edited([file EXCEPT !.thresholds = v])
  BY Zenon DEF MoveFixed, MoveModes, MoveThresholds, SpellDefault
<1> QED BY <1>1, <1>2 DEF Edited

LEMMA ConfigInvNext == ConfigInv /\ [ConfigNext]_configVars => ConfigInv'
<1> SUFFICES ASSUME ConfigInv, [ConfigNext]_configVars PROVE ConfigInv'
  OBVIOUS
<1>1. CASE MoveFixed \/ MoveModes \/ MoveThresholds \/ SpellDefault
  <2>1. FileShape(file') /\ UNCHANGED <<env, release, printed>>
    BY <1>1, EditKeepsShape DEF ConfigInv
  <2> QED BY <2>1 DEF ConfigInv
<1>2. CASE SetEnvironment
  BY <1>2 DEF ConfigInv, SetEnvironment
<1>3. CASE Upgrade
  BY <1>3 DEF ConfigInv, Upgrade
<1>4. CASE RunCheck
  <2>1. UNCHANGED <<file, env, release>>
    BY <1>4 DEF RunCheck
  <2>2. /\ printed'.hash = Effective(release, file) /\ printed'.release = release
        /\ printed'.env = env
    BY <1>4 DEF RunCheck, ConfigHash
  <2>3. Safe(release, Effective(release, file), env)
    BY <1>4, CheckIsAccepted, AcceptedIsSafe DEF RunCheck, ConfigInv
  <2> QED BY <2>1, <2>2, <2>3 DEF ConfigInv
<1>5. CASE Refuse
  BY <1>5 DEF Refuse, ConfigInv, configVars
<1>6. CASE UNCHANGED configVars
  BY <1>6 DEF ConfigInv, configVars
<1> QED BY <1>1, <1>2, <1>3, <1>4, <1>5, <1>6 DEF ConfigNext

LEMMA ConfigInvariant == ConfigSpec => []ConfigInv
BY ConfigInvInit, ConfigInvNext, PTL DEF ConfigSpec

LEMMA VerdictFollows == ConfigInv => ConfigVerdict
<1> SUFFICES ASSUME ConfigInv PROVE ConfigVerdict
  OBVIOUS
<1>1. PrintedHashIsSafe
  <2> SUFFICES ASSUME SameSettings(release, file), printed.env \subseteq env
               PROVE  Safe(release, Effective(release, file), env)
    BY DEF PrintedHashIsSafe
  <2>1. Safe(release, Effective(release, file), printed.env)
    BY DEF SameSettings, ConfigHash, ConfigInv
  <2> QED BY <2>1, SafeWithMore
<1>2. RefusedForCause
  <2> SUFFICES ASSUME ~Accepted(release, file, env), Safe(release, Effective(release, file), env)
               PROVE  \E p \in SecretEnvSections : /\ Spelled(file.fixed, p[1]) = "true"
                                                   /\ p[2] \notin DOMAIN file.fixed
    BY CheckIsAccepted DEF RefusedForCause
  <2> QED BY SafeIsAccepted DEF ConfigInv
<1> QED BY <1>1, <1>2 DEF ConfigVerdict

(* Proved for every release, file, edit and environment: a server that       *)
(* reports the hash an accepting run of config_check.py printed runs         *)
(* settings that break no rule of its release, though the file was edited,   *)
(* the variables set and the release moved in between; and a refusal has its *)
(* cause in the settings but for the one documented case.                    *)
THEOREM HashVouchesForSettings == ConfigSpec => []ConfigVerdict
BY ConfigInvariant, VerdictFollows, PTL

-----------------------------------------------------------------------------
(* Spelling out a default. *)

LEMMA SpelledOnce ==
    ASSUME NEW f, NEW g, NEW k \in DOMAIN g \ DOMAIN f
    PROVE  Filled(With(f, k, g[k]), g) = Filled(f, g)
BY DEF Filled, With

LEMMA FilledTwice ==
    ASSUME NEW f, NEW g
    PROVE  Filled(Filled(f, g), g) = Filled(f, g)
BY DEF Filled

\* The three ways a default is written down leave what the release makes of
\* the file, and switch no section on.
LEMMA SpelledFixed ==
    ASSUME NEW r \in Release, NEW f, FileShape(f), NEW k \in DOMAIN SchemaDefaults(r) \ DOMAIN f.fixed,
           NEW h, h = [f EXCEPT !.fixed = With(f.fixed, k, SchemaDefaults(r)[k])]
    PROVE  /\ Effective(r, h) = Effective(r, f)
           /\ \A p \in SecretEnvSections :
                 Spelled(h.fixed, p[1]) = "true" => Spelled(f.fixed, p[1]) = "true"
           /\ DOMAIN f.fixed \subseteq DOMAIN h.fixed
<1> DEFINE g == SchemaDefaults(r)
<1>1. h.fixed = With(f.fixed, k, g[k]) /\ h.modes = f.modes /\ h.thresholds = f.thresholds
  BY DEF FileShape
<1>2. Filled(h.fixed, g) = Filled(f.fixed, g)
  BY <1>1, SpelledOnce
<1>3. \A d : Block(h, d) = Block(f, d)
  BY <1>1 DEF Block
<1>4. \A d : FilledBlock(r, h, d) = FilledBlock(r, f, d)
  BY <1>3 DEF FilledBlock
<1>5. Effective(r, h) = Effective(r, f)
  BY <1>1, <1>2, <1>4 DEF Effective
<1>6. ASSUME NEW p \in SecretEnvSections, Spelled(h.fixed, p[1]) = "true"
      PROVE  Spelled(f.fixed, p[1]) = "true"
  <2>1. p[1] \in SwitchKeys
    BY Sections
  <2> DEFINE k1 == p[1]
  <2> HIDE DEF k1
  <2>2. k1 \in SwitchKeys
    BY <2>1 DEF k1
  <2>3. Effective(r, h).fixed[k1] = "true" <=> Spelled(h.fixed, k1) = "true"
    BY <2>2, SwitchedOn
  <2>4. Effective(r, f).fixed[k1] = "true" <=> Spelled(f.fixed, k1) = "true"
    BY <2>2, SwitchedOn
  <2>5. Effective(r, h).fixed[k1] = "true"
    BY <1>6, <2>3 DEF k1
  <2>6. Effective(r, f).fixed[k1] = "true"
    <3> DEFINE eh == Effective(r, h)
               ef == Effective(r, f)
    <3> HIDE DEF eh, ef
    <3>1. eh = ef /\ eh.fixed[k1] = "true"
      BY <1>5, <2>5 DEF eh, ef
    <3>2. ef.fixed[k1] = "true"
      BY <3>1, Zenon
    <3> QED BY <3>2 DEF ef
  <2> QED BY <2>4, <2>6 DEF k1
<1> DEFINE b == f.fixed
           v == g[k]
<1>7. DOMAIN b \subseteq DOMAIN With(b, k, v)
  <2> HIDE DEF b, v
  <2> QED BY DEF With
<1> QED BY <1>1, <1>5, <1>6, <1>7

LEMMA SpelledMode ==
    ASSUME NEW r \in Release, NEW f, FileShape(f), NEW d \in UnlistedDetectors(r, f),
           NEW h, h = [f EXCEPT !.modes = With(f.modes, d, DefaultMode(r)[d])]
    PROVE  Effective(r, h) = Effective(r, f) /\ h.fixed = f.fixed
<1> DEFINE g == DefaultMode(r)
<1>1. h.modes = With(f.modes, d, g[d]) /\ h.fixed = f.fixed /\ h.thresholds = f.thresholds
  BY DEF FileShape
<1>2. d \in DOMAIN g \ DOMAIN f.modes
  BY ModesOf DEF UnlistedDetectors
<1>3. Filled(h.modes, g) = Filled(f.modes, g)
  BY <1>1, <1>2, SpelledOnce
<1>4. \A x : FilledBlock(r, h, x) = FilledBlock(r, f, x)
  BY <1>1 DEF Block, FilledBlock
<1> QED BY <1>1, <1>3, <1>4 DEF Effective

LEMMA SpelledBlock ==
    ASSUME NEW r \in Release, NEW f, FileShape(f), NEW d \in Manifested(r),
           NEW h, h = [f EXCEPT !.thresholds = With(f.thresholds, d, FilledBlock(r, f, d))]
    PROVE  Effective(r, h) = Effective(r, f) /\ h.fixed = f.fixed
<1> DEFINE g == DeclaredDefaults(r.manifest[d].thresholds)
           b == FilledBlock(r, f, d)
<1>1. h.thresholds = With(f.thresholds, d, b) /\ h.fixed = f.fixed /\ h.modes = f.modes
  BY DEF FileShape
<1>2. /\ DOMAIN h.thresholds = DOMAIN f.thresholds \union {d}
      /\ h.thresholds[d] = b
      /\ \A x \in DOMAIN f.thresholds \ {d} : h.thresholds[x] = f.thresholds[x]
  <2> DEFINE t == f.thresholds
  <2>1. h.thresholds = With(t, d, b)
    BY <1>1
  <2>2. /\ DOMAIN With(t, d, b) = DOMAIN t \union {d}
        /\ With(t, d, b)[d] = b
        /\ \A x \in DOMAIN t \ {d} : With(t, d, b)[x] = t[x]
    <3> HIDE DEF b, t
    <3> QED BY DEF With
  <2> HIDE DEF b
  <2> QED BY <2>1, <2>2
<1>3. b = Filled(Block(f, d), g)
  BY DEF FilledBlock
<1>4. Block(h, d) = b
  BY <1>2 DEF Block
<1>5. FilledBlock(r, h, d) = Filled(b, g)
  BY <1>4 DEF FilledBlock
<1>6. FilledBlock(r, h, d) = FilledBlock(r, f, d)
  BY <1>3, <1>5, FilledTwice
<1>7. ASSUME NEW x, x # d
      PROVE  FilledBlock(r, h, x) = FilledBlock(r, f, x)
  <2>1. Block(h, x) = Block(f, x)
    BY <1>2, <1>7 DEF Block
  <2> QED BY <2>1 DEF FilledBlock
<1>8. \A x : FilledBlock(r, h, x) = FilledBlock(r, f, x)
  BY <1>6, <1>7
<1>9. DOMAIN h.thresholds \union Manifested(r) = DOMAIN f.thresholds \union Manifested(r)
  BY <1>2
<1> HIDE DEF b, g
<1> QED BY <1>1, <1>8, <1>9 DEF Effective

\* A file that makes the same settings and names as many variables is accepted too.
LEMMA SameSettingsAccepted ==
    ASSUME NEW r \in Release, NEW f, NEW h, NEW e \in SUBSET Variable,
           Effective(r, h) = Effective(r, f), Accepted(r, f, e),
           \A p \in SecretEnvSections :
              Spelled(h.fixed, p[1]) = "true" => Spelled(f.fixed, p[1]) = "true",
           DOMAIN f.fixed \subseteq DOMAIN h.fixed
    PROVE  Accepted(r, h, e)
<1>1. Safe(r, Effective(r, h), e)
  BY AcceptedIsSafe
<1>2. ASSUME NEW p \in SecretEnvSections, Spelled(h.fixed, p[1]) = "true"
      PROVE  p[2] \in DOMAIN h.fixed
  <2>1. Spelled(f.fixed, p[2]) \in e
    BY <1>2 DEF Accepted
  <2>2. p[2] \in DOMAIN f.fixed
    BY <2>1, NoValueAssumption DEF Spelled
  <2> QED BY <2>2
<1> QED BY <1>1, <1>2, SafeIsAccepted

LEMMA SpellingKeeps ==
    ASSUME ConfigInv, SpellDefault
    PROVE  /\ ConfigHash(release, file') = ConfigHash(release, file)
           /\ Check(release, file, env) = {} => Check(release, file', env) = {}
<1> DEFINE Kept(h) ==
        /\ Effective(release, h) = Effective(release, file)
        /\ \A p \in SecretEnvSections :
              Spelled(h.fixed, p[1]) = "true" => Spelled(file.fixed, p[1]) = "true"
        /\ DOMAIN file.fixed \subseteq DOMAIN h.fixed
<1>1. release \in Release /\ FileShape(file) /\ env \in SUBSET Variable
  BY DEF ConfigInv
<1>2. Kept(file')
  <2>1. CASE \E k \in DOMAIN SchemaDefaults(release) \ DOMAIN file.fixed :
                Edited([file EXCEPT !.fixed = With(@, k, SchemaDefaults(release)[k])])
    BY <1>1, <2>1, SpelledFixed DEF Edited
  <2>2. CASE \E d \in UnlistedDetectors(release, file) :
                Edited([file EXCEPT !.modes = With(@, d, DefaultMode(release)[d])])
    BY <1>1, <2>2, SpelledMode DEF Edited
  <2>3. CASE \E d \in Manifested(release) :
                Edited([file EXCEPT !.thresholds = With(@, d, FilledBlock(release, file, d))])
    BY <1>1, <2>3, SpelledBlock DEF Edited
  <2> QED BY <2>1, <2>2, <2>3 DEF SpellDefault
<1>3. Accepted(release, file, env) => Accepted(release, file', env)
  BY <1>1, <1>2, SameSettingsAccepted
<1> QED BY <1>2, <1>3, CheckIsAccepted DEF ConfigHash

(* Proved for every release, file and environment: writing down a value that *)
(* a default would have supplied leaves the hash --show-effective prints and *)
(* gets no accepted file refused.                                            *)
THEOREM SpellingDefaultsIsSafe == ConfigSpec => SpellingIsNoChange
<1>1. ConfigInv /\ [ConfigNext]_configVars =>
        [file' # file /\ SpellDefault =>
            /\ ConfigHash(release, file') = ConfigHash(release, file)
            /\ Check(release, file, env) = {} => Check(release, file', env) = {}]_configVars
  BY SpellingKeeps
<1> QED BY <1>1, ConfigInvariant, PTL DEF ConfigSpec, SpellingIsNoChange
-----------------------------------------------------------------------------
(* The invariant of the drill's cross-checks. *)

SecretContent == (Section \X (0..MaxContent)) \union {<<"none", 0>>}

Fault ==
    {"hash", "copyDir", "unset", "host", "missing", "empty", "mode", "age", "no copy",
     "unreadable", "differs", "copy mode"}
Finding == (Section \union {"config"}) \X Fault

Looking == {"stat", "copy", "digest", "compare"}

DrillType ==
    drill \in [pc : {"idle", "match", "stat", "copy", "digest", "compare", "done"},
               loaded : Configs \union {NoValue}, hashes : SUBSET Hashes(Configs \X Installable),
               maxAge : 0..Cycle, now : 0..MaxHour,
               left : {<<>>, <<"hmacKey">>, SecretSections}, copied : File, digest : SecretContent,
               findings : SUBSET Finding]

WitnessedType ==
    witnessed \in [lived : [Section -> SUBSET SecretContent], stored : [Section -> SUBSET SecretContent],
                   calm : BOOLEAN]

\* No file ever holds another file's content.
OwnContent ==
    \A s \in Section : /\ live[s].there => live[s].content[1] = s
                       /\ store[s].there => store[s].content[1] = s

DrillPlace ==
    /\ drill.left = <<>> <=> drill.pc \in {"idle", "match", "done"}
    /\ drill.pc # "idle" => drill.loaded \in Configs
    /\ drill.pc \in {"idle", "match"} => drill.findings = {}
    /\ drill.pc \in {"copy", "digest", "compare"} => HasCopyDir
    /\ drill.pc = "done" /\ drill.findings = {} => HasCopyDir

\* What is there while a run goes on is among what the run has witnessed.
Watched ==
    drill.pc # "idle" => \A s \in Section : /\ live[s].content \in witnessed.lived[s]
                                            /\ store[s].content \in witnessed.stored[s]

\* The files the run is through with.
Judged ==
    IF drill.pc = "done" THEN Section
    ELSE IF drill.left = <<"hmacKey">> THEN {"identityMap"} ELSE {}

Copied(s) == \E c \in witnessed.lived[s] \intersect witnessed.stored[s] : c[1] = s

\* A copy that was digested was in the store, and a file passed is one that was copied.
CopiesSeen ==
    drill.pc # "idle" /\ CopyDir # "beside" =>
        /\ drill.pc = "compare" => drill.digest \in witnessed.stored[Current] /\ drill.digest[1] = Current
        /\ drill.findings = {} => \A s \in Judged : HasCopyDir => Copied(s)

CopyInv ==
    /\ SecretTypeOK /\ DrillType /\ WitnessedType /\ OwnContent /\ DrillPlace
    /\ Watched /\ CopiesSeen

-----------------------------------------------------------------------------
(* A run that nothing came between. *)

Matched == \E w \in provenance : Effective(w[2], w[1]) = Effective(installed, drill.loaded)

SectionSound(s) == ConfigReaches(s) /\ Recoverable(s) /\ Private(s) /\ InCycle(s)

LiveSound(s) == ModeErrors(s, live[s], "mode") \union AgeErrors(s, live[s]) = {}

\* What the run has found so far is what there is to find.
FoundSoFar ==
    drill.findings = {} <=> /\ Matched
                            /\ \A s \in Judged : SectionSound(s)
                            /\ drill.pc \in Looking \ {"stat"} => LiveSound(Current)

Undisturbed ==
    drill.pc # "idle" /\ witnessed.calm =>
        /\ drill.hashes = Hashes(provenance)
        /\ drill.pc # "match" => drill.now = hour
        /\ drill.pc \in Looking \ {"stat"} => Unusable(Current) = ""
        /\ drill.pc \in {"digest", "compare"} => drill.copied = CopyOf(Current) /\ drill.copied.there
        /\ drill.pc = "compare" => drill.digest = CopyOf(Current).content
        /\ drill.pc # "match" /\ HasCopyDir => FoundSoFar

SecretInv == CopyInv /\ Undisturbed
-----------------------------------------------------------------------------
(* Files, and what a run has witnessed. *)

USE DEF Section

LEMMA FileFacts ==
    ASSUME NEW f \in File
    PROVE  /\ f.there \in BOOLEAN /\ f.content \in SecretContent
           /\ f.there => f.content \in Section \X (0..MaxContent) /\ f.mtime \in 0..(MaxHour + 1)
<1> DEFINE Contents == Section \X (0..MaxContent)
           Stamps == 0..(MaxHour + 1)
<1>1. CASE f \in [there : {TRUE}, content : Contents, mtime : Stamps, mode : FileMode]
  <2>1. f.there = TRUE /\ f.content \in Contents /\ f.mtime \in Stamps
    BY <1>1
  <2> QED BY <2>1 DEF SecretContent
<1>2. CASE f = Absent
  <2>1. f.there = FALSE /\ f.content = <<"none", 0>>
    BY <1>2 DEF Absent
  <2> QED BY <2>1 DEF SecretContent
<1> QED BY <1>1, <1>2 DEF File

LEMMA AFile ==
    ASSUME NEW content \in Section \X (0..MaxContent), NEW mtime \in 0..(MaxHour + 1),
           NEW mode \in FileMode
    PROVE  /\ [there |-> TRUE, content |-> content, mtime |-> mtime, mode |-> mode] \in File
           /\ [there |-> TRUE, content |-> content, mtime |-> mtime, mode |-> mode].content = content
BY DEF File

LEMMA OwnerMode == Grants["0600"] \in FileMode
BY DEF Grants, FileMode

LEMMA ModeErrorsType ==
    ASSUME NEW s \in Section, NEW f, NEW what \in Fault
    PROVE  ModeErrors(s, f, what) \in SUBSET Finding
BY DEF ModeErrors, Finding

LEMMA AFinding ==
    ASSUME NEW s \in Section \union {"config"}, NEW what \in Fault
    PROVE  <<s, what>> \in Finding
BY DEF Finding

LEMMA AgeErrorsType ==
    ASSUME NEW s \in Section, NEW f
    PROVE  AgeErrors(s, f) \in SUBSET Finding
<1> DEFINE found == <<s, "age">>
<1>1. found \in Finding
  <2>1. "age" \in Fault /\ s \in Section \union {"config"}
    BY DEF Fault
  <2> QED BY <2>1, AFinding
<1> HIDE DEF found
<1>2. {found} \in SUBSET Finding /\ {} \in SUBSET Finding
  BY <1>1
<1>3. AgeErrors(s, f) \in {{found}, {}}
  BY Zenon DEF AgeErrors, found
<1> QED BY <1>2, <1>3

\* Nothing a run has witnessed is forgotten.
LEMMA WitnessedMore ==
    ASSUME WitnessedType, NEW l \in [Section -> File], NEW s \in [Section -> File],
           NEW w, NEW b \in BOOLEAN, w = [Witnessed(l, s) EXCEPT !.calm = b]
    PROVE  /\ w \in [lived : [Section -> SUBSET SecretContent], stored : [Section -> SUBSET SecretContent],
                     calm : BOOLEAN]
           /\ w.calm = b
           /\ \A x \in Section : /\ w.lived[x] = witnessed.lived[x] \union {l[x].content}
                                 /\ w.stored[x] = witnessed.stored[x] \union {s[x].content}
<1> DEFINE lived == [x \in Section |-> witnessed.lived[x] \union {l[x].content}]
           stored == [x \in Section |-> witnessed.stored[x] \union {s[x].content}]
<1>1. lived \in [Section -> SUBSET SecretContent] /\ stored \in [Section -> SUBSET SecretContent]
  BY FileFacts DEF WitnessedType
<1>2. w = [lived |-> lived, stored |-> stored, calm |-> b]
  BY DEF WitnessedType, Witnessed
<1>3. \A x \in Section : /\ lived[x] = witnessed.lived[x] \union {l[x].content}
                         /\ stored[x] = witnessed.stored[x] \union {s[x].content}
  OBVIOUS
<1> HIDE DEF lived, stored
<1>4. w.lived = lived /\ w.stored = stored /\ w.calm = b
  BY <1>2
<1> QED BY <1>1, <1>2, <1>3, <1>4

LEMMA LeftFacts ==
    ASSUME DrillType, DrillPlace, drill.pc \in Looking
    PROVE  \/ /\ drill.left = SecretSections /\ Current = "identityMap"
              /\ Tail(drill.left) = <<"hmacKey">> /\ Len(drill.left) = 2 /\ Judged = {}
           \/ /\ drill.left = <<"hmacKey">> /\ Current = "hmacKey"
              /\ Tail(drill.left) = <<>> /\ Len(drill.left) = 1 /\ Judged = {"identityMap"}
<1>1. drill.left \in {<<"hmacKey">>, SecretSections} /\ drill.pc # "done"
  BY DEF DrillType, DrillPlace, Looking
<1>2. CASE drill.left = <<"hmacKey">>
  <2>1. Head(<<"hmacKey">>) = "hmacKey" /\ Tail(<<"hmacKey">>) = <<>> /\ Len(<<"hmacKey">>) = 1
    OBVIOUS
  <2>2. Judged = {"identityMap"}
    BY <1>1, <1>2 DEF Judged
  <2> QED BY <1>2, <2>1, <2>2 DEF Current
<1>3. CASE drill.left = SecretSections
  <2>1. /\ Head(SecretSections) = "identityMap" /\ Tail(SecretSections) = <<"hmacKey">>
        /\ Len(SecretSections) = 2 /\ SecretSections # <<"hmacKey">>
    BY DEF SecretSections
  <2>2. Judged = {}
    BY <1>1, <1>3, <2>1 DEF Judged
  <2> QED BY <1>3, <2>1, <2>2 DEF Current
<1> QED BY <1>1, <1>2, <1>3

LEMMA EmptyLengths ==
    ASSUME DrillType
    PROVE  Len(drill.left) = 0 <=> drill.left = <<>>
<1>1. Len(<<>>) = 0 /\ Len(<<"hmacKey">>) = 1 /\ Len(SecretSections) = 2
  BY DEF SecretSections
<1>2. drill.left \in {<<>>, <<"hmacKey">>, SecretSections}
  BY DEF DrillType
<1> QED BY <1>1, <1>2
-----------------------------------------------------------------------------
(* The start. *)

LEMMA SecretInvInit == SecretInit => SecretInv
<1> SUFFICES ASSUME SecretInit PROVE SecretInv
  OBVIOUS
<1>1. drill = Idle /\ witnessed = Nothing
  BY DEF SecretInit
<1>2. drill.pc = "idle" /\ drill.left = <<>> /\ drill.findings = {}
  BY <1>1 DEF Idle
<1>3. Absent \in File
  BY DEF File
<1>4. DrillType
  <2>1. Absent \in File /\ <<"none", 0>> \in SecretContent
    BY <1>3 DEF SecretContent
  <2> QED BY <1>1, <2>1, SecretBoundsAssumption DEF DrillType, Idle
<1>5. live \in [Section -> File] /\ \A s \in Section : live[s].content[1] = s
  <2>1. live = [s \in Section |-> [there |-> TRUE, content |-> <<s, 1>>, mtime |-> 0,
                                   mode |-> Grants["0600"]]]
    BY DEF SecretInit
  <2>2. ASSUME NEW s \in Section
        PROVE  live[s] \in File /\ live[s].content[1] = s
    <3>1. <<s, 1>> \in Section \X (0..MaxContent) /\ <<s, 1>>[1] = s /\ 0 \in 0..(MaxHour + 1)
      BY SecretBoundsAssumption
    <3>2. live[s] = [there |-> TRUE, content |-> <<s, 1>>, mtime |-> 0, mode |-> Grants["0600"]]
      BY <2>1
    <3> HIDE DEF Section
    <3> QED BY <3>1, <3>2, AFile, OwnerMode
  <2> QED BY <2>1, <2>2
<1>6. store \in [Section -> File] /\ \A s \in Section : store[s].there => store[s].content[1] = s
  <2>1. CASE store = live
    BY <1>5, <2>1
  <2>2. CASE store = [s \in Section |-> Absent]
    <3>1. Absent.there = FALSE
      BY DEF Absent
    <3> QED BY <2>2, <3>1, <1>3
  <2> QED BY <2>1, <2>2 DEF SecretInit
<1>7. SecretTypeOK
  <2>1. config \in Configs /\ installed \in Installable /\ provenance \subseteq Configs \X Installable
    BY DEF SecretInit
  <2>2. /\ epoch \in [Section -> 1..MaxContent]
        /\ hour \in 0..MaxHour /\ changes \in 0..MaxChanges
    BY SecretBoundsAssumption DEF SecretInit
  <2>3. Len(drill.left) = 0
    BY <1>2
  <2> QED BY <1>2, <1>5, <1>6, <2>1, <2>2, <2>3 DEF SecretTypeOK
<1>8. WitnessedType
  BY <1>1 DEF WitnessedType, Nothing
<1>9. OwnContent
  BY <1>5, <1>6 DEF OwnContent
<1>10. DrillPlace /\ Watched /\ CopiesSeen /\ Undisturbed
  BY <1>2, Zenon DEF DrillPlace, Watched, CopiesSeen, Undisturbed
<1> QED BY <1>4, <1>7, <1>8, <1>9, <1>10 DEF SecretInv, CopyInv
-----------------------------------------------------------------------------
(* A run goes on to the next file. *)

Still == UNCHANGED <<config, installed, provenance, live, epoch, store, hour, changes, witnessed>>

NothingFound == {<<"config", "copyDir">>}

\* What every step of a run keeps that leaves everything but the run alone.
LEMMA StillFacts ==
    ASSUME Still, WitnessedType, OwnContent,
           drill'.loaded = drill.loaded, drill'.maxAge = drill.maxAge
    PROVE  /\ WitnessedType' /\ OwnContent'
           /\ HasCopyDir' = HasCopyDir /\ CopyDir' = CopyDir
           /\ \A s \in Section :
                /\ LivePath(s)' = LivePath(s) /\ CopyOf(s)' = CopyOf(s)
                /\ ConfiguredMode(s)' = ConfiguredMode(s)
                /\ Unusable(s)' = Unusable(s) /\ Copied(s)' = Copied(s)
                /\ drill'.now = drill.now =>
                      LiveSound(s)' = LiveSound(s) /\ SectionSound(s)' = SectionSound(s)
           /\ Matched' = Matched
<1>1. /\ WitnessedType' /\ OwnContent'
  BY DEF Still, WitnessedType, OwnContent
<1>2. CopyDir' = CopyDir /\ HasCopyDir' = HasCopyDir
  BY DEF CopyDir, HasCopyDir
<1>3. ASSUME NEW s \in Section
      PROVE  /\ LivePath(s)' = LivePath(s) /\ CopyOf(s)' = CopyOf(s)
             /\ ConfiguredMode(s)' = ConfiguredMode(s)
             /\ Unusable(s)' = Unusable(s) /\ Copied(s)' = Copied(s)
  <2>1. LivePath(s)' = LivePath(s) /\ CopyOf(s)' = CopyOf(s)
    BY <1>2 DEF LivePath, CopyOf, Still
  <2>2. ConfiguredMode(s)' = ConfiguredMode(s)
    BY DEF ConfiguredMode
  <2>3. Unusable(s)' = Unusable(s)
    BY <2>1 DEF Unusable, Still
  <2>4. Copied(s)' = Copied(s)
    BY DEF Copied, Still
  <2> QED BY <2>1, <2>2, <2>3, <2>4
<1>4. ASSUME NEW s \in Section, drill'.now = drill.now
      PROVE  LiveSound(s)' = LiveSound(s) /\ SectionSound(s)' = SectionSound(s)
  <2>1. LiveSound(s)' = LiveSound(s)
    BY <1>3, <1>4 DEF LiveSound, ModeErrors, AgeErrors, Still
  <2>2. /\ ConfigReaches(s)' = ConfigReaches(s) /\ Recoverable(s)' = Recoverable(s)
        /\ Private(s)' = Private(s) /\ InCycle(s)' = InCycle(s)
    BY <1>2, <1>3, <1>4 DEF ConfigReaches, Recoverable, Private, InCycle, Still
  <2> QED BY <2>1, <2>2 DEF SectionSound
<1>5. Matched' = Matched
  BY DEF Matched, Still
<1> QED BY <1>1, <1>2, <1>3, <1>4, <1>5

LEMMA StillTypes ==
    ASSUME SecretTypeOK, Still, DrillType', DrillPlace'
    PROVE  SecretTypeOK'
<1>1. Len(drill'.left) = 0 <=> drill'.left = <<>>
  <2>1. Len(<<>>) = 0 /\ Len(<<"hmacKey">>) = 1 /\ Len(SecretSections) = 2
    BY DEF SecretSections
  <2>2. drill'.left \in {<<>>, <<"hmacKey">>, SecretSections}
    BY DEF DrillType
  <2> QED BY <2>1, <2>2
<1>2. drill'.left = <<>> <=> drill'.pc \in {"idle", "match", "done"}
  BY DEF DrillPlace
<1>3. drill'.pc \in {"idle", "match", "stat", "copy", "digest", "compare", "done"}
  BY DEF DrillType
<1> QED BY <1>1, <1>2, <1>3 DEF SecretTypeOK, Still

LEMMA NextSectionFacts ==
    ASSUME SecretInv, drill.pc \in Looking, NEW found \in SUBSET Finding, NextSection(found)
    PROVE  /\ DrillType' /\ DrillPlace'
           /\ drill'.loaded = drill.loaded /\ drill'.maxAge = drill.maxAge
           /\ drill'.now = drill.now /\ drill'.hashes = drill.hashes
           /\ drill'.pc \in {"stat", "done"} /\ Judged' = Judged \union {Current}
           /\ HasCopyDir' = HasCopyDir
           /\ drill'.findings = {} => drill.findings = {} /\ found = {}
           /\ HasCopyDir => drill'.findings = drill.findings \union found
<1> DEFINE last == Len(drill.left) = 1
           more == drill.findings \union found \union
                    (IF last /\ ~HasCopyDir THEN {<<"config", "copyDir">>} ELSE {})
           next == IF last THEN "done" ELSE "stat"
           rest == Tail(drill.left)
<1>1. DrillType /\ DrillPlace
  BY DEF SecretInv, CopyInv
<1>2. drill' = [drill EXCEPT !.left = rest, !.copied = Absent, !.digest = <<"none", 0>>,
                             !.findings = more, !.pc = next]
  BY DEF NextSection
<1>3. rest \in {<<>>, <<"hmacKey">>} /\ (rest = <<>> <=> last)
  <2>1. <<"hmacKey">> # <<>> /\ 1 # 2
    OBVIOUS
  <2>2. \/ rest = <<"hmacKey">> /\ Len(drill.left) = 2
        \/ rest = <<>> /\ Len(drill.left) = 1
    BY <1>1, LeftFacts
  <2> QED BY <2>1, <2>2
<1>4. more \in SUBSET Finding
  <2>1. "copyDir" \in Fault /\ "config" \in Section \union {"config"}
    BY DEF Fault
  <2>2. <<"config", "copyDir">> \in Finding
    BY <2>1, AFinding
  <2>3. drill.findings \in SUBSET Finding
    BY <1>1 DEF DrillType
  <2> QED BY <2>2, <2>3
<1>5. Absent \in File /\ <<"none", 0>> \in SecretContent
  BY DEF File, SecretContent
<1>6. /\ drill'.left = rest /\ drill'.findings = more /\ drill'.pc = next
      /\ drill'.loaded = drill.loaded /\ drill'.maxAge = drill.maxAge
      /\ drill'.now = drill.now /\ drill'.hashes = drill.hashes
  BY <1>1, <1>2 DEF DrillType
<1>7. next \in {"stat", "done"} /\ (next = "done" <=> last)
  OBVIOUS
<1>8. DrillType'
  <2> HIDE DEF more, next, rest
  <2>1. drill' \in [pc : {"idle", "match", "stat", "copy", "digest", "compare", "done"},
               loaded : Configs \union {NoValue}, hashes : SUBSET Hashes(Configs \X Installable),
               maxAge : 0..Cycle, now : 0..MaxHour,
               left : {<<>>, <<"hmacKey">>, SecretSections}, copied : File, digest : SecretContent,
               findings : SUBSET Finding]
    BY <1>1, <1>2, <1>3, <1>4, <1>5, <1>7 DEF DrillType
  <2> QED BY <2>1 DEF DrillType
<1>9. HasCopyDir' = HasCopyDir
  BY <1>6 DEF HasCopyDir, CopyDir
<1>10. more = {} => ~(last /\ ~HasCopyDir)
  OBVIOUS
<1>11. DrillPlace'
  <2> HIDE DEF more, next, rest
  <2>1. drill'.left = <<>> <=> drill'.pc \in {"idle", "match", "done"}
    BY <1>3, <1>6, <1>7
  <2>2. drill'.pc # "idle" => drill'.loaded \in Configs
    BY <1>1, <1>6 DEF DrillPlace, Looking
  <2> QED BY <1>6, <1>7, <1>9, <1>10, <2>1, <2>2 DEF DrillPlace
<1>12. Judged' = Judged \union {Current}
  <2> HIDE DEF more, next, rest
  <2>1. CASE last
    <3>1. drill'.pc = "done"
      BY <1>6, <1>7, <2>1
    <3>2. Judged = {"identityMap"} /\ Current = "hmacKey"
      BY <1>1, <2>1, LeftFacts
    <3> QED BY <3>1, <3>2 DEF Judged
  <2>2. CASE ~last
    <3>1. drill'.pc = "stat"
      BY <1>6, <1>7, <2>2
    <3>2. Judged = {} /\ Current = "identityMap" /\ drill'.left = <<"hmacKey">>
      BY <1>1, <1>6, <2>2, LeftFacts DEF rest
    <3> QED BY <3>1, <3>2 DEF Judged
  <2> QED BY <2>1, <2>2
<1> QED BY <1>6, <1>7, <1>8, <1>9, <1>11, <1>12

\* A section is passed when everything there is to find of it was looked for.
LEMMA SoundParts ==
    ASSUME SecretTypeOK, DrillType, drill.loaded \in Configs, NEW s \in Section, HasCopyDir
    PROVE  SectionSound(s) <=>
              /\ Unusable(s) = "" /\ LiveSound(s)
              /\ CopyOf(s).there /\ CopyOf(s).content = live[s].content
              /\ ModeErrors(s, CopyOf(s), "copy mode") = {}
<1>1. live[s] \in File
  BY DEF SecretTypeOK
<1>2. /\ live[s].there \in BOOLEAN
      /\ live[s].there => live[s].content[2] \in Nat /\ live[s].mtime \in Int
  BY <1>1, FileFacts, SecretBoundsAssumption
<1>3. Unusable(s) = "" <=> LivePath(s) = "own" /\ live[s].there /\ live[s].content[2] # 0
  <2>1. LivePath(s) \in {NoValue, "own", "host", "gone"} /\ NoValue # "own"
    BY SecretPathAssumption DEF LivePath
  <2> QED BY <2>1 DEF Unusable, Empty
<1>4. ModeErrors(s, CopyOf(s), "copy mode") = {} <=> CopyOf(s).mode \subseteq ConfiguredMode(s)
  BY DEF ModeErrors
<1>5. live[s].there => (LiveSound(s) <=> live[s].mode \subseteq ConfiguredMode(s) /\ InCycle(s))
  <2>1. ModeErrors(s, live[s], "mode") = {} <=> live[s].mode \subseteq ConfiguredMode(s)
    BY DEF ModeErrors
  <2>2. drill.now \in Int /\ drill.maxAge \in Int
    BY SecretBoundsAssumption DEF DrillType
  <2>3. live[s].there => (AgeErrors(s, live[s]) = {} <=> InCycle(s))
    <3>1. AgeErrors(s, live[s]) = {}
            <=> ~(drill.now < live[s].mtime \/ drill.now - live[s].mtime > drill.maxAge)
      BY Zenon DEF AgeErrors
    <3> QED BY <1>2, <2>2, <3>1 DEF InCycle
  <2> QED BY <2>1, <2>3 DEF LiveSound
<1>6. live[s].there => (live[s].content[2] # 0 <=> live[s].content[2] > 0)
  BY <1>2
<1>7. Private(s) <=> /\ live[s].mode \subseteq ConfiguredMode(s)
                     /\ CopyOf(s).mode \subseteq ConfiguredMode(s)
  BY DEF Private
<1> QED BY <1>3, <1>4, <1>5, <1>6, <1>7, Zenon DEF SectionSound, ConfigReaches, Recoverable
-----------------------------------------------------------------------------
(* The steps of a run. *)

LEMMA NextSectionInv ==
    ASSUME SecretInv, drill.pc \in Looking, NEW found \in SUBSET Finding, NextSection(found), Still,
           CopyDir # "beside" /\ HasCopyDir /\ drill.findings = {} /\ found = {} => Copied(Current),
           witnessed.calm /\ HasCopyDir =>
              (SectionSound(Current) <=> found = {} /\ (drill.pc # "stat" => LiveSound(Current)))
    PROVE  SecretInv'
<1>1. /\ SecretTypeOK /\ DrillType /\ WitnessedType /\ OwnContent /\ DrillPlace
      /\ Watched /\ CopiesSeen /\ Undisturbed
  BY DEF SecretInv, CopyInv
<1>2. /\ DrillType' /\ DrillPlace'
      /\ drill'.loaded = drill.loaded /\ drill'.maxAge = drill.maxAge
      /\ drill'.now = drill.now /\ drill'.hashes = drill.hashes
      /\ drill'.pc \in {"stat", "done"} /\ Judged' = Judged \union {Current}
      /\ HasCopyDir' = HasCopyDir
      /\ drill'.findings = {} => drill.findings = {} /\ found = {}
      /\ HasCopyDir => drill'.findings = drill.findings \union found
  BY NextSectionFacts
<1>3. /\ WitnessedType' /\ OwnContent'
      /\ HasCopyDir' = HasCopyDir /\ CopyDir' = CopyDir
      /\ \A s \in Section : Copied(s)' = Copied(s) /\ SectionSound(s)' = SectionSound(s)
      /\ Matched' = Matched
  BY <1>1, <1>2, StillFacts
<1>4. SecretTypeOK'
  BY <1>1, <1>2, StillTypes
<1>5. /\ drill.pc \notin {"idle", "match"} /\ drill'.pc \notin {"idle", "match", "compare"}
      /\ Current \in Section /\ Judged \subseteq Section
  <2>1. drill.pc \notin {"idle", "match"} /\ drill'.pc \notin {"idle", "match", "compare"}
    BY <1>2 DEF Looking
  <2> QED BY <1>1, <2>1, LeftFacts
<1>6. Watched'
  <2>1. \A s \in Section : /\ live[s].content \in witnessed.lived[s]
                           /\ store[s].content \in witnessed.stored[s]
    BY <1>1, <1>5 DEF Watched
  <2> QED BY <2>1 DEF Watched, Still
<1>7. CopiesSeen'
  <2>1. ASSUME CopyDir # "beside", drill'.findings = {}, HasCopyDir, NEW s \in Judged'
        PROVE  Copied(s)'
    <3>1. s \in Judged \/ s = Current
      BY <1>2, <2>1
    <3>2. Copied(s)
      BY <1>1, <1>2, <1>5, <2>1, <3>1 DEF CopiesSeen
    <3> QED BY <1>3, <1>5, <3>1, <3>2
  <2> QED BY <1>2, <1>3, <1>5, <2>1 DEF CopiesSeen
<1>8. Undisturbed'
  <2> SUFFICES ASSUME witnessed.calm
               PROVE  Undisturbed'
    BY DEF Undisturbed, Still
  <2>1. drill.hashes = Hashes(provenance) /\ drill.now = hour
    BY <1>1, <1>5 DEF Undisturbed
  <2>2. ASSUME HasCopyDir PROVE FoundSoFar'
    <3>1. drill.findings = {} <=> /\ Matched
                                  /\ \A s \in Judged : SectionSound(s)
                                  /\ drill.pc \in Looking \ {"stat"} => LiveSound(Current)
      BY <1>1, <1>5, <2>2 DEF Undisturbed, FoundSoFar
    <3>2. drill'.findings = {} <=> drill.findings = {} /\ found = {}
      BY <1>2, <2>2
    <3>3. (\A s \in Judged' : SectionSound(s)')
            <=> (\A s \in Judged : SectionSound(s)) /\ SectionSound(Current)
      BY <1>2, <1>3, <1>5
    <3>4. drill'.pc \notin Looking \ {"stat"}
      BY <1>2 DEF Looking
    <3>5. SectionSound(Current) <=> found = {} /\ (drill.pc # "stat" => LiveSound(Current))
      BY <2>2
    <3> QED BY <1>3, <3>1, <3>2, <3>3, <3>4, <3>5 DEF FoundSoFar
  <2>3. drill'.hashes = Hashes(provenance') /\ drill'.now = hour'
    BY <1>2, <2>1 DEF Still
  <2>4. /\ drill'.pc \notin Looking \ {"stat"} /\ drill'.pc \notin {"digest", "compare"}
        /\ drill'.pc # "compare"
    BY <1>2 DEF Looking
  <2> QED BY <1>3, <2>2, <2>3, <2>4 DEF Undisturbed
<1> QED BY <1>2, <1>3, <1>4, <1>6, <1>7, <1>8 DEF SecretInv, CopyInv

\* A step of a run that stays with its file.
LEMMA SameSectionInv ==
    ASSUME SecretInv, drill.pc \in Looking, DrillType', Still,
           drill'.pc \in Looking \ {"stat"}, drill'.left = drill.left,
           drill'.loaded = drill.loaded, drill'.maxAge = drill.maxAge,
           drill'.now = drill.now, drill'.hashes = drill.hashes,
           HasCopyDir,
           drill'.findings = {} => drill.findings = {},
           drill'.pc = "compare" =>
                drill'.digest = CopyOf(Current).content /\ CopyOf(Current).there,
           Unusable(Current) = "" \/ ~witnessed.calm,
           witnessed.calm => (drill'.findings = {} <=>
                                /\ drill.findings = {}
                                /\ drill.pc = "stat" => LiveSound(Current)),
           witnessed.calm /\ drill'.pc \in {"digest", "compare"} =>
                drill'.copied = CopyOf(Current) /\ CopyOf(Current).there
    PROVE  SecretInv'
<1>1. /\ SecretTypeOK /\ DrillType /\ WitnessedType /\ OwnContent /\ DrillPlace
      /\ Watched /\ CopiesSeen /\ Undisturbed
  BY DEF SecretInv, CopyInv
<1>2. /\ WitnessedType' /\ OwnContent'
      /\ HasCopyDir' = HasCopyDir /\ CopyDir' = CopyDir
      /\ \A s \in Section :
            /\ CopyOf(s)' = CopyOf(s) /\ Unusable(s)' = Unusable(s) /\ Copied(s)' = Copied(s)
            /\ LiveSound(s)' = LiveSound(s) /\ SectionSound(s)' = SectionSound(s)
      /\ Matched' = Matched
  BY <1>1, StillFacts
<1>3. /\ drill.pc \notin {"idle", "match", "done"} /\ drill'.pc \notin {"idle", "match", "done", "stat"}
      /\ Current \in Section /\ Judged \subseteq Section
  <2>1. drill.pc \notin {"idle", "match", "done"} /\ drill'.pc \notin {"idle", "match", "done", "stat"}
    BY DEF Looking
  <2> QED BY <1>1, <2>1, LeftFacts
<1>4. Judged' = Judged /\ Current' = Current
  BY <1>3 DEF Judged, Current
<1>5. DrillPlace'
  <2>1. drill.left # <<>> /\ drill.loaded \in Configs
    BY <1>1, <1>3 DEF DrillPlace
  <2> QED BY <1>2, <1>3, <2>1 DEF DrillPlace
<1>6. SecretTypeOK'
  BY <1>1, <1>5, StillTypes
<1>7. Watched'
  <2>1. \A s \in Section : /\ live[s].content \in witnessed.lived[s]
                           /\ store[s].content \in witnessed.stored[s]
    BY <1>1, <1>3 DEF Watched
  <2> QED BY <2>1 DEF Watched, Still
<1>8. CopiesSeen'
  <2> SUFFICES ASSUME CopyDir # "beside" PROVE CopiesSeen'
    BY <1>2 DEF CopiesSeen
  <2>1. ASSUME drill'.pc = "compare"
        PROVE  drill'.digest \in witnessed'.stored[Current] /\ drill'.digest[1] = Current
    <3>1. CopyOf(Current) = store[Current]
      BY DEF CopyOf
    <3>2. store[Current].content \in witnessed.stored[Current]
      BY <1>1, <1>3 DEF Watched
    <3>3. store[Current].content[1] = Current
      BY <1>1, <1>3, <2>1, <3>1 DEF OwnContent
    <3> QED BY <2>1, <3>1, <3>2, <3>3 DEF Still
  <2>2. ASSUME drill'.findings = {}, NEW s \in Judged
        PROVE  HasCopyDir' => Copied(s)'
    BY <1>1, <1>2, <1>3, <2>2 DEF CopiesSeen
  <2> QED BY <1>4, <2>1, <2>2 DEF CopiesSeen
<1>9. Undisturbed'
  <2> SUFFICES ASSUME witnessed.calm
               PROVE  Undisturbed'
    BY DEF Undisturbed, Still
  <2>1. drill'.hashes = Hashes(provenance') /\ drill'.now = hour'
    BY <1>1, <1>3 DEF Undisturbed, Still
  <2>2. FoundSoFar'
    <3>1. drill.findings = {} <=> /\ Matched
                                  /\ \A s \in Judged : SectionSound(s)
                                  /\ drill.pc \in Looking \ {"stat"} => LiveSound(Current)
      BY <1>1, <1>3 DEF Undisturbed, FoundSoFar
    <3>2. drill'.findings = {} <=>
             /\ Matched' /\ \A s \in Judged' : SectionSound(s)'
             /\ LiveSound(Current)
      BY <1>2, <1>3, <1>4, <3>1
    <3>3. LiveSound(Current)' <=> LiveSound(Current)
      <4>1. PICK s \in Section : s = Current
        BY <1>3
      <4>2. LiveSound(s)' = LiveSound(s) /\ Current' = s
        BY <1>2, <1>4, <4>1
      <4> QED BY <4>1, <4>2 DEF LiveSound
    <3> QED BY <1>3, <3>2, <3>3 DEF FoundSoFar
  <2>3. /\ Unusable(Current)' = "" /\ CopyOf(Current)' = CopyOf(Current)
    <3>1. PICK s \in Section : s = Current
      BY <1>3
    <3>2. Unusable(s)' = "" /\ CopyOf(s)' = CopyOf(s) /\ Current' = s
      BY <1>2, <1>4, <3>1
    <3> QED BY <3>1, <3>2 DEF Unusable, CopyOf
  <2> QED BY <2>1, <2>2, <2>3 DEF Undisturbed
<1> QED BY <1>2, <1>5, <1>6, <1>7, <1>8, <1>9 DEF SecretInv, CopyInv
LEMMA BeginStep == ASSUME SecretInv, BeginDrill PROVE SecretInv'
<1>1. /\ SecretTypeOK /\ DrillType /\ WitnessedType /\ OwnContent /\ drill.pc = "idle"
  BY DEF SecretInv, CopyInv, BeginDrill
<1>2. PICK maxAge \in 1..Cycle, chosen \in {config} \union {w[1] : w \in provenance} :
            drill' = [Idle EXCEPT !.pc = "match", !.loaded = chosen, !.maxAge = maxAge,
                                  !.hashes = Hashes(provenance)]
  BY DEF BeginDrill
<1>3. /\ drill'.pc = "match" /\ drill'.loaded = chosen /\ drill'.left = <<>>
      /\ drill'.hashes = Hashes(provenance) /\ drill'.findings = {}
  BY <1>2 DEF Idle
<1>4. chosen \in Configs
  BY <1>1 DEF SecretTypeOK
<1>5. DrillType'
  <2>1. Hashes(provenance) \in SUBSET Hashes(Configs \X Installable)
    BY <1>1 DEF SecretTypeOK, Hashes
  <2>2. Absent \in File /\ <<"none", 0>> \in SecretContent
    BY DEF File, SecretContent
  <2>3. maxAge \in 0..Cycle /\ 0 \in 0..MaxHour
    BY SecretBoundsAssumption
  <2>4. drill' = [pc |-> "match", loaded |-> chosen, hashes |-> Hashes(provenance),
                  maxAge |-> maxAge, now |-> 0, left |-> <<>>, copied |-> Absent,
                  digest |-> <<"none", 0>>, findings |-> {}]
    BY <1>2 DEF Idle
  <2> QED BY <1>4, <2>1, <2>2, <2>3, <2>4 DEF DrillType
<1>6. /\ live \in [Section -> File] /\ store \in [Section -> File]
      /\ witnessed' = [Witnessed(live, store) EXCEPT !.calm = TRUE]
      /\ UNCHANGED <<config, installed, provenance, live, epoch, store, hour, changes>>
  BY <1>1 DEF SecretTypeOK, BeginDrill
<1>7. /\ WitnessedType'
      /\ \A x \in Section : /\ live[x].content \in witnessed'.lived[x]
                            /\ store[x].content \in witnessed'.stored[x]
  <2>1. TRUE \in BOOLEAN
    OBVIOUS
  <2>2. /\ witnessed' \in [lived : [Section -> SUBSET SecretContent], stored : [Section -> SUBSET SecretContent],
                           calm : BOOLEAN]
        /\ \A x \in Section : /\ witnessed'.lived[x] = witnessed.lived[x] \union {live[x].content}
                              /\ witnessed'.stored[x] = witnessed.stored[x] \union {store[x].content}
    <3> DEFINE w == [Witnessed(live, store) EXCEPT !.calm = TRUE]
    <3>1. /\ w \in [lived : [Section -> SUBSET SecretContent], stored : [Section -> SUBSET SecretContent],
                     calm : BOOLEAN]
          /\ \A x \in Section : /\ w.lived[x] = witnessed.lived[x] \union {live[x].content}
                                /\ w.stored[x] = witnessed.stored[x] \union {store[x].content}
      BY <1>1, <1>6, <2>1, WitnessedMore
    <3> HIDE DEF w
    <3>2. witnessed' = w
      BY <1>6 DEF w
    <3> QED BY <3>1, <3>2
  <2> QED BY <2>2 DEF WitnessedType
<1>8. DrillPlace'
  BY <1>3, <1>4 DEF DrillPlace
<1>9. SecretTypeOK'
  <2>1. Len(<<>>) = 0
    OBVIOUS
  <2> QED BY <1>1, <1>3, <1>6, <2>1 DEF SecretTypeOK
<1>10. OwnContent' /\ Watched'
  BY <1>1, <1>6, <1>7 DEF OwnContent, Watched
<1>11. CopiesSeen'
  <2>1. Judged' = {}
    <3>1. <<>> # <<"hmacKey">>
      OBVIOUS
    <3> QED BY <1>3, <3>1 DEF Judged
  <2> QED BY <1>3, <2>1 DEF CopiesSeen
<1>12. Undisturbed'
  <2>1. drill'.hashes = Hashes(provenance')
    BY <1>3, <1>6
  <2> QED BY <1>3, <2>1 DEF Undisturbed, Looking
<1> QED BY <1>5, <1>7, <1>8, <1>9, <1>10, <1>11, <1>12 DEF SecretInv, CopyInv

LEMMA MatchStep == ASSUME SecretInv, Match PROVE SecretInv'
<1>1. /\ SecretTypeOK /\ DrillType /\ WitnessedType /\ OwnContent /\ DrillPlace
      /\ Watched /\ CopiesSeen /\ Undisturbed
  BY DEF SecretInv, CopyInv
<1>2. drill.pc = "match" /\ drill.findings = {} /\ drill.loaded \in Configs
  BY <1>1 DEF Match, DrillPlace
<1>3. Still
  BY DEF Match, Still
<1> DEFINE found == IF ConfigHash(installed, drill.loaded) \in drill.hashes
                    THEN drill.findings ELSE drill.findings \union {<<"config", "hash">>}
<1>4. drill' = [drill EXCEPT !.pc = "stat", !.now = hour, !.left = SecretSections, !.findings = found]
  BY DEF Match
<1>5. found \in SUBSET Finding
  <2>1. "hash" \in Fault /\ "config" \in Section \union {"config"}
    BY DEF Fault
  <2>2. <<"config", "hash">> \in Finding
    BY <2>1, AFinding
  <2> QED BY <1>2, <2>2
<1>6. found = {} <=> ConfigHash(installed, drill.loaded) \in drill.hashes
  BY <1>2
<1>7. /\ drill'.pc = "stat" /\ drill'.now = hour /\ drill'.left = SecretSections
      /\ drill'.findings = found /\ drill'.loaded = drill.loaded
      /\ drill'.maxAge = drill.maxAge /\ drill'.hashes = drill.hashes
  BY <1>1, <1>4 DEF DrillType
<1> HIDE DEF found
<1>8. DrillType'
  <2>1. hour \in 0..MaxHour
    BY <1>1 DEF SecretTypeOK
  <2> QED BY <1>1, <1>4, <1>5, <2>1 DEF DrillType
<1>9. /\ WitnessedType' /\ OwnContent' /\ Matched' = Matched
      /\ HasCopyDir' = HasCopyDir /\ CopyDir' = CopyDir
  BY <1>1, <1>3, <1>7, StillFacts
<1>10. SecretSections # <<>> /\ SecretSections # <<"hmacKey">>
  BY DEF SecretSections
<1>11. DrillPlace'
  BY <1>2, <1>7, <1>10 DEF DrillPlace
<1>12. SecretTypeOK'
  BY <1>1, <1>3, <1>8, <1>11, StillTypes
<1>13. Watched'
  BY <1>1, <1>2, <1>3 DEF Watched, Still
<1>14. Judged' = {}
  BY <1>7, <1>10 DEF Judged
<1>15. CopiesSeen'
  BY <1>7, <1>14 DEF CopiesSeen
<1>16. Undisturbed'
  <2> SUFFICES ASSUME witnessed.calm
               PROVE  Undisturbed'
    BY <1>3 DEF Undisturbed, Still
  <2>1. drill.hashes = Hashes(provenance)
    BY <1>1, <1>2 DEF Undisturbed
  <2>2. Matched <=> ConfigHash(installed, drill.loaded) \in drill.hashes
    BY <2>1 DEF Matched, Hashes, ConfigHash
  <2>3. FoundSoFar'
    BY <1>6, <1>7, <1>9, <1>14, <2>2 DEF FoundSoFar
  <2>4. drill'.hashes = Hashes(provenance') /\ drill'.now = hour'
    BY <1>3, <1>7, <2>1 DEF Still
  <2> QED BY <1>7, <2>3, <2>4 DEF Undisturbed, Looking
<1> QED BY <1>8, <1>9, <1>11, <1>12, <1>13, <1>15, <1>16 DEF SecretInv, CopyInv

LEMMA UnusableType ==
    ASSUME NEW s
    PROVE  Unusable(s) = "" \/ Unusable(s) \in Fault
BY DEF Unusable, Fault

LEMMA StatLiveStep == ASSUME SecretInv, StatLive PROVE SecretInv'
<1>1. /\ SecretTypeOK /\ DrillType /\ DrillPlace /\ drill.pc = "stat" /\ drill.pc \in Looking
      /\ drill.loaded \in Configs
  BY DEF SecretInv, CopyInv, StatLive, Looking, DrillPlace
<1>2. Current \in Section
  BY <1>1, LeftFacts
<1>3. Still
  BY DEF StatLive, Still
<1> DEFINE found == ModeErrors(Current, live[Current], "mode") \union AgeErrors(Current, live[Current])
<1>4. found \in SUBSET Finding
  <2>1. "mode" \in Fault
    BY DEF Fault
  <2> HIDE DEF Section
  <2>2. /\ ModeErrors(Current, live[Current], "mode") \in SUBSET Finding
        /\ AgeErrors(Current, live[Current]) \in SUBSET Finding
    BY <1>2, <2>1, ModeErrorsType, AgeErrorsType
  <2> QED BY <2>2
<1>5. LiveSound(Current) <=> found = {}
  BY DEF LiveSound
<1>6. \/ Unusable(Current) # "" /\ NextSection({<<Current, Unusable(Current)>>})
      \/ Unusable(Current) = "" /\ ~HasCopyDir /\ NextSection(found)
      \/ /\ Unusable(Current) = "" /\ HasCopyDir
         /\ drill' = [drill EXCEPT !.pc = "copy", !.findings = @ \union found]
  BY DEF StatLive
<1> HIDE DEF found
<1>7. CASE Unusable(Current) # "" /\ NextSection({<<Current, Unusable(Current)>>})
  <2>1. <<Current, Unusable(Current)>> \in Finding
    BY <1>2, <1>7, UnusableType, AFinding
  <2>2. HasCopyDir => ~SectionSound(Current)
    BY <1>1, <1>2, <1>7, SoundParts
  <2>3. {<<Current, Unusable(Current)>>} # {} /\ {<<Current, Unusable(Current)>>} \in SUBSET Finding
    BY <2>1
  <2> QED BY <1>1, <1>3, <1>7, <2>2, <2>3, NextSectionInv
<1>8. CASE Unusable(Current) = "" /\ ~HasCopyDir /\ NextSection(found)
  BY <1>1, <1>3, <1>4, <1>8, NextSectionInv
<1>9. CASE /\ Unusable(Current) = "" /\ HasCopyDir
           /\ drill' = [drill EXCEPT !.pc = "copy", !.findings = @ \union found]
  <2>1. /\ drill'.pc = "copy" /\ drill'.findings = drill.findings \union found
        /\ drill'.left = drill.left /\ drill'.loaded = drill.loaded
        /\ drill'.maxAge = drill.maxAge /\ drill'.now = drill.now /\ drill'.hashes = drill.hashes
    BY <1>1, <1>9 DEF DrillType
  <2>2. DrillType'
    BY <1>1, <1>4, <1>9 DEF DrillType
  <2>3. drill'.findings = {} <=> drill.findings = {} /\ LiveSound(Current)
    BY <1>5, <2>1
  <2>4. drill'.pc \in Looking \ {"stat"}
    BY <2>1 DEF Looking
  <2> QED BY <1>1, <1>3, <1>9, <2>1, <2>2, <2>3, <2>4, SameSectionInv
<1> QED BY <1>6, <1>7, <1>8, <1>9

\* A run whose copy is not there, or cannot be opened.
LEMMA NoCopyStep ==
    ASSUME SecretInv, drill.pc \in Looking, Still, ~CopyOf(Current).there,
           NEW fault \in Fault, NextSection({<<Current, fault>>})
    PROVE  SecretInv'
<1>1. /\ SecretTypeOK /\ DrillType /\ DrillPlace /\ drill.loaded \in Configs
  BY DEF SecretInv, CopyInv, Looking, DrillPlace
<1>2. Current \in Section
  BY <1>1, LeftFacts
<1>3. <<Current, fault>> \in Finding
  BY <1>2, AFinding
<1>4. HasCopyDir => ~SectionSound(Current)
  BY <1>1, <1>2, SoundParts
<1>5. {<<Current, fault>>} # {} /\ {<<Current, fault>>} \in SUBSET Finding
  BY <1>3
<1> QED BY <1>4, <1>5, NextSectionInv

LEMMA CopyFile_ ==
    ASSUME SecretTypeOK, NEW s \in Section
    PROVE  CopyOf(s) \in File
BY DEF SecretTypeOK, CopyOf

LEMMA StatCopyStep == ASSUME SecretInv, StatCopy PROVE SecretInv'
<1>1. /\ SecretTypeOK /\ DrillType /\ DrillPlace /\ Undisturbed
      /\ drill.pc = "copy" /\ drill.pc \in Looking /\ HasCopyDir
  BY DEF SecretInv, CopyInv, StatCopy, Looking, DrillPlace
<1>2. Current \in Section
  BY <1>1, LeftFacts
<1>3. Still
  BY DEF StatCopy, Still
<1>4. CASE CopyOf(Current).there
  <2>1. drill' = [drill EXCEPT !.pc = "digest", !.copied = CopyOf(Current)]
    BY <1>4 DEF StatCopy
  <2>2. CopyOf(Current) \in File
    BY <1>1, <1>2, CopyFile_
  <2>3. /\ drill'.pc = "digest" /\ drill'.copied = CopyOf(Current)
        /\ drill'.findings = drill.findings
        /\ drill'.left = drill.left /\ drill'.loaded = drill.loaded
        /\ drill'.maxAge = drill.maxAge /\ drill'.now = drill.now /\ drill'.hashes = drill.hashes
    BY <1>1, <2>1 DEF DrillType
  <2>4. DrillType'
    BY <1>1, <2>1, <2>2 DEF DrillType
  <2>5. drill'.pc \in Looking \ {"stat"} /\ drill.pc # "stat"
    BY <1>1, <2>3 DEF Looking
  <2>6. witnessed.calm => Unusable(Current) = ""
    BY <1>1, <2>5 DEF Undisturbed, Looking
  <2> QED BY <1>1, <1>3, <1>4, <2>3, <2>4, <2>5, <2>6, SameSectionInv
<1>5. CASE ~CopyOf(Current).there
  <2>1. NextSection({<<Current, "no copy">>})
    BY <1>5 DEF StatCopy
  <2>2. "no copy" \in Fault
    BY DEF Fault
  <2> QED BY <1>1, <1>3, <1>5, <2>1, <2>2, NoCopyStep
<1> QED BY <1>4, <1>5

LEMMA DigestCopyStep == ASSUME SecretInv, DigestCopy PROVE SecretInv'
<1>1. /\ SecretTypeOK /\ DrillType /\ DrillPlace /\ Undisturbed
      /\ drill.pc = "digest" /\ drill.pc \in Looking /\ HasCopyDir
  BY DEF SecretInv, CopyInv, DigestCopy, Looking, DrillPlace
<1>2. Current \in Section
  BY <1>1, LeftFacts
<1>3. Still
  BY DEF DigestCopy, Still
<1>4. CASE CopyOf(Current).there
  <2>1. drill' = [drill EXCEPT !.pc = "compare", !.digest = CopyOf(Current).content]
    BY <1>4 DEF DigestCopy
  <2>2. CopyOf(Current).content \in SecretContent
    BY <1>1, <1>2, CopyFile_, FileFacts
  <2>3. /\ drill'.pc = "compare" /\ drill'.copied = drill.copied
        /\ drill'.digest = CopyOf(Current).content /\ drill'.findings = drill.findings
        /\ drill'.left = drill.left /\ drill'.loaded = drill.loaded
        /\ drill'.maxAge = drill.maxAge /\ drill'.now = drill.now /\ drill'.hashes = drill.hashes
    BY <1>1, <2>1 DEF DrillType
  <2>4. DrillType'
    BY <1>1, <2>1, <2>2 DEF DrillType
  <2>5. drill'.pc \in Looking \ {"stat"} /\ drill.pc # "stat"
    BY <1>1, <2>3 DEF Looking
  <2>6. witnessed.calm => Unusable(Current) = "" /\ drill.copied = CopyOf(Current)
    BY <1>1, <2>5 DEF Undisturbed, Looking
  <2> QED BY <1>1, <1>3, <1>4, <2>3, <2>4, <2>5, <2>6, SameSectionInv
<1>5. CASE ~CopyOf(Current).there
  <2>1. NextSection({<<Current, "unreadable">>})
    BY <1>5 DEF DigestCopy
  <2>2. "unreadable" \in Fault
    BY DEF Fault
  <2> QED BY <1>1, <1>3, <1>5, <2>1, <2>2, NoCopyStep
<1> QED BY <1>4, <1>5

\* The comparison: two equal digests are of one file, met live and in the store.
LEMMA DigestLiveStep == ASSUME SecretInv, DigestLive PROVE SecretInv'
<1>1. /\ SecretTypeOK /\ DrillType /\ DrillPlace /\ Undisturbed /\ CopiesSeen /\ Watched
      /\ drill.pc = "compare" /\ drill.pc \in Looking /\ drill.loaded \in Configs
      /\ HasCopyDir
  BY DEF SecretInv, CopyInv, DigestLive, Looking, DrillPlace
<1>2. Current \in Section
  BY <1>1, LeftFacts
<1>3. Still
  BY DEF DigestLive, Still
<1> DEFINE found == IF live[Current].there THEN CopyErrors(Current) ELSE {<<Current, "unreadable">>}
<1>4. NextSection(found)
  BY DEF DigestLive
<1>5. found \in SUBSET Finding
  <2>1. "copy mode" \in Fault /\ "differs" \in Fault /\ "unreadable" \in Fault
    BY DEF Fault
  <2>2. <<Current, "unreadable">> \in Finding /\ <<Current, "differs">> \in Finding
    BY <1>2, <2>1, AFinding
  <2> HIDE DEF Section
  <2>3. ModeErrors(Current, drill.copied, "copy mode") \in SUBSET Finding
    BY <1>2, <2>1, ModeErrorsType
  <2>4. CopyErrors(Current) \in SUBSET Finding
    BY <2>2, <2>3 DEF CopyErrors
  <2> QED BY <2>2, <2>4
<1>6. found = {} <=> /\ live[Current].there /\ drill.digest = live[Current].content
                     /\ ModeErrors(Current, drill.copied, "copy mode") = {}
  <2>1. CopyErrors(Current) = {} <=> /\ drill.digest = live[Current].content
                                     /\ ModeErrors(Current, drill.copied, "copy mode") = {}
    BY DEF CopyErrors
  <2>2. {<<Current, "unreadable">>} # {}
    OBVIOUS
  <2> QED BY <2>1, <2>2
<1> HIDE DEF found
<1>7. ASSUME CopyDir # "beside", found = {} PROVE Copied(Current)
  <2>1. drill.digest \in witnessed.stored[Current] /\ drill.digest[1] = Current
    BY <1>1, <1>7 DEF CopiesSeen
  <2>2. live[Current].content \in witnessed.lived[Current]
    BY <1>1, <1>2 DEF Watched
  <2> QED BY <1>6, <1>7, <2>1, <2>2 DEF Copied
<1>8. ASSUME witnessed.calm
      PROVE  SectionSound(Current) <=> found = {} /\ LiveSound(Current)
  <2>1. /\ Unusable(Current) = "" /\ drill.digest = CopyOf(Current).content
        /\ drill.copied = CopyOf(Current) /\ drill.copied.there
    BY <1>1, <1>8 DEF Undisturbed, Looking
  <2>2. live[Current].there
    BY <2>1 DEF Unusable
  <2>3. SectionSound(Current) <=>
              /\ Unusable(Current) = "" /\ LiveSound(Current)
              /\ CopyOf(Current).there /\ CopyOf(Current).content = live[Current].content
              /\ ModeErrors(Current, CopyOf(Current), "copy mode") = {}
    BY <1>1, <1>2, SoundParts
  <2> QED BY <1>6, <2>1, <2>2, <2>3
<1> QED BY <1>1, <1>3, <1>4, <1>5, <1>7, <1>8, NextSectionInv

LEMMA EndStep == ASSUME SecretInv, EndDrill PROVE SecretInv'
<1>1. /\ SecretTypeOK /\ OwnContent
      /\ drill' = Idle /\ witnessed' = Nothing
      /\ UNCHANGED <<config, installed, provenance, live, epoch, store, hour, changes>>
  BY DEF SecretInv, CopyInv, EndDrill
<1>2. drill'.pc = "idle" /\ drill'.left = <<>> /\ drill'.findings = {}
  BY <1>1 DEF Idle
<1>3. DrillType'
  <2>1. Absent \in File /\ <<"none", 0>> \in SecretContent
    BY DEF SecretContent, File
  <2> QED BY <1>1, <2>1, SecretBoundsAssumption DEF DrillType, Idle
<1>4. WitnessedType'
  BY <1>1 DEF WitnessedType, Nothing
<1>5. SecretTypeOK'
  <2>1. Len(<<>>) = 0
    OBVIOUS
  <2> QED BY <1>1, <1>2, <2>1 DEF SecretTypeOK
<1>6. OwnContent'
  BY <1>1 DEF OwnContent
<1>7. DrillPlace' /\ Watched' /\ CopiesSeen' /\ Undisturbed'
  BY <1>2, Zenon DEF DrillPlace, Watched, CopiesSeen, Undisturbed
<1> QED BY <1>3, <1>4, <1>5, <1>6, <1>7 DEF SecretInv, CopyInv
-----------------------------------------------------------------------------
(* What happens beside a run: it only adds to what the run has witnessed, and   *)
(* takes the calm from it.                                                     *)

LEMMA BesideInv ==
    ASSUME SecretInv, UNCHANGED drill, SecretTypeOK', OwnContent', Disturb(live', store')
    PROVE  SecretInv'
<1>1. /\ SecretTypeOK /\ DrillType /\ WitnessedType /\ DrillPlace /\ Watched /\ CopiesSeen
  BY DEF SecretInv, CopyInv
<1>2. DrillType' /\ DrillPlace'
  BY <1>1 DEF DrillType, DrillPlace, HasCopyDir, CopyDir
<1>3. live' \in [Section -> File] /\ store' \in [Section -> File]
  BY DEF SecretTypeOK
<1>4. CASE drill.pc = "idle"
  <2>1. witnessed' = witnessed
    BY <1>4 DEF Disturb
  <2>2. WitnessedType'
    BY <1>1, <2>1 DEF WitnessedType
  <2>3. Watched' /\ CopiesSeen' /\ Undisturbed'
    BY <1>4, Zenon DEF Watched, CopiesSeen, Undisturbed
  <2> QED BY <1>2, <2>2, <2>3 DEF SecretInv, CopyInv
<1>5. CASE drill.pc # "idle"
  <2>1. PICK l \in [Section -> File], s \in [Section -> File] : l = live' /\ s = store'
    BY <1>3
  <2>2. PICK b \in BOOLEAN : b = FALSE
    OBVIOUS
  <2> DEFINE w == [Witnessed(l, s) EXCEPT !.calm = b]
  <2>3. /\ w \in [lived : [Section -> SUBSET SecretContent], stored : [Section -> SUBSET SecretContent],
                  calm : BOOLEAN]
        /\ \A x \in Section : /\ w.lived[x] = witnessed.lived[x] \union {l[x].content}
                              /\ w.stored[x] = witnessed.stored[x] \union {s[x].content}
    BY <1>1, <2>1, <2>2, WitnessedMore
  <2>4. w.calm = FALSE
    BY <1>1, <2>2 DEF Witnessed, WitnessedType
  <2> HIDE DEF w
  <2>5. witnessed' = w
    BY <1>5, <2>1, <2>2 DEF w, Disturb
  <2>6. WitnessedType' /\ witnessed'.calm = FALSE
    BY <2>3, <2>4, <2>5 DEF WitnessedType
  <2>7. Watched'
    BY <2>3, <2>5, <2>1 DEF Watched
  <2>8. ASSUME NEW x \in Section, Copied(x)
        PROVE  Copied(x)'
    BY <2>3, <2>5, <2>8 DEF Copied
  <2>9. CopiesSeen'
    <3>1. /\ CopyDir' = CopyDir /\ HasCopyDir' = HasCopyDir /\ Judged' = Judged /\ Current' = Current
      BY DEF CopyDir, HasCopyDir, Judged, Current
    <3>2. Judged \subseteq Section
      BY DEF Judged
    <3>3. drill.pc = "compare" => Current \in Section
      BY <1>1, LeftFacts DEF Looking
    <3>4. drill.pc = "compare" /\ drill.digest \in witnessed.stored[Current]
            => drill.digest \in witnessed'.stored[Current]
      BY <2>3, <2>5, <3>3
    <3>5. ASSUME CopyDir # "beside"
          PROVE  /\ drill.pc = "compare" =>
                        drill.digest \in witnessed'.stored[Current] /\ drill.digest[1] = Current
                 /\ drill.findings = {} => \A x \in Judged : HasCopyDir => Copied(x)'
      BY <1>1, <1>5, <2>8, <3>2, <3>4, <3>5 DEF CopiesSeen
    <3> QED BY <3>1, <3>5 DEF CopiesSeen
  <2>10. Undisturbed'
    BY <2>6 DEF Undisturbed
  <2> QED BY <1>2, <2>6, <2>7, <2>9, <2>10 DEF SecretInv, CopyInv
<1> QED BY <1>4, <1>5

LEMMA ChangeType ==
    ASSUME SecretTypeOK, Change
    PROVE  changes' \in 0..MaxChanges /\ hour' \in 0..MaxHour /\ UNCHANGED <<hour, drill>>
BY SecretBoundsAssumption DEF SecretTypeOK, Change

\* The types of what a step leaves beside the files.
Elsewhere ==
    /\ config \in Configs /\ installed \in Installable /\ provenance \subseteq Configs \X Installable
    /\ epoch \in [Section -> 1..MaxContent] /\ hour \in 0..MaxHour /\ changes \in 0..MaxChanges

LEMMA BesideTypes ==
    ASSUME SecretTypeOK, UNCHANGED drill, Elsewhere',
           live' \in [Section -> File], store' \in [Section -> File]
    PROVE  SecretTypeOK'
BY DEF SecretTypeOK, Elsewhere

LEMMA RotateStep == ASSUME SecretInv, NEW s \in Section, Rotate(s) PROVE SecretInv'
<1>1. SecretTypeOK /\ OwnContent
  BY DEF SecretInv, CopyInv
<1>2. UNCHANGED <<config, installed, provenance, store, hour, drill>> /\ Disturb(live', store)
      /\ epoch[s] < MaxContent /\ epoch' = [epoch EXCEPT ![s] = @ + 1] /\ Change
  BY DEF Rotate, Change
<1>3. epoch' \in [Section -> 1..MaxContent] /\ epoch'[s] \in 1..MaxContent
  BY <1>1, <1>2, SecretBoundsAssumption DEF SecretTypeOK
<1> DEFINE new == [there |-> TRUE, content |-> <<s, epoch'[s]>>, mtime |-> hour, mode |-> Grants["0600"]]
<1>4. new \in File /\ new.content[1] = s
  <2>1. /\ <<s, epoch'[s]>> \in Section \X (0..MaxContent) /\ <<s, epoch'[s]>>[1] = s
        /\ hour \in 0..(MaxHour + 1)
    BY <1>1, <1>3, SecretBoundsAssumption DEF SecretTypeOK
  <2> HIDE DEF Section
  <2> QED BY <2>1, AFile, OwnerMode
<1>5. live' = [live EXCEPT ![s] = new]
  BY DEF Rotate
<1> HIDE DEF new
<1>6. live' \in [Section -> File] /\ OwnContent'
  BY <1>1, <1>2, <1>4, <1>5 DEF SecretTypeOK, OwnContent
<1>7. Elsewhere' /\ UNCHANGED drill /\ store' \in [Section -> File]
  BY <1>1, <1>2, <1>3, ChangeType DEF SecretTypeOK, Elsewhere
<1> QED BY <1>1, <1>2, <1>6, <1>7, BesideTypes, BesideInv

LEMMA CopyFileStep == ASSUME SecretInv, NEW s \in Section, CopyFile(s) PROVE SecretInv'
<1>1. SecretTypeOK /\ OwnContent
  BY DEF SecretInv, CopyInv
<1>2. /\ UNCHANGED <<config, installed, provenance, live, epoch, hour, drill>> /\ Disturb(live, store')
      /\ Change /\ live[s].there
  BY DEF CopyFile, Change
<1> DEFINE new == [live[s] EXCEPT !.mtime = hour]
<1>3. new \in File /\ new.content[1] = s
  <2>1. live[s] \in [there : {TRUE}, content : Section \X (0..MaxContent), mtime : 0..(MaxHour + 1),
                     mode : FileMode]
    <3>1. live[s] \in File /\ Absent.there = FALSE
      BY <1>1 DEF SecretTypeOK, Absent
    <3> QED BY <1>2, <3>1 DEF File
  <2>2. hour \in 0..(MaxHour + 1)
    BY <1>1, SecretBoundsAssumption DEF SecretTypeOK
  <2>3. live[s].content[1] = s
    BY <1>1, <1>2 DEF OwnContent
  <2> QED BY <2>1, <2>2, <2>3 DEF File
<1>4. store' = [store EXCEPT ![s] = new]
  BY DEF CopyFile
<1> HIDE DEF new
<1>5. store' \in [Section -> File] /\ OwnContent'
  BY <1>1, <1>2, <1>3, <1>4 DEF SecretTypeOK, OwnContent
<1>6. Elsewhere' /\ UNCHANGED drill /\ live' \in [Section -> File]
  BY <1>1, <1>2, ChangeType DEF SecretTypeOK, Elsewhere
<1> QED BY <1>1, <1>2, <1>5, <1>6, BesideTypes, BesideInv

\* What becomes of a file that is spoilt.
Spoilt(s, f, g) ==
    \/ g = Absent
    \/ g = [f EXCEPT !.content = <<s, 0>>]
    \/ g = [f EXCEPT !.mode = {"read", "write", "others"}]
    \/ g = [f EXCEPT !.mtime = hour + 1]

LEMMA SpoiltType ==
    ASSUME NEW s \in Section, NEW f \in File, f.there, f.content[1] = s, hour \in 0..MaxHour,
           NEW g, Spoilt(s, f, g)
    PROVE  g \in File /\ (g.there => g.content[1] = s)
<1> DEFINE Contents == Section \X (0..MaxContent)
           Stamps == 0..(MaxHour + 1)
<1>1. f \in [there : {TRUE}, content : Contents, mtime : Stamps, mode : FileMode]
  <2>1. Absent.there = FALSE
    BY DEF Absent
  <2> QED BY <2>1 DEF File
<1>2. /\ <<s, 0>> \in Contents /\ <<s, 0>>[1] = s /\ hour + 1 \in Stamps
      /\ {"read", "write", "others"} \in FileMode
  BY SecretBoundsAssumption DEF FileMode
<1> HIDE DEF Contents, Stamps
<1>3. CASE g = Absent
  BY <1>3 DEF File, Absent
<1>4. CASE g # Absent
  <2>1. g \in [there : {TRUE}, content : Contents, mtime : Stamps, mode : FileMode]
    BY <1>1, <1>2, <1>4 DEF Spoilt
  <2>2. g.content = f.content \/ g.content = <<s, 0>>
    BY <1>1, <1>4 DEF Spoilt
  <2> QED BY <1>2, <2>1, <2>2 DEF File, Contents, Stamps
<1> QED BY <1>3, <1>4

LEMMA SpoilStep == ASSUME SecretInv, NEW s \in Section, Spoil(s) PROVE SecretInv'
<1>1. SecretTypeOK /\ OwnContent
  BY DEF SecretInv, CopyInv
<1>2. /\ UNCHANGED <<config, installed, provenance, epoch, store, hour, drill>> /\ Disturb(live', store)
      /\ Change /\ live[s].there
  BY DEF Spoil, Change
<1>3. PICK g : Spoilt(s, live[s], g) /\ live' = [live EXCEPT ![s] = g]
  BY Zenon DEF Spoil, Spoilt
<1>4. g \in File /\ (g.there => g.content[1] = s)
  <2>1. live[s] \in File /\ live[s].content[1] = s /\ hour \in 0..MaxHour
    BY <1>1, <1>2 DEF SecretTypeOK, OwnContent
  <2> QED BY <1>2, <1>3, <2>1, SpoiltType
<1>5. live' \in [Section -> File] /\ OwnContent'
  BY <1>1, <1>2, <1>3, <1>4 DEF SecretTypeOK, OwnContent
<1>6. Elsewhere' /\ UNCHANGED drill /\ store' \in [Section -> File]
  BY <1>1, <1>2, ChangeType DEF SecretTypeOK, Elsewhere
<1> QED BY <1>1, <1>2, <1>5, <1>6, BesideTypes, BesideInv

LEMMA SpoilCopyStep == ASSUME SecretInv, NEW s \in Section, SpoilCopy(s) PROVE SecretInv'
<1>1. SecretTypeOK /\ OwnContent
  BY DEF SecretInv, CopyInv
<1>2. /\ UNCHANGED <<config, installed, provenance, live, epoch, hour, drill>> /\ Disturb(live, store')
      /\ Change /\ store[s].there
  BY DEF SpoilCopy, Change
<1>3. PICK g : Spoilt(s, store[s], g) /\ store' = [store EXCEPT ![s] = g]
  BY Zenon DEF SpoilCopy, Spoilt
<1>4. g \in File /\ (g.there => g.content[1] = s)
  <2>1. store[s] \in File /\ store[s].content[1] = s /\ hour \in 0..MaxHour
    BY <1>1, <1>2 DEF SecretTypeOK, OwnContent
  <2> QED BY <1>2, <1>3, <2>1, SpoiltType
<1>5. store' \in [Section -> File] /\ OwnContent'
  BY <1>1, <1>2, <1>3, <1>4 DEF SecretTypeOK, OwnContent
<1>6. Elsewhere' /\ UNCHANGED drill /\ live' \in [Section -> File]
  BY <1>1, <1>2, ChangeType DEF SecretTypeOK, Elsewhere
<1> QED BY <1>1, <1>2, <1>5, <1>6, BesideTypes, BesideInv

LEMMA FilesStayStep ==
    ASSUME SecretInv, EditConfig \/ Install \/ WriteRecord \/ HourPasses
    PROVE  SecretInv'
<1>1. SecretTypeOK /\ OwnContent
  BY DEF SecretInv, CopyInv
<1>2. UNCHANGED <<live, store, drill, epoch>> /\ Disturb(live', store')
  BY DEF EditConfig, Install, WriteRecord, HourPasses, Change, Disturb
<1>3. OwnContent' /\ live' \in [Section -> File] /\ store' \in [Section -> File]
  BY <1>1, <1>2 DEF OwnContent, SecretTypeOK
<1>4. Elsewhere'
  <2>1. CASE EditConfig
    BY <1>1, <2>1, ChangeType DEF EditConfig, SecretTypeOK, Elsewhere
  <2>2. CASE Install
    BY <1>1, <2>2, ChangeType DEF Install, SecretTypeOK, Elsewhere
  <2>3. CASE WriteRecord
    BY <1>1, <2>3, ChangeType DEF WriteRecord, SecretTypeOK, Elsewhere
  <2>4. CASE HourPasses
    BY <1>1, <2>4, SecretBoundsAssumption DEF HourPasses, SecretTypeOK, Elsewhere
  <2> QED BY <2>1, <2>2, <2>3, <2>4
<1> QED BY <1>1, <1>2, <1>3, <1>4, BesideTypes, BesideInv

LEMMA SecretInvStep == ASSUME SecretInv, [SecretNext]_secretVars PROVE SecretInv'
<1>1. CASE SecretNext
  BY <1>1, BeginStep, MatchStep, StatLiveStep, StatCopyStep, DigestCopyStep, DigestLiveStep, EndStep,
     RotateStep, CopyFileStep, SpoilStep, SpoilCopyStep, FilesStayStep DEF SecretNext
<1>2. CASE UNCHANGED secretVars
  <2>1. /\ UNCHANGED <<config, installed, provenance, live, epoch, store, hour, changes, witnessed>>
        /\ UNCHANGED drill
    BY <1>2 DEF secretVars
  <2>2. SecretTypeOK' /\ OwnContent'
    BY <2>1 DEF SecretInv, CopyInv, SecretTypeOK, OwnContent
  <2>3. DrillType' /\ WitnessedType' /\ DrillPlace' /\ Watched' /\ CopiesSeen'
    BY <2>1 DEF SecretInv, CopyInv, DrillType, WitnessedType, DrillPlace, Watched, CopiesSeen,
                Judged, Current, Copied, HasCopyDir, CopyDir
  <2>4. Undisturbed'
    <3>1. /\ FoundSoFar' = FoundSoFar /\ Unusable(Current)' = Unusable(Current)
          /\ CopyOf(Current)' = CopyOf(Current) /\ HasCopyDir' = HasCopyDir
      BY <2>1 DEF FoundSoFar, Matched, SectionSound, ConfigReaches, Recoverable, Private, InCycle,
                  LiveSound, ModeErrors, AgeErrors, ConfiguredMode, Judged, Current, CopyOf,
                  CopyDir, HasCopyDir, LivePath, Unusable
    <3> QED BY <2>1, <3>1 DEF SecretInv, Undisturbed
  <2> QED BY <2>2, <2>3, <2>4 DEF SecretInv, CopyInv
<1> QED BY <1>1, <1>2

LEMMA SecretInvariant == SecretSpec => []SecretInv
<1> QED BY SecretInvInit, SecretInvStep, PTL DEF SecretSpec

-----------------------------------------------------------------------------

\* What a pass of the drill is worth for the keys, for every release, config, bound and
\* order of rotations, copies and losses: a copy that the drill let pass was the file
\* itself at some moment of the run.
THEOREM PassedMeansCopied == SecretSpec => []SecretsPass
<1>1. ASSUME SecretInv PROVE SecretsPass
  <2>1. ASSUME Passed, CopyDir # "beside", NEW s \in Section
        PROVE  \E c \in witnessed.lived[s] \intersect witnessed.stored[s] : c[1] = s
    <3>1. Judged = Section /\ HasCopyDir
      BY <1>1, <2>1 DEF SecretInv, CopyInv, DrillPlace, Judged, Passed
    <3>2. Copied(s)
      BY <1>1, <2>1, <3>1 DEF SecretInv, CopyInv, CopiesSeen, Passed
    <3> QED BY <3>2 DEF Copied
  <2>2. PassMeansCopied
    BY <2>1, Zenon DEF PassMeansCopied
  <2> QED BY <1>1, <2>2 DEF SecretsPass, SecretInv, CopyInv
<1> QED BY <1>1, SecretInvariant, PTL

\* A drill that nothing came between is right both ways, however releases read files:
\* it passes exactly when the config is one the records were written under and both
\* files can be recovered, are private and were written within the cycle.
THEOREM UndisturbedIsExact == SecretSpec => []SecretsUndisturbed
<1>1. ASSUME SecretInv PROVE SecretsUndisturbed
  <2> SUFFICES ASSUME drill.pc = "done", witnessed.calm
               PROVE  Passed <=> Matched /\ \A s \in Section : SectionSound(s)
    BY DEF SecretsUndisturbed, Matched, SectionSound
  <2>1. Judged = Section /\ drill.pc \notin Looking
    BY DEF Judged, Looking
  <2>2. HasCopyDir => FoundSoFar
    BY <1>1 DEF SecretInv, Undisturbed
  <2>3. CASE HasCopyDir
    BY <2>1, <2>2, <2>3 DEF FoundSoFar, Passed
  <2>4. CASE ~HasCopyDir
    <3>1. ~Passed
      BY <1>1, <2>4 DEF SecretInv, CopyInv, DrillPlace, Passed
    <3>2. "hmacKey" \in Section /\ ~SectionSound("hmacKey")
      BY <2>4 DEF SectionSound, ConfigReaches
    <3> QED BY <3>1, <3>2
  <2> QED BY <2>3, <2>4
<1> QED BY <1>1, SecretInvariant, PTL

-----------------------------------------------------------------------------
(* Two hosts and one directory. *)

HostInv == DOMAIN source \subseteq FileName /\ DOMAIN archive \subseteq FileName

LEMMA HostStart == HostInit => HostInv
BY NamesAssumption DEF HostInit, HostInv

LEMMA RenameKeepsNames == ASSUME HostInv, RenameFile PROVE HostInv'
<1> USE DEF RenameFile, HostInv
<1>1. PICK new \in FileName :
        \/ \E old \in DOMAIN source :
            /\ source' = [f \in (DOMAIN source \ {old}) \union {new} |->
                            source[IF f = new THEN old ELSE f]]
            /\ UNCHANGED archive
        \/ \E old \in DOMAIN archive :
            /\ archive' = [f \in (DOMAIN archive \ {old}) \union {new} |->
                            archive[IF f = new THEN old ELSE f]]
            /\ UNCHANGED source
  BY Zenon
<1>2. DOMAIN source' \subseteq DOMAIN source \union {new}
      /\ DOMAIN archive' \subseteq DOMAIN archive \union {new}
  BY <1>1
<1> QED BY <1>2

LEMMA CopyKeepsNames == ASSUME HostInv, CopyOrDrop PROVE HostInv'
<1>1. UNCHANGED source
  BY DEF CopyOrDrop
<1>2. DOMAIN archive' \subseteq DOMAIN archive \union FileName
  BY DEF CopyOrDrop
<1> QED BY <1>1, <1>2 DEF HostInv

LEMMA ExportKeepsNames == ASSUME HostInv, ExportOn PROVE HostInv'
<1>1. UNCHANGED source
  BY DEF ExportOn
<1>2. PICK host \in Host, index \in IndexName :
        archive' = [f \in Members(host, index) |-> ContentOf(host, f)]
  BY DEF ExportOn
<1>3. Members(host, index) \subseteq DOMAIN source \union {index}
  BY DEF Members, Glob
<1> QED BY <1>1, <1>2, <1>3, NamesAssumption DEF HostInv

LEMMA HostInductive == HostSpec => []HostInv
<1>1. HostInv /\ UNCHANGED hostVars => HostInv'
  BY DEF hostVars, HostInv
<1>2. HostInv /\ EditListing => HostInv'
  BY DEF EditListing, HostInv
<1>3. HostInv /\ [HostNext]_hostVars => HostInv'
  BY <1>1, <1>2, RenameKeepsNames, CopyKeepsNames, ExportKeepsNames DEF HostNext
<1> QED BY HostStart, <1>3, PTL DEF HostSpec

\* A pattern finds the same files on two hosts, Windows or not.
LEMMA GlobsAgree ==
    ASSUME HostInv, SpelledAsWritten, NEW h \in Host, NEW k \in Host
    PROVE  /\ Glob(h, archive, SegmentName) = Glob(k, archive, SegmentName)
           /\ Glob(h, archive, SegmentName \union JsonName)
                = Glob(k, archive, SegmentName \union JsonName)
<1>1. \A f \in DOMAIN archive : Lowered(f) \in SegmentName => f \in SegmentName
  BY NamesAssumption DEF HostInv, SpelledAsWritten
<1>2. \A f \in DOMAIN archive :
        Lowered(f) \in SegmentName \union JsonName => f \in SegmentName \union JsonName
  BY DEF SpelledAsWritten
<1> QED BY <1>1, <1>2 DEF Glob

LEMMA WalksAgree ==
    ASSUME NEW h, NEW k, NEW directory, NEW index,
           Glob(h, directory, SegmentName) = Glob(k, directory, SegmentName)
    PROVE  WalkErrors(h, directory, index) = WalkErrors(k, directory, index)
<1> DEFINE walked(segments) ==
        IF ~ValidFileName(index) THEN {"index name"}
        ELSE LET walk == InFileOrder(segments)
             IN  IF segments = {} THEN {"no segments"}
                 ELSE Broken([
                    link |-> \E i \in DOMAIN walk : directory[walk[i]].link # i,
                    index |-> \E f \in {index} \intersect DOMAIN directory :
                                directory[f].lists # walk])
<1>1. /\ WalkErrors(h, directory, index) = walked(Glob(h, directory, SegmentName))
      /\ WalkErrors(k, directory, index) = walked(Glob(k, directory, SegmentName))
  BY DEF WalkErrors, ExactChild
<1> HIDE DEF walked
<1> QED BY <1>1

LEMMA MembersAgree ==
    ASSUME NEW h, NEW k, NEW name PROVE MemberError(h, name) <=> MemberError(k, name)
BY DEF MemberError, ExactChild

LEMMA VerdictsAgree == ASSUME HostInv PROVE HostsAgree
<1> SUFFICES ASSUME SpelledAsWritten, NEW h \in Host, NEW k \in Host
             PROVE  VerifyArchive(h) = VerifyArchive(k)
  BY DEF HostsAgree
<1> DEFINE member(host) == \E name \in DOMAIN listing.files : MemberError(host, name)
           unlisted(files) == ~(files \subseteq DOMAIN listing.files)
           verdict(walk, m, files) == walk \union Broken([member |-> m, unlisted |-> unlisted(files)])
           all == SegmentName \union JsonName
<1>1. ASSUME NEW host
      PROVE  VerifyArchive(host) = verdict(WalkErrors(host, archive, listing.index), member(host),
                                           Glob(host, archive, all))
  BY DEF VerifyArchive
<1>2. member(h) = member(k)
  BY MembersAgree
<1>3. WalkErrors(h, archive, listing.index) = WalkErrors(k, archive, listing.index)
      /\ Glob(h, archive, all) = Glob(k, archive, all)
  BY GlobsAgree, WalksAgree
<1> HIDE DEF member, verdict
<1> QED BY <1>1, <1>2, <1>3

LEMMA MembersPortable == AcceptedIsPortable
<1> SUFFICES ASSUME NEW host \in Host, VerifyArchive(host) = {},
                    \A m, n \in DOMAIN listing.files : Spelling[m] = Spelling[n] => m = n,
                    NEW other \in Host, NEW name \in DOMAIN listing.files
             PROVE  Opened(other, [f \in DOMAIN archive \intersect DOMAIN listing.files |-> archive[f]],
                           name) = {name}
  BY DEF AcceptedIsPortable
<1>1. \A n \in DOMAIN listing.files : ~MemberError(host, n)
  <2> DEFINE rules == [member |-> \E n \in DOMAIN listing.files : MemberError(host, n),
                       unlisted |-> ~(Glob(host, archive, SegmentName \union JsonName)
                                        \subseteq DOMAIN listing.files)]
  <2>1. Broken(rules) = {}
    BY DEF VerifyArchive
  <2>2. "member" \in DOMAIN rules
    OBVIOUS
  <2>3. ~rules.member
    BY <2>1, <2>2 DEF Broken
  <2> QED BY <2>3
<1>2. \A n \in DOMAIN listing.files :
        n \notin Dotted /\ Spelling[n] \notin Device /\ n \in DOMAIN archive
  BY <1>1 DEF MemberError, ValidFileName, ExactChild
<1>3. \A f \in DOMAIN listing.files : Same(other, f, name) <=> f = name
  <2> SUFFICES ASSUME NEW f \in DOMAIN listing.files PROVE Same(other, f, name) <=> f = name
    OBVIOUS
  <2>1. Lowered(f) = Spelling[f] /\ Lowered(name) = Spelling[name]
    BY <1>2 DEF Lowered
  <2>2. Spelling[f] = Spelling[name] <=> f = name
    OBVIOUS
  <2> QED BY <2>1, <2>2 DEF Same, Host
<1> QED BY <1>2, <1>3 DEF Opened

(* "A Windows host must get the same verdict as a Linux one", whatever is renamed,    *)
(* copied, dropped or listed, and what one host accepts every host opens alike.       *)
THEOREM HostsGetOneVerdict == HostSpec => []HostVerdict
<1>1. HostInv => HostVerdict
  BY VerdictsAgree, MembersPortable DEF HostVerdict
<1> QED BY <1>1, HostInductive, PTL

-----------------------------------------------------------------------------
(* Command lines: what was printed and what is still to be. *)

Kind == {"usage", "verdict", "summary", "data", "finding", "more", "traceback"}

Line == [to : {"out", "err"}, kind : Kind, text : Text, of : Nat, more : Nat]

Told == output \o pending

LinesOf(told_, kind, i) == {l \in DOMAIN told_ : told_[l].kind = kind /\ told_[l].of = i}

\* Each finding of a check is in the report, or counted by its one line.
AccountedIn(report, i, met) ==
    \/ Cardinality(LinesOf(report, "finding", i)) = met /\ LinesOf(report, "more", i) = {}
    \/ \E l \in LinesOf(report, "more", i) :
            /\ LinesOf(report, "more", i) = {l}
            /\ Cardinality(LinesOf(report, "finding", i)) + report[l].more = met

\* What doccheck has said so far: its verdict, and the lists of the checks it has told.
ManyTold(report) ==
    /\ report # <<>> /\ report[1] = Out("verdict", "plain")
    /\ \A l \in DOMAIN report \ {1} :
          report[l].kind \in {"finding", "more"} /\ report[l].to = "err" /\ report[l].of \in 1..told
    /\ \A i \in 1..told : AccountedIn(report, i, Len(failures[i]))

Reported ==
    \/ status = 2 /\ failures = <<>> /\ Told = <<Err("usage", "plain")>>
    \/ BreaksOff /\ status = 1 /\ failures = <<>> /\ Told = <<Err("traceback", "plain")>>
    \/ /\ ~RunsMany /\ ~BreaksOff /\ failures = <<>> /\ Told = Lines
       /\ status = IF Failed THEN 1 ELSE 0
    \/ /\ RunsMany /\ Len(failures) = Len(world.checks) /\ ManyTold(Told)
       /\ status = IF \E i \in DOMAIN failures : failures[i] # <<>> THEN 1 ELSE 0

CmdInv ==
    /\ tool \in Tool /\ world \in WorldType
    /\ ~world.readable => tool = "render_detectors" /\ world.checks[1].found # <<>>
    /\ stage \in {"start", "parse", "work", "write", "done"}
    /\ output \in Seq(Line) /\ pending \in Seq(Line)
    /\ failures \in Seq(Seq(Text)) /\ told \in 0..Len(failures)
    /\ stage # "start" => strict = {}
    /\ stage \in {"start", "parse"} => failures = <<>>
    /\ stage \in {"start", "parse", "work"} => told = 0 /\ output = <<>> /\ pending = <<>>
    /\ RunsMany => /\ Len(failures) <= Len(world.checks)
                   /\ \A i \in DOMAIN failures : failures[i] = RunOneCheck(world.checks[i])
    /\ ~RunsMany => failures = <<>>
    /\ stage \in {"write", "done"} => Reported
    /\ stage = "done" => pending = <<>> /\ told = Len(failures)

---------------------------------------------------------------------------
LEMMA LineFields ==
    ASSUME NEW kind \in Kind, NEW text \in Text
    PROVE  /\ Out(kind, text) \in Line /\ Err(kind, text) \in Line
           /\ Out(kind, text).kind = kind /\ Err(kind, text).kind = kind
           /\ Out(kind, text).to = "out" /\ Err(kind, text).to = "err"
           /\ Out(kind, text).of = 1 /\ Err(kind, text).of = 1
           /\ Out(kind, text).more = 0 /\ Err(kind, text).more = 0
  BY DEF Out, Err, Line, Kind

LEMMA Texts ==
    ASSUME world \in WorldType
    PROVE  /\ world.label \in Text /\ Label \in Text /\ "plain" \in Text
           /\ world.checks[1].found \in Seq(Text)
           /\ \A i \in DOMAIN world.checks : RunOneCheck(world.checks[i]) \in Seq(Text)
<1>1. world.label \in Text /\ "plain" \in Text
      /\ world.checks \in Seq([found : Seq(Text), raises : BOOLEAN]) /\ world.checks # <<>>
  BY DEF WorldType, Text
<1>2. \A i \in DOMAIN world.checks : world.checks[i] \in [found : Seq(Text), raises : BOOLEAN]
  <2> DEFINE OneCheck == [found : Seq(Text), raises : BOOLEAN]
  <2>1. world.checks \in Seq(OneCheck)
    BY <1>1
  <2> HIDE DEF OneCheck
  <2>2. \A i \in DOMAIN world.checks : world.checks[i] \in OneCheck
    BY <2>1
  <2> QED BY <2>2 DEF OneCheck
<1>3. \A i \in DOMAIN world.checks : world.checks[i].found \in Seq(Text)
  BY <1>2
<1>4. 1 \in DOMAIN world.checks
  BY <1>1
<1>5. \A i \in DOMAIN world.checks : RunOneCheck(world.checks[i]) \in Seq(Text)
  BY <1>1, <1>3 DEF RunOneCheck
<1> QED BY <1>1, <1>3, <1>4, <1>5 DEF Label

LEMMA FindingsAre ==
    ASSUME NEW found \in Seq(Text)
    PROVE  /\ FindingLines(found) \in Seq(Line) /\ Len(FindingLines(found)) = Len(found)
           /\ \A i \in 1..Len(found) : FindingLines(found)[i] = Err("finding", found[i])
           /\ \A i \in 1..Len(found) :
                 /\ FindingLines(found)[i].kind = "finding" /\ FindingLines(found)[i].to = "err"
                 /\ FindingLines(found)[i].of = 1
<1>1. \A i \in 1..Len(found) : found[i] \in Text
  OBVIOUS
<1>2. \A text \in Text : /\ Err("finding", text) \in Line /\ Err("finding", text).kind = "finding"
                         /\ Err("finding", text).to = "err" /\ Err("finding", text).of = 1
  BY LineFields DEF Kind
<1>3. FindingLines(found) = [i \in 1..Len(found) |-> Err("finding", found[i])]
  BY DEF FindingLines
<1>4. \A i \in 1..Len(found) : Err("finding", found[i]) \in Line
  BY <1>1, <1>2
<1> QED BY <1>1, <1>2, <1>3, <1>4

\* A report that opens with one line and goes on with the findings.
LEMMA PlainLines ==
    ASSUME NEW first \in Line, NEW found \in Seq(Text)
    PROVE  /\ <<first>> \o FindingLines(found) \in Seq(Line)
           /\ Len(<<first>> \o FindingLines(found)) = Len(found) + 1
           /\ (<<first>> \o FindingLines(found))[1] = first
           /\ \A l \in 2..(Len(found) + 1) :
                 (<<first>> \o FindingLines(found))[l] = Err("finding", found[l - 1])
  BY FindingsAre

\* No report of a single check is a usage line.
LEMMA LinesAre ==
    ASSUME tool \in Tool, world \in WorldType,
           ~world.readable => tool = "render_detectors" /\ world.checks[1].found # <<>>
    PROVE  Lines \in Seq(Line) /\ \A l \in DOMAIN Lines : Lines[l].kind # "usage"
<1> DEFINE found == world.checks[1].found
<1>1. found \in Seq(Text) /\ "plain" \in Text /\ Label \in Text /\ world.label \in Text
  BY Texts
<1> DEFINE Fine(lines) == lines \in Seq(Line) /\ \A l \in DOMAIN lines : lines[l].kind # "usage"
<1>2. \A text \in Text, kind \in {"verdict", "summary", "data", "finding"} :
        Fine(<<Out(kind, text)>>) /\ Fine(<<Err(kind, text)>>)
  <2> TAKE text \in Text, kind \in {"verdict", "summary", "data", "finding"}
  <2>1. Out(kind, text) \in Line /\ Err(kind, text) \in Line
        /\ Out(kind, text).kind # "usage" /\ Err(kind, text).kind # "usage"
    BY LineFields DEF Kind
  <2> QED BY <2>1
<1>3. ASSUME NEW some \in Seq(Text) PROVE Fine(FindingLines(some))
  <2>1. FindingLines(some) \in Seq(Line) /\ Len(FindingLines(some)) = Len(some)
        /\ \A i \in 1..Len(some) : FindingLines(some)[i].kind = "finding"
    BY FindingsAre
  <2> HIDE DEF Line
  <2> QED BY <2>1
<1>4. ASSUME NEW some, NEW others, Fine(some), Fine(others) PROVE Fine(some \o others)
  BY <1>4
<1>5. Fine(<<>>)
  OBVIOUS
<1>6. found # <<>> => found[1] \in Text
  BY <1>1
<1>7. Fine(PlainReport(found)) /\ (found # <<>> => Fine(PlainReport(<<found[1]>>)))
  <2>1. found # <<>> => <<found[1]>> \in Seq(Text)
    BY <1>6
  <2> HIDE DEF Fine, found
  <2> QED BY <1>1, <1>2, <1>3, <1>4, <2>1 DEF PlainReport
<1> HIDE DEF found, Fine
<1>8. Fine(RestoreDrillReport(found))
  BY <1>1, <1>2, <1>4, <1>5, <1>7 DEF RestoreDrillReport
<1>9. Fine(ConfigCheckReport(found))
  <2>1. Fine(<<Out("data", "plain")>>) /\ Fine(<<Err("verdict", Label)>>)
    BY <1>1, <1>2
  <2>2. <<Out("data", "plain"), Err("verdict", Label)>> = <<Out("data", "plain")>> \o <<Err("verdict", Label)>>
    OBVIOUS
  <2>3. Fine(<<Out("data", "plain"), Err("verdict", Label)>>)
    BY <1>4, <2>1, <2>2
  <2> QED BY <1>7, <2>3 DEF ConfigCheckReport
<1>10. Fine(ReplayReport(found)) /\ Fine(SbomReport(found))
  BY <1>1, <1>2, <1>3, <1>4, <1>7 DEF ReplayReport, SbomReport
<1>11. Fine(RenderReport(found)) /\ Fine(GuardReport(found))
  BY <1>1, <1>2, <1>5, <1>6, <1>7 DEF RenderReport, GuardReport, found
<1>12. Fine(Lines)
  BY <1>7, <1>8, <1>9, <1>10, <1>11 DEF Lines, Tool, Reporting, found
<1> QED BY <1>12 DEF Fine

-----------------------------------------------------------------------------
\* The list of one check: its findings, then one line for the rest.
LEMMA CheckReportIs ==
    ASSUME NEW i \in Nat \ {0}, failures[i] \in Seq(Text)
    PROVE  /\ CheckReport(i) \in Seq(Line)
           /\ \A l \in DOMAIN CheckReport(i) :
                 /\ CheckReport(i)[l].of = i /\ CheckReport(i)[l].to = "err"
                 /\ CheckReport(i)[l].kind = IF l <= MaxListed THEN "finding" ELSE "more"
                 /\ l > MaxListed => l = MaxListed + 1 /\ CheckReport(i)[l].more = Len(failures[i]) - MaxListed
           /\ Len(CheckReport(i)) =
                 IF Len(failures[i]) <= MaxListed THEN Len(failures[i]) ELSE MaxListed + 1
<1> DEFINE found == failures[i]
           line(k) == [Err("finding", found[k]) EXCEPT !.of = i]
           lines == [k \in DOMAIN found |-> line(k)]
           rest == [Err("more", "plain") EXCEPT !.of = i, !.more = Len(found) - MaxListed]
<1>1. MaxListed \in Nat /\ found \in Seq(Text)
  BY WorldAssumption
<1>2. \A k \in 1..Len(found) : /\ line(k) \in Line /\ line(k).kind = "finding"
                               /\ line(k).to = "err" /\ line(k).of = i
  <2> TAKE k \in 1..Len(found)
  <2>1. found[k] \in Text
    BY <1>1
  <2> QED BY <2>1 DEF Err, Line, Kind
<1>3. Len(found) > MaxListed => rest \in Line
  <2> SUFFICES ASSUME Len(found) > MaxListed PROVE rest \in Line
    OBVIOUS
  <2>1. Len(found) - MaxListed \in Nat /\ i \in Nat
    BY <1>1
  <2> DEFINE left == Len(found) - MaxListed
  <2> HIDE DEF left, found
  <2>2. rest = [to |-> "err", kind |-> "more", text |-> "plain", of |-> i, more |-> left]
    <3>1. rest = [Err("more", "plain") EXCEPT !.of = i, !.more = left]
      BY DEF left
    <3>2. rest = [[to |-> "err", kind |-> "more", text |-> "plain", of |-> 1, more |-> 0]
                    EXCEPT !.of = i, !.more = left]
      BY <3>1, Zenon DEF Err
    <3> HIDE DEF rest, left
    <3> QED BY <3>2
  <2>3. "more" \in Kind /\ "plain" \in Text /\ left \in Nat
    BY <2>1 DEF Kind, Text, left
  <2> HIDE DEF rest
  <2> QED BY <2>1, <2>2, <2>3 DEF Line
<1>4. /\ rest.kind = "more" /\ rest.to = "err" /\ rest.of = i /\ rest.more = Len(found) - MaxListed
  BY DEF Err
<1>5. CheckReport(i) = IF Len(found) <= MaxListed THEN lines
                       ELSE Append(SubSeq(lines, 1, MaxListed), rest)
  BY DEF CheckReport
<1> HIDE DEF line, rest, found
<1>6. lines \in Seq(Line) /\ Len(lines) = Len(found) /\ \A k \in 1..Len(found) : lines[k] = line(k)
  <2>1. lines = [k \in 1..Len(found) |-> line(k)] /\ Len(found) \in Nat
    BY <1>1
  <2> QED BY <1>2, <2>1
<1> HIDE DEF lines
<1>7. CASE Len(found) <= MaxListed
  <2>1. CheckReport(i) = lines
    BY <1>5, <1>7
  <2> QED BY <1>1, <1>2, <1>6, <1>7, <2>1 DEF found
<1>8. CASE Len(found) > MaxListed
  <2> DEFINE some == SubSeq(lines, 1, MaxListed)
  <2>1. some \in Seq(Line) /\ Len(some) = MaxListed /\ \A k \in 1..MaxListed : some[k] = line(k)
    BY <1>1, <1>6, <1>8
  <2>2. CheckReport(i) = Append(some, rest)
    BY <1>1, <1>5, <1>8
  <2> HIDE DEF some
  <2>3. /\ CheckReport(i) \in Seq(Line) /\ Len(CheckReport(i)) = MaxListed + 1
        /\ CheckReport(i)[MaxListed + 1] = rest
        /\ \A k \in 1..MaxListed : CheckReport(i)[k] = line(k)
    BY <1>1, <1>3, <1>8, <2>1, <2>2
  <2> QED BY <1>1, <1>2, <1>4, <1>8, <2>3 DEF found
<1> QED BY <1>1, <1>7, <1>8

\* A line that is written was pending.
LEMMA ToldStays ==
    ASSUME NEW said \in Seq(Line), NEW left \in Seq(Line), left # <<>>
    PROVE  Append(said, Head(left)) \o Tail(left) = said \o left
  OBVIOUS

LEMMA JoinedAre ==
    ASSUME NEW said \in Seq(Line), NEW more \in Seq(Line)
    PROVE  /\ DOMAIN (said \o more) = 1..(Len(said) + Len(more))
           /\ \A l \in 1..Len(said) : (said \o more)[l] = said[l]
           /\ \A l \in 1..Len(more) : (said \o more)[Len(said) + l] = more[l]
           /\ Len(said) \in Nat /\ Len(more) \in Nat
<1> HIDE DEF Line
<1>1. Len(said) \in Nat /\ Len(more) \in Nat /\ Len(said \o more) = Len(said) + Len(more)
  OBVIOUS
<1>2. said \o more \in Seq(Line)
  OBVIOUS
<1>3. ASSUME NEW l \in 1..Len(more) PROVE (said \o more)[Len(said) + l] = more[l]
  OBVIOUS
<1> QED BY <1>1, <1>2, <1>3

LEMMA TellKeeps ==
    ASSUME CmdInv, TellCheck
    PROVE  CmdInv'
<1> DEFINE i == told + 1
           report == CheckReport(i)
           n == Len(output)
           met == Len(failures[i])
<1>1. /\ stage = "write" /\ pending = <<>> /\ told < Len(failures) /\ told' = i /\ pending' = report
      /\ UNCHANGED <<tool, given, world, stage, strict, failures, output, status>>
  BY DEF TellCheck
<1>2. /\ failures \in Seq(Seq(Text)) /\ told \in Nat /\ i \in 1..Len(failures)
      /\ output \in Seq(Line) /\ MaxListed \in Nat
  BY <1>1, WorldAssumption DEF CmdInv
<1>3. failures[i] \in Seq(Text)
  BY <1>2
<1>4. /\ report \in Seq(Line)
      /\ \A l \in DOMAIN report :
                 /\ report[l].of = i /\ report[l].to = "err"
                 /\ report[l].kind = IF l <= MaxListed THEN "finding" ELSE "more"
                 /\ l > MaxListed => l = MaxListed + 1 /\ report[l].more = met - MaxListed
      /\ Len(report) = IF met <= MaxListed THEN met ELSE MaxListed + 1
  <2>1. i \in Nat \ {0}
    BY <1>2
  <2> HIDE DEF i
  <2> QED BY <1>3, <2>1, CheckReportIs, ZenonT(60)
<1>5. met \in Nat
  BY <1>3
<1> HIDE DEF report, met
<1>6. Told = output /\ Told' = output \o report
  BY <1>1, <1>2 DEF Told
<1>7. RunsMany /\ ManyTold(output) /\ Len(failures) = Len(world.checks)
      /\ status = IF \E k \in DOMAIN failures : failures[k] # <<>> THEN 1 ELSE 0
  <2>1. failures # <<>>
    BY <1>2
  <2> QED BY <1>1, <1>6, <2>1 DEF CmdInv, Reported
<1>8. /\ DOMAIN (output \o report) = 1..(n + Len(report))
      /\ \A l \in 1..n : (output \o report)[l] = output[l]
      /\ \A l \in 1..Len(report) : (output \o report)[n + l] = report[l]
      /\ n \in Nat /\ Len(report) \in Nat
  BY <1>2, <1>4, JoinedAre
<1> DEFINE all == output \o report
<1>9. \A l \in DOMAIN all : l \in 1..n \/ (l - n \in 1..Len(report) /\ all[l] = report[l - n])
  <2> TAKE l \in DOMAIN all
  <2>1. CASE l > n
    <3>1. l - n \in 1..Len(report) /\ n + (l - n) = l
      BY <1>8, <2>1
    <3> QED BY <1>8, <3>1
  <2> QED BY <1>8, <2>1
<1> HIDE DEF all, n
<1>10. all # <<>> /\ all[1] = Out("verdict", "plain") /\ 1 \in 1..n
  <2>1. output # <<>> /\ output[1] = Out("verdict", "plain")
    BY <1>7 DEF ManyTold
  <2>2. 1 \in 1..n
    BY <1>2, <2>1 DEF n
  <2>3. 1 \in DOMAIN all
    BY <1>8, <2>2 DEF all
  <2> QED BY <1>8, <2>1, <2>2, <2>3 DEF all
<1>11. \A l \in 1..n \ {1} :
          output[l].kind \in {"finding", "more"} /\ output[l].to = "err" /\ output[l].of \in 1..told
  BY <1>2, <1>7 DEF ManyTold, n
<1>12. \A l \in DOMAIN all \ {1} :
          all[l].kind \in {"finding", "more"} /\ all[l].to = "err" /\ all[l].of \in 1..i
  <2> TAKE l \in DOMAIN all \ {1}
  <2>1. CASE l \in 1..n
    <3>1. all[l] = output[l] /\ output[l].of \in 1..told
      BY <1>8, <1>11, <2>1 DEF all
    <3> QED BY <1>2, <1>11, <2>1, <3>1
  <2>2. CASE l \notin 1..n
    <3> DEFINE k == l - n
    <3>1. k \in 1..Len(report) /\ all[l] = report[k]
      BY <1>9, <2>2
    <3> HIDE DEF k, i
    <3>2. report[k].of = i /\ report[k].to = "err" /\ report[k].kind \in {"finding", "more"}
      BY <1>4, <3>1
    <3>3. i \in 1..i
      BY <1>2
    <3> QED BY <3>1, <3>2, <3>3
  <2> QED BY <2>1, <2>2
<1>13. \A k \in 1..told, kind \in {"finding", "more"} : LinesOf(all, kind, k) = LinesOf(output, kind, k)
  <2>1. \A k \in 1..told : k # i
    BY <1>2
  <2>2. DOMAIN output = 1..n /\ DOMAIN all = 1..(n + Len(report))
    BY <1>2, <1>8 DEF n, all
  <2>3. \A l \in DOMAIN output : l \in DOMAIN all /\ all[l] = output[l]
    BY <1>8, <2>2 DEF all
  <2>4. \A l \in DOMAIN all : l \in DOMAIN output \/ all[l].of = i
    BY <1>4, <1>9, <2>2
  <2> HIDE DEF i
  <2> QED BY <2>1, <2>3, <2>4 DEF LinesOf
<1>14. \A k \in 1..told : AccountedIn(all, k, Len(failures[k]))
  <2> TAKE k \in 1..told
  <2>1. AccountedIn(output, k, Len(failures[k]))
    BY <1>7 DEF ManyTold
  <2>2. LinesOf(all, "finding", k) = LinesOf(output, "finding", k) /\ LinesOf(all, "more", k) = LinesOf(output, "more", k)
    BY <1>13
  <2>3. \A l \in LinesOf(output, "more", k) : all[l] = output[l]
    BY <1>2, <1>8 DEF LinesOf, all, n
  <2> QED BY <2>1, <2>2, <2>3 DEF AccountedIn
<1>15. \A kind \in {"finding", "more"} :
          LinesOf(all, kind, i) = {n + l : l \in {k \in 1..Len(report) : report[k].kind = kind}}
  <2> TAKE kind \in {"finding", "more"}
  <2>1. ASSUME NEW l \in LinesOf(all, kind, i) PROVE l - n \in 1..Len(report) /\ report[l - n].kind = kind
    <3>1. l \in DOMAIN all /\ all[l].kind = kind /\ all[l].of = i
      BY DEF LinesOf
    <3>2. l \notin 1..n
      <4>1. CASE l = 1
        <5>1. all[1].kind = "verdict"
          BY <1>10 DEF Out
        <5> QED BY <3>1, <4>1, <5>1
      <4>2. CASE l \in 1..n \ {1}
        <5>1. all[l].of \in 1..told
          BY <1>8, <1>11, <4>2 DEF all
        <5> QED BY <1>2, <3>1, <5>1
      <4> QED BY <4>1, <4>2
    <3> QED BY <1>9, <3>1, <3>2
  <2>2. ASSUME NEW l \in 1..Len(report), report[l].kind = kind PROVE n + l \in LinesOf(all, kind, i)
    <3>1. n + l \in DOMAIN all /\ all[n + l] = report[l]
      BY <1>8 DEF all
    <3> QED BY <1>4, <2>2, <3>1 DEF LinesOf
  <2>3. \A l \in LinesOf(all, kind, i) : l = n + (l - n)
    <3>1. \A l \in LinesOf(all, kind, i) : l \in Int
      BY <1>8 DEF LinesOf, all
    <3> QED BY <1>8, <3>1
  <2> QED BY <2>1, <2>2, <2>3
<1>16. AccountedIn(all, i, met)
  <2> DEFINE shown == IF met <= MaxListed THEN met ELSE MaxListed
  <2>0. shown \in Nat
    BY <1>2, <1>5
  <2>1. LinesOf(all, "finding", i) = (n + 1)..(n + shown)
    <3>1. {k \in 1..Len(report) : report[k].kind = "finding"} = 1..shown
      BY <1>2, <1>4, <1>5
    <3>2. \A l \in (n + 1)..(n + shown) : l - n \in 1..shown /\ l = n + (l - n)
      BY <1>8, <2>0
    <3>3. \A l \in 1..shown : n + l \in (n + 1)..(n + shown)
      BY <1>8, <2>0
    <3> HIDE DEF shown
    <3> QED BY <1>15, <3>1, <3>2, <3>3
  <2>2. Cardinality(LinesOf(all, "finding", i)) = shown
    <3> HIDE DEF shown
    <3> QED BY <1>8, <2>0, <2>1, FS_Interval
  <2>3. CASE met <= MaxListed
    <3>1. {k \in 1..Len(report) : report[k].kind = "more"} = {}
      BY <1>2, <1>4, <1>5, <2>3
    <3>2. LinesOf(all, "more", i) = {}
      BY <1>15, <3>1
    <3> QED BY <2>2, <2>3, <3>2 DEF AccountedIn
  <2>4. CASE ~(met <= MaxListed)
    <3>1. {k \in 1..Len(report) : report[k].kind = "more"} = {MaxListed + 1}
      BY <1>2, <1>4, <1>5, <2>4
    <3>2. LinesOf(all, "more", i) = {n + (MaxListed + 1)}
      BY <1>15, <3>1
    <3>3. all[n + (MaxListed + 1)].more = met - MaxListed
      <4>1. MaxListed + 1 \in 1..Len(report) /\ MaxListed + 1 > MaxListed
        BY <1>2, <1>4, <1>5, <2>4
      <4>2. report[MaxListed + 1].more = met - MaxListed
        BY <1>4, <4>1
      <4> QED BY <1>8, <4>1, <4>2 DEF all
    <3>4. shown + (met - MaxListed) = met
      BY <1>2, <1>5, <2>4
    <3> QED BY <2>2, <3>2, <3>3, <3>4 DEF AccountedIn
  <2> QED BY <2>3, <2>4
<1>17. ManyTold(Told)'
  <2>1. Told' = all /\ failures' = failures /\ told' = i
    BY <1>1, <1>6 DEF all
  <2>2. \A k \in 1..i : k \in 1..told \/ k = i
    BY <1>2
  <2>3. \A k \in 1..i : AccountedIn(all, k, Len(failures[k]))
    BY <1>14, <1>16, <2>2 DEF met
  <2> HIDE DEF i
  <2> QED BY <1>10, <1>12, <2>1, <2>3 DEF ManyTold
<1>18. Reported'
  BY <1>1, <1>7, <1>17 DEF Reported, RunsMany
<1>19. told' \in 0..Len(failures)
  BY <1>1, <1>2
<1> QED BY <1>1, <1>4, <1>18, <1>19 DEF CmdInv, RunsMany, RunOneCheck

-----------------------------------------------------------------------------
LEMMA SameCommand ==
    ASSUME UNCHANGED <<tool, given, world>>
    PROVE  /\ RunsMany' = RunsMany /\ BreaksOff' = BreaksOff
           /\ Lines' = Lines /\ Failed' = Failed
<1>1. RunsMany' = RunsMany /\ BreaksOff' = BreaksOff
  BY DEF RunsMany, BreaksOff
<1>2. Failed' = Failed
  BY DEF Failed
<1>3. Label' = Label
  BY DEF Label
<1>4. Lines' = Lines
  BY <1>3 DEF Lines, PlainReport, RestoreDrillReport, ConfigCheckReport, ReplayReport,
              SbomReport, RenderReport, GuardReport
<1> QED BY <1>1, <1>2, <1>4

LEMMA StartKeeps ==
    ASSUME CmdInv, Start \/ Accept
    PROVE  CmdInv'
<1>1. /\ UNCHANGED <<tool, given, world, failures, told, pending, output, status>>
      /\ stage \in {"start", "parse"} /\ stage' \in {"parse", "work"} /\ strict' = {}
  BY DEF CmdInv, Start, Accept, SafeStreams
<1>2. RunsMany' = RunsMany
  BY <1>1, SameCommand
<1> QED BY <1>1, <1>2 DEF CmdInv, RunOneCheck

LEMMA RefuseKeeps ==
    ASSUME CmdInv, RefuseArguments
    PROVE  CmdInv'
<1>1. /\ UNCHANGED <<tool, given, world, strict, failures, told, output>>
      /\ stage = "parse" /\ stage' = "write" /\ pending' = <<Err("usage", "plain")>> /\ status' = 2
  BY DEF RefuseArguments
<1>2. RunsMany' = RunsMany
  BY <1>1, SameCommand
<1>3. failures = <<>> /\ output = <<>> /\ told = 0 /\ strict = {}
  BY <1>1 DEF CmdInv
<1>4. Err("usage", "plain") \in Line
  BY LineFields DEF Kind, Text
<1>5. pending' \in Seq(Line) /\ Told' = <<Err("usage", "plain")>>
  BY <1>1, <1>3, <1>4 DEF Told
<1>6. Reported'
  BY <1>1, <1>3, <1>5 DEF Reported
<1> QED BY <1>1, <1>2, <1>3, <1>5, <1>6 DEF CmdInv, RunOneCheck

LEMMA BreakOffKeeps ==
    ASSUME CmdInv, BreakOff
    PROVE  CmdInv'
<1>1. /\ UNCHANGED <<tool, given, world, strict, failures, told, output>>
      /\ stage = "work" /\ stage' = "write" /\ pending' = <<Err("traceback", "plain")>>
      /\ status' = 1 /\ BreaksOff
  BY DEF BreakOff
<1>2. RunsMany' = RunsMany /\ BreaksOff' = BreaksOff /\ ~RunsMany
  BY <1>1, SameCommand DEF BreaksOff
<1>3. failures = <<>> /\ output = <<>> /\ told = 0 /\ strict = {}
  BY <1>1, <1>2 DEF CmdInv
<1>4. Err("traceback", "plain") \in Line
  BY LineFields DEF Kind, Text
<1>5. pending' \in Seq(Line) /\ Told' = <<Err("traceback", "plain")>>
  BY <1>1, <1>3, <1>4 DEF Told
<1>6. Reported'
  BY <1>1, <1>2, <1>3, <1>5 DEF Reported
<1> QED BY <1>1, <1>2, <1>3, <1>5, <1>6 DEF CmdInv

LEMMA WorkKeeps ==
    ASSUME CmdInv, DoWork
    PROVE  CmdInv'
<1>1. /\ UNCHANGED <<tool, given, world, strict, failures, told, output>>
      /\ stage = "work" /\ stage' = "write" /\ pending' = Lines
      /\ status' = (IF Failed THEN 1 ELSE 0) /\ ~RunsMany /\ ~BreaksOff
  BY DEF DoWork
<1>2. RunsMany' = RunsMany /\ BreaksOff' = BreaksOff /\ Lines' = Lines /\ Failed' = Failed
  BY <1>1, SameCommand
<1>3. failures = <<>> /\ output = <<>> /\ told = 0 /\ strict = {}
  BY <1>1 DEF CmdInv
<1>4. Lines \in Seq(Line)
  BY LinesAre DEF CmdInv
<1>5. Told' = Lines'
  BY <1>1, <1>2, <1>3, <1>4 DEF Told
<1>6. Reported'
  BY <1>1, <1>2, <1>3, <1>5 DEF Reported
<1> QED BY <1>1, <1>2, <1>3, <1>4, <1>6 DEF CmdInv

LEMMA RunNextKeeps ==
    ASSUME CmdInv, RunNext
    PROVE  CmdInv'
<1> DEFINE next == RunOneCheck(world.checks[Len(failures) + 1])
<1>1. /\ UNCHANGED <<tool, given, world, stage, strict, told, pending, output, status>>
      /\ stage = "work" /\ RunsMany /\ Len(failures) < Len(world.checks)
      /\ failures' = Append(failures, next)
  BY DEF RunNext
<1>2. RunsMany' = RunsMany
  BY <1>1, SameCommand
<1>3. world.checks \in Seq([found : Seq(Text), raises : BOOLEAN])
  BY DEF CmdInv, WorldType
<1>4. failures \in Seq(Seq(Text)) /\ told = 0
  BY <1>1 DEF CmdInv
<1>5. Len(failures) + 1 \in DOMAIN world.checks /\ Len(failures) + 1 <= Len(world.checks)
  <2> DEFINE OneCheck == [found : Seq(Text), raises : BOOLEAN]
  <2>1. world.checks \in Seq(OneCheck)
    BY <1>3
  <2> HIDE DEF OneCheck
  <2> QED BY <1>1, <1>4, <2>1
<1>6. next \in Seq(Text)
  BY <1>5, Texts DEF CmdInv
<1>7. \A i \in DOMAIN failures : failures[i] = RunOneCheck(world.checks[i])
  BY <1>1 DEF CmdInv
<1> HIDE DEF next
<1>8. /\ failures' \in Seq(Seq(Text)) /\ Len(failures') = Len(failures) + 1
      /\ \A i \in DOMAIN failures' : i \in DOMAIN failures \/ i = Len(failures) + 1
      /\ \A i \in DOMAIN failures : failures'[i] = failures[i]
      /\ failures'[Len(failures) + 1] = next
  BY <1>1, <1>4, <1>6
<1>9. \A i \in DOMAIN failures' : failures'[i] = RunOneCheck(world.checks[i])
  BY <1>7, <1>8 DEF next
<1>10. \A i \in DOMAIN failures' : failures'[i] = RunOneCheck(world.checks[i])'
  BY <1>1, <1>9 DEF RunOneCheck
<1>11. Len(failures') <= Len(world.checks') /\ told' \in 0..Len(failures')
  BY <1>1, <1>4, <1>5, <1>8
<1> QED BY <1>1, <1>2, <1>8, <1>10, <1>11 DEF CmdInv

LEMMA AllRunKeeps ==
    ASSUME CmdInv, AllRun
    PROVE  CmdInv'
<1>1. /\ UNCHANGED <<tool, given, world, strict, failures, told, output>>
      /\ stage = "work" /\ RunsMany /\ Len(failures) = Len(world.checks)
      /\ stage' = "write" /\ pending' = <<Out("verdict", "plain")>>
      /\ status' = IF \E i \in DOMAIN failures : failures[i] # <<>> THEN 1 ELSE 0
  BY DEF AllRun
<1>2. RunsMany' = RunsMany
  BY <1>1, SameCommand
<1>3. output = <<>> /\ told = 0 /\ strict = {}
  BY <1>1 DEF CmdInv
<1>4. Out("verdict", "plain") \in Line
  BY LineFields DEF Kind, Text
<1>5. pending' \in Seq(Line) /\ Told' = <<Out("verdict", "plain")>>
  BY <1>1, <1>3, <1>4 DEF Told
<1>6. ManyTold(Told)'
  BY <1>1, <1>3, <1>5 DEF ManyTold
<1>7. Reported'
  BY <1>1, <1>2, <1>6 DEF Reported
<1> QED BY <1>1, <1>2, <1>3, <1>5, <1>7 DEF CmdInv, RunOneCheck

LEMMA WriteKeeps ==
    ASSUME CmdInv, WriteLine
    PROVE  CmdInv'
<1>1. /\ stage = "write" /\ pending # <<>> /\ strict = {}
      /\ output \in Seq(Line) /\ pending \in Seq(Line)
  BY DEF CmdInv, WriteLine
<1>2. /\ UNCHANGED <<tool, given, world, stage, strict, failures, told, status>>
      /\ output' = Append(output, Head(pending)) /\ pending' = Tail(pending)
  BY <1>1 DEF WriteLine
<1>3. RunsMany' = RunsMany /\ BreaksOff' = BreaksOff /\ Lines' = Lines /\ Failed' = Failed
  BY <1>2, SameCommand
<1>4. output' \in Seq(Line) /\ pending' \in Seq(Line)
  BY <1>1, <1>2
<1>5. Told' = Told
  BY <1>1, <1>2, ToldStays DEF Told
<1>6. Reported
  BY <1>1 DEF CmdInv
<1>7. ManyTold(Told)' <=> ManyTold(Told)
  BY <1>2, <1>5 DEF ManyTold
<1>8. Reported'
  BY <1>2, <1>3, <1>5, <1>6, <1>7 DEF Reported
<1> QED BY <1>1, <1>2, <1>3, <1>4, <1>8 DEF CmdInv, RunOneCheck

LEMMA ExitKeeps ==
    ASSUME CmdInv, Exit
    PROVE  CmdInv'
<1>1. /\ UNCHANGED <<tool, given, world, strict, failures, told, pending, output, status>>
      /\ stage = "write" /\ stage' = "done" /\ pending = <<>> /\ told = Len(failures)
  BY DEF Exit
<1>2. RunsMany' = RunsMany /\ BreaksOff' = BreaksOff /\ Lines' = Lines /\ Failed' = Failed
  BY <1>1, SameCommand
<1>3. Reported'
  <2>1. Reported
    BY <1>1 DEF CmdInv
  <2>2. ManyTold(Told)' <=> ManyTold(Told)
    BY <1>1 DEF ManyTold, Told
  <2> QED BY <1>1, <1>2, <2>1, <2>2 DEF Reported, Told
<1> QED BY <1>1, <1>2, <1>3 DEF CmdInv, RunOneCheck

LEMMA CmdInductive ==
    ASSUME CmdInv, [CmdNext]_cmdVars
    PROVE  CmdInv'
<1>1. CASE UNCHANGED cmdVars
  <2>1. UNCHANGED <<tool, given, world, stage, strict, failures, told, pending, output, status>>
    BY <1>1 DEF cmdVars
  <2>2. RunsMany' = RunsMany /\ BreaksOff' = BreaksOff /\ Lines' = Lines /\ Failed' = Failed
    BY <2>1, SameCommand
  <2>3. ManyTold(Told)' <=> ManyTold(Told)
    BY <2>1 DEF ManyTold, Told
  <2>4. Reported' <=> Reported
    BY <2>1, <2>2, <2>3 DEF Reported, Told
  <2> QED BY <2>1, <2>2, <2>4 DEF CmdInv, RunOneCheck
<1> QED BY <1>1, StartKeeps, RefuseKeeps, BreakOffKeeps, WorkKeeps, RunNextKeeps, AllRunKeeps, TellKeeps,
           WriteKeeps, ExitKeeps DEF CmdNext

LEMMA CmdStarts == CmdInit => CmdInv
<1> SUFFICES ASSUME CmdInit PROVE CmdInv
  OBVIOUS
<1>1. /\ tool \in Tool /\ world \in World[tool]
      /\ ~world.readable => tool = "render_detectors" /\ world.checks[1].found # <<>>
      /\ stage = "start" /\ failures = <<>> /\ told = 0 /\ pending = <<>> /\ output = <<>>
  BY DEF CmdInit, Invocation, NotStarted
<1>2. world \in WorldType
  BY <1>1, WorldAssumption
<1> HIDE DEF Tool, WorldType
<1> QED BY <1>1, <1>2 DEF CmdInv

-----------------------------------------------------------------------------
\* The whole of a report: one verdict, and everything that was met.
OfKind(report, kind) == {l \in DOMAIN report : report[l].kind = kind}

Whole(report, met) ==
    /\ \E l \in DOMAIN report : OfKind(report, "verdict") = {l}
    /\ \A l \in OfKind(report, "verdict") : report[l].to = "out" <=> OfKind(report, "data") = {}
    /\ \A l \in OfKind(report, "finding") : report[l].to = "err"
    /\ AccountedIn(report, 1, met)

LEMMA PlainIsWhole ==
    ASSUME NEW text \in Text, NEW found \in Seq(Text)
    PROVE  Whole(<<Out("verdict", text)>> \o FindingLines(found), Len(found))
<1> DEFINE first == Out("verdict", text)
           report == <<first>> \o FindingLines(found)
           n == Len(found)
<1>1. first \in Line /\ first.kind = "verdict" /\ first.to = "out"
  BY LineFields DEF Kind
<1>2. n \in Nat /\ \A i \in 1..n : found[i] \in Text
  OBVIOUS
<1> HIDE DEF first
<1>3. /\ report \in Seq(Line) /\ Len(report) = n + 1 /\ report[1] = first
      /\ \A l \in 2..(n + 1) : report[l] = Err("finding", found[l - 1])
  BY <1>1, PlainLines
<1> HIDE DEF report, n
<1>4. DOMAIN report = 1..(n + 1) /\ 1 \in 1..(n + 1)
  BY <1>2, <1>3
<1>5. \A l \in 2..(n + 1) : report[l].kind = "finding" /\ report[l].to = "err" /\ report[l].of = 1
  <2> TAKE l \in 2..(n + 1)
  <2>1. l - 1 \in 1..n
    BY <1>2
  <2>2. found[l - 1] \in Text
    BY <1>2, <2>1
  <2> QED BY <1>3, <2>2, LineFields DEF Kind
<1>6. \A l \in 1..(n + 1) : l = 1 \/ l \in 2..(n + 1)
  BY <1>2
<1>7. \A l \in 2..(n + 1) : l # 1 /\ l \in 1..(n + 1)
  BY <1>2
<1>8. /\ OfKind(report, "verdict") = {1}
      /\ OfKind(report, "data") = {}
      /\ OfKind(report, "finding") = 2..(n + 1)
      /\ LinesOf(report, "more", 1) = {} /\ LinesOf(report, "finding", 1) = 2..(n + 1)
  BY <1>1, <1>3, <1>4, <1>5, <1>6, <1>7 DEF LinesOf, OfKind
<1>9. Cardinality(2..(n + 1)) = n
  BY <1>2, FS_Interval
<1>10. AccountedIn(report, 1, n)
  BY <1>8, <1>9 DEF AccountedIn
<1>11. Whole(report, n)
  BY <1>1, <1>3, <1>4, <1>5, <1>8, <1>10 DEF Whole
<1> QED BY <1>11 DEF report, n, first

\* Two lines of which one is the verdict, when nothing was found.
LEMMA PairIsWhole ==
    ASSUME NEW text \in Text, NEW other \in Text
    PROVE  /\ Whole(<<Out("verdict", text)>> \o <<Out("summary", other)>>, 0)
           /\ Whole(<<Out("data", other), Err("verdict", text)>>, 0)
<1>0. Cardinality({}) = 0
  BY FS_EmptySet
<1>1. ASSUME NEW first \in Line, NEW second \in Line, NEW report, report = <<first>> \o <<second>>,
             first.kind = "verdict", first.to = "out", second.kind = "summary"
      PROVE  Whole(report, 0)
  <2>1. DOMAIN report = {1, 2} /\ report[1] = first /\ report[2] = second
    <3>1. /\ <<first>> \in Seq(Line) /\ Len(<<first>>) = 1 /\ <<first>>[1] = first
          /\ <<second>> \in Seq(Line) /\ Len(<<second>>) = 1 /\ <<second>>[1] = second
      BY <1>1
    <3>2. DOMAIN report = 1..2 /\ report[1] = <<first>>[1] /\ report[2] = <<second>>[1]
      BY <1>1, <3>1, JoinedAre
    <3> QED BY <3>1, <3>2
  <2>2. /\ OfKind(report, "verdict") = {1}
        /\ OfKind(report, "data") = {}
        /\ OfKind(report, "finding") = {}
        /\ LinesOf(report, "more", 1) = {} /\ LinesOf(report, "finding", 1) = {}
    BY <1>1, <2>1 DEF LinesOf, OfKind
  <2>3. AccountedIn(report, 1, 0)
    BY <1>0, <2>2 DEF AccountedIn
  <2> QED BY <1>1, <2>1, <2>2, <2>3 DEF Whole
<1>2. ASSUME NEW first \in Line, NEW second \in Line, NEW report, report = <<first, second>>,
             first.kind = "data", second.kind = "verdict", second.to = "err"
      PROVE  Whole(report, 0)
  <2>1. DOMAIN report = {1, 2} /\ report[1] = first /\ report[2] = second
    BY <1>2
  <2>2. /\ OfKind(report, "verdict") = {2}
        /\ OfKind(report, "data") = {1}
        /\ OfKind(report, "finding") = {}
        /\ LinesOf(report, "more", 1) = {} /\ LinesOf(report, "finding", 1) = {}
    BY <1>2, <2>1 DEF LinesOf, OfKind
  <2>3. AccountedIn(report, 1, 0)
    BY <1>0, <2>2 DEF AccountedIn
  <2> QED BY <1>2, <2>1, <2>2, <2>3 DEF Whole
<1>3. /\ Out("verdict", text) \in Line /\ Out("verdict", text).kind = "verdict" /\ Out("verdict", text).to = "out"
      /\ Err("verdict", text) \in Line /\ Err("verdict", text).kind = "verdict" /\ Err("verdict", text).to = "err"
  BY LineFields DEF Kind
<1>4. /\ Out("summary", other) \in Line /\ Out("summary", other).kind = "summary"
      /\ Out("data", other) \in Line /\ Out("data", other).kind = "data"
  BY LineFields DEF Kind
<1> QED BY <1>1, <1>2, <1>3, <1>4

LEMMA LinesAreWhole ==
    ASSUME world \in WorldType, tool \in Reporting
    PROVE  Whole(Lines, Len(world.checks[1].found))
<1> DEFINE found == world.checks[1].found
<1>1. found \in Seq(Text) /\ "plain" \in Text /\ Label \in Text /\ world.label \in Text
  BY Texts
<1>2. Whole(PlainReport(found), Len(found))
  BY <1>1, PlainIsWhole DEF PlainReport
<1>3. found = <<>> => /\ PlainReport(found) = <<Out("verdict", Label)>> /\ Len(found) = 0
  BY DEF PlainReport, FindingLines
<1> HIDE DEF found
<1>4. Whole(RestoreDrillReport(found), Len(found))
  <2>1. PlainReport(found) \o <<>> = PlainReport(found)
    BY <1>1, FindingsAre, PlainLines, LineFields DEF PlainReport, Kind
  <2>2. CASE found = <<>> /\ "self-test" \notin given
    <3>1. RestoreDrillReport(found) = <<Out("verdict", Label)>> \o <<Out("summary", world.label)>>
      BY <1>3, <2>2 DEF RestoreDrillReport
    <3> QED BY <1>1, <1>3, <2>2, <3>1, PairIsWhole
  <2>3. CASE ~(found = <<>> /\ "self-test" \notin given)
    <3>1. RestoreDrillReport(found) = PlainReport(found) \o <<>>
      BY <2>3 DEF RestoreDrillReport
    <3> QED BY <1>2, <2>1, <3>1
  <2> QED BY <2>2, <2>3
<1>5. Whole(ConfigCheckReport(found), Len(found))
  <2>1. CASE found = <<>> /\ "show-effective" \in given /\ "self-test" \notin given
    <3>1. ConfigCheckReport(found) = <<Out("data", "plain"), Err("verdict", Label)>>
      BY <2>1 DEF ConfigCheckReport
    <3> QED BY <1>1, <1>3, <2>1, <3>1, PairIsWhole
  <2>2. CASE ~(found = <<>> /\ "show-effective" \in given /\ "self-test" \notin given)
    <3>1. ConfigCheckReport(found) = PlainReport(found)
      BY <2>2 DEF ConfigCheckReport
    <3> QED BY <1>2, <3>1
  <2> QED BY <2>1, <2>2
<1> QED BY <1>2, <1>4, <1>5 DEF Lines, Reporting, found

\* A run of one check that fails has a line on stderr, whatever the tool.
LEMMA FailingLines ==
    ASSUME world \in WorldType, tool \in Tool, Failed,
           ~world.readable => tool = "render_detectors"
    PROVE  \E l \in DOMAIN Lines : Lines[l].to = "err"
<1> DEFINE found == world.checks[1].found
           Tells(lines) == \E l \in DOMAIN lines : lines[l].to = "err"
<1>1. found \in Seq(Text) /\ found # <<>> /\ found[1] \in Text /\ <<found[1]>> \in Seq(Text)
      /\ Label \in Text /\ "plain" \in Text
  <2>1. found \in Seq(Text) /\ found # <<>> /\ Label \in Text /\ "plain" \in Text
    BY Texts DEF Failed
  <2> HIDE DEF found
  <2> QED BY <2>1
<1>2. ASSUME NEW first \in Line, NEW some \in Seq(Text), some # <<>>
      PROVE  Tells(<<first>> \o FindingLines(some)) /\ Tells(FindingLines(some))
  <2>1. 1 \in 1..Len(some) /\ Len(some) \in Nat /\ Len(some) >= 1
    BY <1>2
  <2>3. 2 \in 2..(Len(some) + 1)
    BY <2>1
  <2>4. (<<first>> \o FindingLines(some))[2] = Err("finding", some[2 - 1])
    BY <2>3, PlainLines
  <2>5. 2 \in DOMAIN (<<first>> \o FindingLines(some))
    <3> DEFINE report == <<first>> \o FindingLines(some)
    <3>1. report \in Seq(Line) /\ Len(report) = Len(some) + 1
      BY PlainLines
    <3> HIDE DEF report, Line
    <3>2. DOMAIN report = 1..(Len(some) + 1)
      BY <3>1
    <3> QED BY <2>1, <3>2 DEF report
  <2>6. 1 \in DOMAIN FindingLines(some) /\ FindingLines(some)[1].to = "err"
    BY <2>1, FindingsAre
  <2> QED BY <2>4, <2>5, <2>6 DEF Err
<1>3. \A text : Tells(<<Err("finding", text)>>)
  BY DEF Err
<1>4. /\ Out("verdict", Label) \in Line /\ Err("verdict", "plain") \in Line
  BY <1>1, LineFields DEF Kind
<1>5. <<found[1]>> # <<>>
  OBVIOUS
<1> HIDE DEF found
<1>6. Tells(PlainReport(found)) /\ Tells(PlainReport(<<found[1]>>))
  BY <1>1, <1>2, <1>4, <1>5 DEF PlainReport
<1>7. Tells(RestoreDrillReport(found))
  <2>1. PlainReport(found) \o <<>> = PlainReport(found)
    BY <1>1, <1>4, PlainLines DEF PlainReport
  <2> QED BY <1>1, <1>6, <2>1 DEF RestoreDrillReport
<1>8. Tells(ConfigCheckReport(found))
  BY <1>1, <1>6 DEF ConfigCheckReport
<1>9. Tells(ReplayReport(found)) /\ Tells(SbomReport(found))
  BY <1>1, <1>2, <1>4, <1>6 DEF ReplayReport, SbomReport
<1>10. tool = "render_detectors" => Tells(RenderReport(found))
  BY <1>1, <1>3, <1>6 DEF RenderReport, Failed, found
<1>11. Tells(GuardReport(found))
  BY <1>1, <1>3 DEF GuardReport
<1> HIDE DEF Tells
<1>12. Tells(Lines)
  BY <1>6, <1>7, <1>8, <1>9, <1>10, <1>11 DEF Lines, found
<1> QED BY <1>12 DEF Tells

LEMMA CmdTells ==
    ASSUME CmdInv, stage = "done"
    PROVE  CommandVerdict
<1>1. /\ tool \in Tool /\ world \in WorldType /\ Reported /\ pending = <<>> /\ told = Len(failures)
      /\ output \in Seq(Line) /\ failures \in Seq(Seq(Text))
      /\ RunsMany => \A i \in DOMAIN failures : failures[i] = RunOneCheck(world.checks[i])
  BY DEF CmdInv
<1>2. Told = output
  BY <1>1 DEF Told
<1>3. \A kind, i : PrintedOf(kind, i) = LinesOf(output, kind, i)
  BY DEF PrintedOf, Printed, LinesOf
<1>4. CASE status = 2 /\ failures = <<>> /\ Told = <<Err("usage", "plain")>>
  <2>1. output[1].kind = "usage" /\ output[1].to = "err" /\ DOMAIN output = {1}
    BY <1>2, <1>4, LineFields DEF Kind, Text
  <2> QED BY <1>4, <2>1 DEF CommandVerdict, ExitCodeTrue, FailureTold, ReportComplete, Printed
<1>0. CASE BreaksOff /\ status = 1 /\ failures = <<>> /\ Told = <<Err("traceback", "plain")>>
  <2>1. output[1].kind = "traceback" /\ output[1].to = "err" /\ DOMAIN output = {1}
    BY <1>0, <1>2, LineFields DEF Kind, Text
  <2>2. Asked = {1} /\ MetBy(1) = 1
    BY <1>0 DEF Asked, MetBy, BreaksOff
  <2>3. Printed("usage") = {}
    BY <2>1 DEF Printed
  <2>4. ExitCodeTrue
    BY <1>0, <2>2, <2>3 DEF ExitCodeTrue
  <2> QED BY <1>0, <2>1, <2>4 DEF CommandVerdict, FailureTold, ReportComplete
<1>5. CASE ~RunsMany /\ ~BreaksOff /\ failures = <<>> /\ Told = Lines /\ status = (IF Failed THEN 1 ELSE 0)
  <2> DEFINE found == world.checks[1].found
  <2>1. found \in Seq(Text) /\ Asked = {1} /\ MetBy(1) = Len(found)
    BY <1>1, <1>5, Texts DEF Asked, MetBy, BreaksOff
  <2>2. Printed("usage") = {}
    BY <1>1, <1>2, <1>5, LinesAre DEF Printed, CmdInv
  <2>3. tool # "render_detectors" => (status = 1 <=> Len(found) > 0)
    <3>1. found # <<>> <=> Len(found) > 0
      BY <2>1
    <3> QED BY <1>5, <3>1 DEF Failed
  <2>4. ExitCodeTrue
    <3>1. status # 2
      BY <1>5
    <3> HIDE DEF found
    <3> QED BY <2>1, <2>2, <2>3, <3>1 DEF ExitCodeTrue
  <2>5. ReportComplete
    <3> SUFFICES ASSUME tool \in Reporting PROVE ReportComplete
      BY DEF ReportComplete
    <3>1. Whole(output, Len(found))
      BY <1>1, <1>2, <1>5, LinesAreWhole
    <3>2. \A kind : OfKind(output, kind) = Printed(kind)
      BY DEF Printed, OfKind
    <3> HIDE DEF found
    <3>3. PICK v : Printed("verdict") = {v}
      BY <3>1, <3>2 DEF Whole
    <3>4. Cardinality(Printed("verdict")) = 1
      BY <3>3, FS_Singleton
    <3>5. /\ \A i \in Printed("verdict") : output[i].to = "out" <=> Printed("data") = {}
          /\ \A i \in Printed("finding") : output[i].to = "err"
          /\ AccountedIn(output, 1, Len(found))
      BY <3>1, <3>2 DEF Whole
    <3>6. \A i \in Asked : i = 1
      BY <2>1
    <3> QED BY <1>3, <2>1, <3>4, <3>5, <3>6 DEF ReportComplete, AccountedIn
  <2>6. FailureTold
    <3>1. status # 0 => Failed
      BY <1>5
    <3>2. Failed => \E l \in DOMAIN output : output[l].to = "err"
      BY <1>1, <1>2, <1>5, FailingLines DEF CmdInv
    <3> QED BY <3>1, <3>2 DEF FailureTold
  <2> QED BY <2>4, <2>5, <2>6 DEF CommandVerdict
<1>6. CASE RunsMany /\ Len(failures) = Len(world.checks) /\ ManyTold(Told)
           /\ status = (IF \E i \in DOMAIN failures : failures[i] # <<>> THEN 1 ELSE 0)
  <2>1. world.checks \in Seq([found : Seq(Text), raises : BOOLEAN]) /\ DOMAIN world.checks = 1..Len(world.checks)
    BY <1>1 DEF WorldType
  <2>2. Asked = 1..told /\ DOMAIN failures = 1..told /\ tool = "doccheck"
    BY <1>1, <1>6, <2>1 DEF Asked, RunsMany
  <2>3. \A i \in Asked : Len(failures[i]) = MetBy(i) /\ Len(failures[i]) \in Nat /\ failures[i] \in Seq(Text)
    <3> TAKE i \in Asked
    <3>0. i \in DOMAIN failures
      BY <2>2
    <3>1. failures[i] = RunOneCheck(world.checks[i]) /\ failures[i] \in Seq(Text)
      BY <1>1, <1>6, <3>0
    <3> QED BY <1>6, <3>1 DEF RunOneCheck, MetBy
  <2>4. \A i \in Asked : failures[i] # <<>> <=> MetBy(i) > 0
    BY <2>3
  <2>5. /\ output # <<>> /\ output[1] = Out("verdict", "plain")
        /\ \A l \in DOMAIN output \ {1} : output[l].kind \in {"finding", "more"} /\ output[l].to = "err"
        /\ \A i \in 1..told : AccountedIn(output, i, Len(failures[i]))
    BY <1>2, <1>6 DEF ManyTold
  <2>6. output[1].kind = "verdict" /\ output[1].to = "out" /\ 1 \in DOMAIN output
    BY <1>1, <2>5 DEF Out
  <2>7. Printed("verdict") = {1} /\ Printed("data") = {} /\ Printed("usage") = {} /\ 1 \notin Printed("finding")
    BY <2>5, <2>6 DEF Printed
  <2>8. ExitCodeTrue
    BY <1>6, <2>2, <2>4, <2>7 DEF ExitCodeTrue
  <2>9. Cardinality(Printed("verdict")) = 1
    BY <2>7, FS_Singleton
  <2>10. \A i \in Printed("finding") : output[i].to = "err"
    BY <2>5, <2>7 DEF Printed
  <2>11. \A i \in Asked : AccountedIn(output, i, MetBy(i))
    BY <2>2, <2>3, <2>5
  <2>12. ReportComplete
    BY <1>3, <2>6, <2>7, <2>9, <2>10, <2>11 DEF ReportComplete, AccountedIn
  <2>13. FailureTold
    <3> SUFFICES ASSUME status # 0 PROVE \E l \in DOMAIN output : output[l].to = "err"
      BY DEF FailureTold
    <3>1. PICK i \in Asked : MetBy(i) > 0
      BY <1>6, <2>2, <2>4
    <3>2. PICK l : l \in LinesOf(output, "finding", i) \/ l \in LinesOf(output, "more", i)
      <4>1. Cardinality({}) = 0
        BY FS_EmptySet
      <4>2. AccountedIn(output, i, MetBy(i))
        BY <2>11
      <4> QED BY <3>1, <4>1, <4>2 DEF AccountedIn
    <3>3. l \in DOMAIN output /\ output[l].kind \in {"finding", "more"}
      BY <3>2 DEF LinesOf
    <3>4. l # 1
      BY <2>6, <3>3
    <3> QED BY <2>5, <3>3, <3>4
  <2> QED BY <2>8, <2>12, <2>13 DEF CommandVerdict
<1> QED BY <1>0, <1>1, <1>4, <1>5, <1>6 DEF Reported

(* Every command line ends with an exit code that says what was met: 2 for    *)
(* arguments that are refused, 1 for something found or raised, by whichever  *)
(* check and in whatever text, 0 for nothing, and no failure is silent.  Of   *)
(* the tools of Reporting, a run that nothing broke off prints one verdict,   *)
(* and its report accounts for every finding of every check.                  *)
THEOREM ExitCodesTell == CmdSpec => []CommandVerdict
<1>1. CmdInv => CommandVerdict
  <2>1. stage # "done" => CommandVerdict
    BY DEF CommandVerdict, ExitCodeTrue, FailureTold, ReportComplete
  <2> QED BY <2>1, CmdTells
<1> QED BY <1>1, CmdStarts, CmdInductive, PTL DEF CmdSpec

-----------------------------------------------------------------------------
(* Archives: what an edited manifest still says of damaged files. *)

ArchiveInv ==
    /\ original.copies \in Exported
    /\ \E names \in InOrder(DOMAIN original.copies) :
          original.manifest = BuildManifest(original.copies,
              IF Dir!IndexFile \in DOMAIN original.copies THEN Dir!IndexFile ELSE Ill, names)
    /\ Dir!IsDirectory(Files(copies)) /\ copies \in [DOMAIN copies -> Content]
    /\ attestation \in Manifest \union {Ill} /\ original.manifest \in Manifest
    /\ sealed /\ attestation # Ill => attestation.digest = original.manifest.digest

LEMMA NotBroken ==
    ASSUME NEW rules, Broken(rules) = {}, NEW rule \in DOMAIN rules
    PROVE  ~rules[rule]
  BY DEF Broken

LEMMA TotalsAre ==
    ASSUME NEW numbers \in Seq(Int)
    PROVE  Partial(numbers, Len(numbers), Sums(numbers)) /\ Sums(numbers)[Len(numbers)] \in Int
<1>1. PICK sum : Partial(numbers, Len(numbers), sum)
  BY PartialSums
<1>2. AddsUp(numbers, sum)
  BY <1>1 DEF Partial, AddsUp
<1>3. AddsUp(numbers, Sums(numbers))
  BY <1>2, Zenon DEF Sums, AddsUp
<1>4. Partial(numbers, Len(numbers), Sums(numbers))
  BY <1>3, AddedUp
<1> QED BY <1>4 DEF Partial

\* What each entry counts for.
Counts(entries, field) ==
    [i \in DOMAIN entries |->
        IF entries[i] # Ill /\ entries[i][field] \in Int THEN entries[i][field] ELSE 0]

LEMMA TotalIs ==
    ASSUME NEW entries \in Seq(Entry \union {Ill}), NEW field
    PROVE  /\ Counts(entries, field) \in Seq(Int)
           /\ Len(Counts(entries, field)) = Len(entries)
           /\ IntegerTotal(entries, field) = Sums(Counts(entries, field))[Len(entries)]
           /\ IntegerTotal(entries, field) \in Int
<1> DEFINE numbers == Counts(entries, field)
           Said == Entry \union {Ill}
<1>1. DOMAIN entries = 1..Len(entries) /\ Len(entries) \in Nat
  <2> entries \in Seq(Said)
    OBVIOUS
  <2> HIDE DEF Said
  <2> QED OBVIOUS
<1>2. \A i \in 1..Len(entries) :
        (IF entries[i] # Ill /\ entries[i][field] \in Int THEN entries[i][field] ELSE 0) \in Int
  OBVIOUS
<1>3. numbers \in Seq(Int) /\ Len(numbers) = Len(entries)
  BY <1>1, <1>2 DEF Counts
<1>4. IntegerTotal(entries, field) = Sums(numbers)[Len(entries)]
  BY DEF IntegerTotal, Counts
<1> HIDE DEF numbers
<1>5. Sums(numbers)[Len(entries)] \in Int
  BY <1>3, TotalsAre
<1> QED BY <1>3, <1>4, <1>5 DEF numbers

\* Segments of a chain follow one another.
LEMMA SegmentsApart ==
    ASSUME NEW d, Dir!IsDirectory(d), Dir!ChainOK(d),
           NEW s \in Dir!Segments(d), NEW t \in Dir!Segments(d), s < t
    PROVE  d[s].last < d[t].first
<1>0. MaxSegment \in Nat /\ MaxRecord \in Nat
  BY ArchiveAssumption
<1>1. \A u \in Dir!Segments(d) : u \in 1..MaxSegment /\ u \in DOMAIN d /\ d[u] \in Dir!SegmentContent
  <2> TAKE u \in Dir!Segments(d)
  <2>1. u \in DOMAIN d /\ u \in 1..MaxSegment
    BY DEF Dir!Segments, Dir!SegmentId
  <2>2. u # Dir!IndexFile
    BY <1>0, <2>1 DEF Dir!IndexFile
  <2> QED BY <2>1, <2>2 DEF Dir!IsDirectory
<1>2. \A u \in Dir!Segments(d) : d[u].first \in Int /\ d[u].last \in Int
  BY <1>0, <1>1 DEF Dir!SegmentContent
<1> DEFINE Odd == {u \in Dir!Segments(d) : s < u /\ ~(d[s].last < d[u].first)}
<1>3. SUFFICES ASSUME t \in Odd PROVE FALSE
  OBVIOUS
<1>4. PICK u \in Odd : \A v \in Odd : u <= v
  <2>1. Odd \in SUBSET Nat /\ Odd # {}
    BY <1>1, <1>3
  <2> HIDE DEF Odd
  <2> QED BY <2>1, LeastOf
<1>5. u \in Dir!Segments(d) /\ s < u /\ ~(d[s].last < d[u].first)
  BY <1>4
<1>6. PICK p \in Dir!Segments(d) : /\ p < u /\ d[u].first = d[p].last + 1
                                   /\ \A v \in Dir!Segments(d) : v <= p \/ u <= v
  <2>1. ~ (\A v \in Dir!Segments(d) : u <= v)
    BY <1>1, <1>5
  <2>2. Dir!LinksBack(d, u)
    BY <1>5 DEF Dir!ChainOK
  <2> QED BY <2>1, <2>2 DEF Dir!LinksBack
<1>7. s <= p
  BY <1>1, <1>5, <1>6
<1>8. CASE s = p
  BY <1>2, <1>5, <1>6, <1>8
<1>9. CASE s # p
  <2>1. d[s].last < d[p].first
    <3>1. p \notin Odd
      BY <1>1, <1>4, <1>6
    <3>2. s < p
      BY <1>1, <1>7, <1>9
    <3> QED BY <3>1, <3>2
  <2>2. d[p].first <= d[p].last
    BY DEF Dir!ChainOK
  <2> QED BY <1>2, <1>5, <1>6, <2>1, <2>2
<1> QED BY <1>8, <1>9

-----------------------------------------------------------------------------
\* What a file or an edit adds to an archive is of the shape of what is there.
LEMMA Shapes ==
    /\ MaxSegment \in Nat \ {0} /\ MaxRecord \in Nat \ {0}
    /\ Dir!SegmentId \subseteq Dir!File /\ Dir!IndexFile \in Dir!File /\ Dir!IndexFile \notin Dir!SegmentId
    /\ \A f \in Dir!File : f \in Dir!SegmentId \/ f = Dir!IndexFile
    /\ Notes \notin Dir!File
    /\ \A c \in Content : IF "listed" \in DOMAIN c THEN c \in Dir!IndexContent ELSE c \in Dir!SegmentContent
<1>1. MaxSegment \in Nat \ {0} /\ MaxRecord \in Nat \ {0} /\ Notes \notin Dir!File
  BY ArchiveAssumption
<1>2. /\ Dir!SegmentId \subseteq Dir!File /\ Dir!IndexFile \in Dir!File /\ Dir!IndexFile \notin Dir!SegmentId
      /\ \A f \in Dir!File : f \in Dir!SegmentId \/ f = Dir!IndexFile
  BY <1>1 DEF Dir!SegmentId, Dir!File, Dir!IndexFile
<1>3. ASSUME NEW c \in Content
      PROVE  IF "listed" \in DOMAIN c THEN c \in Dir!IndexContent ELSE c \in Dir!SegmentContent
  <2>1. CASE c \in Dir!SegmentContent
    <3>1. DOMAIN c = {"first", "last", "torn"}
      BY <2>1 DEF Dir!SegmentContent
    <3> QED BY <2>1, <3>1
  <2>2. CASE c \in Dir!IndexContent
    <3>1. DOMAIN c = {"listed"}
      BY <2>2 DEF Dir!IndexContent
    <3> QED BY <2>2, <3>1
  <2> QED BY <2>1, <2>2 DEF Content
<1> QED BY <1>1, <1>2, <1>3

Archive(files) == Dir!IsDirectory(Files(files)) /\ files \in [DOMAIN files -> Content]

LEMMA ArchiveFits ==
    ASSUME NEW files, Archive(files)
    PROVE  /\ DOMAIN files \subseteq Dir!File \union {Notes}
           /\ \A f \in DOMAIN files : f \in Dir!SegmentId => files[f] \in Dir!SegmentContent
           /\ \A f \in DOMAIN files : files[f] \in Content
<1>1. DOMAIN Files(files) = DOMAIN files \ {Notes} /\ \A f \in DOMAIN files \ {Notes} : Files(files)[f] = files[f]
  BY DEF Files
<1>2. DOMAIN files \ {Notes} \subseteq Dir!File
  BY <1>1 DEF Archive, Dir!IsDirectory
<1>3. ASSUME NEW f \in DOMAIN files, f \in Dir!SegmentId PROVE files[f] \in Dir!SegmentContent
  <2>1. f # Notes /\ f # Dir!IndexFile
    BY <1>3, Shapes
  <2> QED BY <1>1, <2>1 DEF Archive, Dir!IsDirectory
<1>4. \A f \in DOMAIN files : files[f] \in Content
  BY DEF Archive
<1> QED BY <1>2, <1>3, <1>4

\* A directory is an archive without notes.
LEMMA ExportFits ==
    ASSUME NEW files \in Exported
    PROVE  Archive(files) /\ Files(files) = files /\ Dir!IsDirectory(files) /\ Dir!ChainOK(files)
<1>1. Dir!IsDirectory(files) /\ files \in [DOMAIN files -> Content] /\ Dir!ChainOK(files)
  BY ArchiveAssumption
<1>2. DOMAIN files \ {Notes} = DOMAIN files
  BY <1>1, Shapes DEF Dir!IsDirectory
<1>3. Files(files) = files
  BY <1>1, <1>2 DEF Files
<1> QED BY <1>1, <1>3 DEF Archive

LEMMA ReplacedFits ==
    ASSUME NEW files, Archive(files), NEW f \in Dir!File \union {Notes}, NEW c \in Content,
           f = Notes \/ ((f = Dir!IndexFile) = ("listed" \in DOMAIN c))
    PROVE  Archive(Dir!Put(files, f, c))
<1> DEFINE more == Dir!Put(files, f, c)
<1>1. DOMAIN more = DOMAIN files \union {f} /\ \A g \in DOMAIN more : more[g] = IF g = f THEN c ELSE files[g]
  BY DEF Dir!Put
<1>2. more = [g \in DOMAIN more |-> IF g = f THEN c ELSE files[g]]
  BY DEF Dir!Put
<1> HIDE DEF more
<1>3. \A g \in DOMAIN more : more[g] \in Content
  BY <1>1, ArchiveFits
<1>4. more \in [DOMAIN more -> Content]
  BY <1>1, <1>2, <1>3
<1>5. DOMAIN Files(more) = DOMAIN more \ {Notes} /\ \A g \in DOMAIN more \ {Notes} : Files(more)[g] = more[g]
  BY DEF Files
<1>6. DOMAIN more \ {Notes} \subseteq Dir!File
  BY <1>1, ArchiveFits
<1>7. ASSUME NEW g \in DOMAIN more \ {Notes}
      PROVE  more[g] \in IF g = Dir!IndexFile THEN Dir!IndexContent ELSE Dir!SegmentContent
  <2>1. CASE g = f
    <3>1. (f = Dir!IndexFile) = ("listed" \in DOMAIN c)
      BY <1>7, <2>1
    <3>2. IF "listed" \in DOMAIN c THEN c \in Dir!IndexContent ELSE c \in Dir!SegmentContent
      BY Shapes
    <3> QED BY <1>1, <2>1, <3>1, <3>2
  <2>2. CASE g # f
    <3>1. g \in DOMAIN Files(files) /\ Files(files)[g] = more[g]
      BY <1>1, <2>2 DEF Files
    <3> QED BY <3>1 DEF Archive, Dir!IsDirectory
  <2> QED BY <2>1, <2>2
<1> QED BY <1>4, <1>5, <1>6, <1>7 DEF Archive, Dir!IsDirectory, more

LEMMA FewerFits ==
    ASSUME NEW files, Archive(files), NEW F \in SUBSET DOMAIN files
    PROVE  Archive([g \in F |-> files[g]])
<1> DEFINE less == [g \in F |-> files[g]]
<1>1. Files(less) = [g \in F \ {Notes} |-> files[g]]
  BY DEF Files
<1>2. \A g \in F \ {Notes} : g \in DOMAIN Files(files) /\ Files(files)[g] = files[g]
  BY DEF Files
<1>3. Dir!IsDirectory(Files(less))
  BY <1>1, <1>2 DEF Archive, Dir!IsDirectory
<1>4. less \in [DOMAIN less -> Content]
  BY DEF Archive
<1> QED BY <1>3, <1>4 DEF Archive

LEMMA AttestingFits ==
    ASSUME NEW files, Archive(files), NEW f \in DOMAIN files
    PROVE  Attesting(f, files[f]) \in Entry
<1>1. f \in Dir!File \union {Notes} /\ files[f] \in Content
  BY ArchiveFits
<1>2. RecordsIn(f, files[f]) \in Int \union {Ill} /\ BytesIn(f, files[f]) \in Int
  <2>1. CASE f \in Dir!SegmentId
    <3>1. files[f].first \in Int /\ files[f].last \in Int
      BY <2>1, ArchiveFits, Shapes DEF Dir!SegmentContent
    <3>2. RecordsIn(f, files[f]) \in Int
      BY <2>1, <3>1 DEF RecordsIn, IsSegment
    <3> QED BY <2>1, <3>2 DEF BytesIn, IsSegment
  <2>2. CASE f \notin Dir!SegmentId
    BY <2>2 DEF RecordsIn, BytesIn, IsSegment
  <2> QED BY <2>1, <2>2
<1> DEFINE records == RecordsIn(f, files[f])
           bytes == BytesIn(f, files[f])
           content == files[f]
<1>3. Attesting(f, files[f]) = [name |-> f, sha256 |-> content, bytes |-> bytes, records |-> records]
  BY DEF Attesting
<1> HIDE DEF records, bytes, content
<1> QED BY <1>1, <1>2, <1>3 DEF Entry, records, bytes, content

\* A digest covers everything but itself.
LEMMA DigestCovers ==
    ASSUME NEW digests, NEW m \in ManifestWith(digests)
    PROVE  /\ Covered(m) \in ManifestWith({Ill}) /\ Digested(m) \in Manifest
           /\ Digested(m).digest = Covered(Digested(m))
           /\ Digested(m).version = m.version /\ Digested(m).indexFile = m.indexFile
           /\ Digested(m).files = m.files
           /\ Digested(m).totalBytes = m.totalBytes /\ Digested(m).totalRecords = m.totalRecords
<1> DEFINE All == Seq(Entry \union {Ill})
           Index == {Dir!IndexFile, Outside, Ill}
<1> HIDE DEF All, Index
<1>1. m \in [version : {1, 2}, digest : digests, indexFile : Index, files : All,
              totalBytes : Int, totalRecords : Int]
  BY DEF ManifestWith, All, Index
<1>2. Covered(m) \in ManifestWith({Ill})
  BY <1>1 DEF Covered, ManifestWith, All, Index
<1>3. Covered(Digested(m)) = Covered(m)
  BY <1>1 DEF Covered, Digested
<1>4. Digested(m) \in [version : {1, 2}, digest : {Covered(m)}, indexFile : Index, files : All,
                        totalBytes : Int, totalRecords : Int]
  <2> DEFINE cover == Covered(m)
  <2>1. Digested(m) = [m EXCEPT !.digest = cover]
    BY DEF Digested
  <2> HIDE DEF cover
  <2> QED BY <1>1, <2>1 DEF cover
<1>5. Digested(m) \in Manifest
  BY <1>2, <1>4 DEF Manifest, ManifestWith, All, Index
<1> QED BY <1>1, <1>2, <1>3, <1>4, <1>5 DEF Digested

-----------------------------------------------------------------------------
\* The entries of an export are those of its files, in their order.
EntriesOf(files, names) == [i \in DOMAIN names |-> Attesting(names[i], files[names[i]])]

LEMMA EntriesFit ==
    ASSUME NEW files, Archive(files), NEW names \in InOrder(DOMAIN files)
    PROVE  /\ EntriesOf(files, names) \in Seq(Entry \union {Ill})
           /\ DOMAIN EntriesOf(files, names) = DOMAIN names /\ DOMAIN names = 1..Len(EntriesOf(files, names))
           /\ \A i \in DOMAIN names : names[i] \in DOMAIN files
           /\ \A f \in DOMAIN files : \E i \in DOMAIN names : names[i] = f
<1>1. names \in [1..Cardinality(DOMAIN files) -> DOMAIN files]
      /\ \A f \in DOMAIN files : \E i \in DOMAIN names : names[i] = f
  BY DEF InOrder
<1>2. Cardinality(DOMAIN files) \in Nat
  <2>1. IsFiniteSet(Dir!File \union {Notes})
    <3>1. IsFiniteSet(Dir!File)
      BY Shapes, FS_Interval DEF Dir!File, Dir!IndexFile
    <3>2. IsFiniteSet({Notes})
      BY FS_Singleton
    <3> QED BY <3>1, <3>2, FS_Union
  <2>2. DOMAIN files \in SUBSET (Dir!File \union {Notes})
    BY ArchiveFits
  <2>3. IsFiniteSet(DOMAIN files)
    BY <2>1, <2>2, FS_Subset
  <2> QED BY <2>3, FS_CardinalityType
<1> DEFINE n == Cardinality(DOMAIN files)
           entries == EntriesOf(files, names)
           Said == Entry \union {Ill}
<1>3. \A i \in 1..n : names[i] \in DOMAIN files /\ Attesting(names[i], files[names[i]]) \in Said
  BY <1>1, AttestingFits
<1>4. entries = [i \in 1..n |-> Attesting(names[i], files[names[i]])] /\ DOMAIN names = 1..n
  BY <1>1 DEF EntriesOf
<1> HIDE DEF n, Said, entries
<1>5. entries \in Seq(Said) /\ Len(entries) = n
  BY <1>2, <1>3, <1>4 DEF n
<1> QED BY <1>1, <1>3, <1>4, <1>5 DEF Said, n, entries

LEMMA ExportAttests ==
    ASSUME NEW files, Archive(files), NEW names \in InOrder(DOMAIN files), NEW index \in {Dir!IndexFile, Ill}
    PROVE  LET m == BuildManifest(files, index, names)
           IN  /\ m \in Manifest /\ m.digest = Covered(m) /\ m.version = 2 /\ m.indexFile = index
               /\ m.files = EntriesOf(files, names)
               /\ m.totalBytes = IntegerTotal(m.files, "bytes")
               /\ m.totalRecords = IntegerTotal(m.files, "records")
<1> DEFINE entries == EntriesOf(files, names)
           bytes == IntegerTotal(entries, "bytes")
           records == IntegerTotal(entries, "records")
           bare == [version |-> 2, digest |-> Ill, indexFile |-> index, files |-> entries,
                    totalBytes |-> bytes, totalRecords |-> records]
<1>1. entries \in Seq(Entry \union {Ill})
  BY EntriesFit
<1>2. BuildManifest(files, index, names) = Digested(bare)
  BY Zenon DEF BuildManifest, EntriesOf
<1>3. bytes \in Int /\ records \in Int
  BY <1>1, TotalIs
<1> HIDE DEF entries, bytes, records
<1>4. bare \in ManifestWith({Ill})
  <2> DEFINE All == Seq(Entry \union {Ill})
             Index == {Dir!IndexFile, Outside, Ill}
  <2>1. entries \in All /\ index \in Index
    BY <1>1
  <2> HIDE DEF All, Index
  <2>2. bare \in [version : {1, 2}, digest : {Ill}, indexFile : Index, files : All,
                  totalBytes : Int, totalRecords : Int]
    BY <1>3, <2>1
  <2> HIDE DEF bare
  <2> QED BY <2>2 DEF ManifestWith, All, Index
<1>5. /\ bare.version = 2 /\ bare.indexFile = index /\ bare.files = entries
      /\ bare.totalBytes = bytes /\ bare.totalRecords = records
  OBVIOUS
<1> HIDE DEF bare
<1>6. /\ Digested(bare) \in Manifest /\ Digested(bare).digest = Covered(Digested(bare))
      /\ Digested(bare).version = 2 /\ Digested(bare).indexFile = index /\ Digested(bare).files = entries
      /\ Digested(bare).totalBytes = bytes /\ Digested(bare).totalRecords = records
  BY <1>4, <1>5, DigestCovers
<1> QED BY <1>2, <1>6 DEF entries, bytes, records

LEMMA ArchiveStarts == ArchiveInit => ArchiveInv
<1> SUFFICES ASSUME ArchiveInit PROVE ArchiveInv
  OBVIOUS
<1> DEFINE index == IF Dir!IndexFile \in DOMAIN copies THEN Dir!IndexFile ELSE Ill
<1>1. copies \in Exported /\ original = [copies |-> copies, manifest |-> attestation] /\ sealed = TRUE
  BY DEF ArchiveInit
<1>2. PICK names \in InOrder(DOMAIN copies) : attestation = BuildManifest(copies, index, names)
  BY DEF ArchiveInit
<1>3. Archive(copies)
  BY <1>1, ExportFits
<1>4. index \in {Dir!IndexFile, Ill}
  OBVIOUS
<1>5. attestation \in Manifest
  BY <1>2, <1>3, <1>4, ExportAttests
<1>6. original.copies = copies /\ original.manifest = attestation
  BY <1>1
<1> QED BY <1>1, <1>2, <1>3, <1>5, <1>6 DEF ArchiveInv, Archive

\* Damage that leaves an archive of the same shape, and a manifest with the same digest.
LEMMA DamageKeeps ==
    ASSUME ArchiveInv, NEW c, NEW m, Damage(c, m), Archive(c), m \in Manifest \union {Ill},
           sealed /\ m # Ill => m.digest = original.manifest.digest
    PROVE  ArchiveInv'
<1>1. copies' = c /\ attestation' = m /\ original' = original /\ sealed' = sealed
  BY DEF Damage
<1>2. Archive(copies)'
  BY <1>1
<1> QED BY <1>1, <1>2 DEF ArchiveInv, Archive

LEMMA DamageFileKeeps ==
    ASSUME ArchiveInv, DamageFile
    PROVE  ArchiveInv'
<1>1. /\ Archive(copies) /\ attestation \in Manifest \union {Ill}
      /\ (sealed /\ attestation # Ill => attestation.digest = original.manifest.digest)
      /\ original.copies \in Exported
  BY DEF ArchiveInv, Archive
<1>2. ASSUME NEW c, Damage(c, attestation), Archive(c) PROVE ArchiveInv'
  BY <1>1, <1>2, DamageKeeps
<1>3. Damaged \subseteq Content
  BY ArchiveAssumption
<1>4. ASSUME NEW f \in DOMAIN copies, NEW c \in Damaged, (f = Dir!IndexFile) = ("listed" \in DOMAIN c)
      PROVE  Archive([copies EXCEPT ![f] = c])
  <2>1. [copies EXCEPT ![f] = c] = Dir!Put(copies, f, c)
    <3>1. copies \in [DOMAIN copies -> Content] /\ DOMAIN copies \union {f} = DOMAIN copies
      BY <1>1 DEF Archive
    <3> QED BY <3>1 DEF Dir!Put
  <2>2. f \in Dir!File \union {Notes}
    BY <1>1, ArchiveFits
  <2>3. Archive(Dir!Put(copies, f, c))
    BY <1>1, <1>3, <1>4, <2>2, ReplacedFits
  <2> QED BY <2>1, <2>3, Zenon
<1>5. ASSUME NEW f \in Dir!File, NEW c \in Damaged, (f = Dir!IndexFile) = ("listed" \in DOMAIN c)
      PROVE  Archive(Dir!Put(copies, f, c))
  BY <1>1, <1>3, <1>5, ReplacedFits
<1>6. ASSUME NEW f \in DOMAIN copies PROVE Archive([g \in DOMAIN copies \ {f} |-> copies[g]])
  <2>1. DOMAIN copies \ {f} \in SUBSET DOMAIN copies
    OBVIOUS
  <2> QED BY <1>1, <2>1, FewerFits
<1>7. ASSUME NEW f \in DOMAIN original.copies PROVE Archive(Dir!Put(copies, f, original.copies[f]))
  <2>1. Dir!IsDirectory(original.copies) /\ Archive(original.copies)
    BY <1>1, ExportFits
  <2>2. f \in Dir!File /\ original.copies[f] \in Content
        /\ original.copies[f] \in IF f = Dir!IndexFile THEN Dir!IndexContent ELSE Dir!SegmentContent
    BY <2>1, ArchiveFits DEF Dir!IsDirectory
  <2>3. (f = Dir!IndexFile) = ("listed" \in DOMAIN original.copies[f])
    <3>1. CASE f = Dir!IndexFile
      BY <2>2, <3>1 DEF Dir!IndexContent
    <3>2. CASE f # Dir!IndexFile
      BY <2>2, <3>2 DEF Dir!SegmentContent
    <3> QED BY <3>1, <3>2
  <2> QED BY <1>1, <2>2, <2>3, ReplacedFits
<1>8. ASSUME NEW c \in Damaged PROVE Archive(Dir!Put(copies, Notes, c))
  BY <1>1, <1>3, ReplacedFits
<1> QED BY <1>2, <1>4, <1>5, <1>6, <1>7, <1>8 DEF DamageFile

\* An entry is edited in place.
LEMMA PutEntry ==
    ASSUME NEW m \in Manifest, NEW entries \in Seq(Entry \union {Ill})
    PROVE  /\ [m EXCEPT !.files = entries] \in Manifest
           /\ [m EXCEPT !.files = entries].digest = m.digest
<1> DEFINE All == Seq(Entry \union {Ill})
           Index == {Dir!IndexFile, Outside, Ill}
           Digest_ == ManifestWith({Ill})
           new == [m EXCEPT !.files = entries]
<1>1. Manifest = [version : {1, 2}, digest : Digest_, indexFile : Index, files : All,
                  totalBytes : Int, totalRecords : Int]
  BY DEF Manifest, ManifestWith
<1>2. entries \in All
  OBVIOUS
<1> HIDE DEF All, Index, Digest_
<1>3. new \in [version : {1, 2}, digest : Digest_, indexFile : Index, files : All,
                totalBytes : Int, totalRecords : Int] /\ new.digest = m.digest
  BY <1>1, <1>2
<1> QED BY <1>1, <1>3

LEMMA EntryEdits ==
    ASSUME NEW entry \in Entry
    PROVE  /\ \A f \in {"bytes", "records", "name"} : [entry EXCEPT ![f] = Ill] \in Entry
           /\ [entry EXCEPT !.name = Outside] \in Entry /\ [entry EXCEPT !.bytes = -1] \in Entry
  BY DEF Entry

LEMMA EditEntryKeeps ==
    ASSUME ArchiveInv, EditEntry
    PROVE  ArchiveInv'
<1> DEFINE files == attestation.files
           Said == Entry \union {Ill}
<1>1. /\ Archive(copies) /\ attestation \in Manifest /\ attestation # Ill
      /\ (sealed => attestation.digest = original.manifest.digest)
  BY DEF ArchiveInv, Archive, EditEntry
<1>2. files \in Seq(Said)
  BY <1>1 DEF Manifest, ManifestWith
<1>3. ASSUME NEW entries \in Seq(Said), Damage(copies, [attestation EXCEPT !.files = entries])
      PROVE  ArchiveInv'
  <2>1. /\ [attestation EXCEPT !.files = entries] \in Manifest
        /\ [attestation EXCEPT !.files = entries].digest = attestation.digest
    BY <1>1, PutEntry
  <2> QED BY <1>1, <1>3, <2>1, DamageKeeps
<1>4. PICK i \in DOMAIN files :
        LET entry == files[i]
            Rewritten(e) == Damage(copies, [attestation EXCEPT !.files[i] = e])
        IN  \/ Damage(copies, [attestation EXCEPT !.files = RemoveAt(@, i)])
            \/ Damage(copies, [attestation EXCEPT !.files = Append(@, entry)])
            \/ Rewritten(Ill)
            \/ /\ entry # Ill
               /\ \/ \E f \in {"bytes", "records", "name"} : Rewritten([entry EXCEPT ![f] = Ill])
                  \/ Rewritten([entry EXCEPT !.name = Outside])
                  \/ Rewritten([entry EXCEPT !.bytes = -1])
                  \/ /\ entry.name \in DOMAIN copies
                     /\ Rewritten(Attesting(entry.name, copies[entry.name]))
  BY DEF EditEntry
<1> DEFINE entry == files[i]
<1>5. entry \in Said /\ i \in 1..Len(files) /\ Len(files) \in Nat
  <2> HIDE DEF Said
  <2> QED BY <1>2
<1>6. ASSUME NEW e \in Said, Damage(copies, [attestation EXCEPT !.files[i] = e])
      PROVE  ArchiveInv'
  <2> DEFINE entries == [files EXCEPT ![i] = e]
  <2>1. entries \in Seq(Said)
    <3> HIDE DEF Said, files
    <3> QED BY <1>2, <1>6
  <2>2. [attestation EXCEPT !.files[i] = e] = [attestation EXCEPT !.files = entries]
    OBVIOUS
  <2>3. Damage(copies, [attestation EXCEPT !.files = entries])
    BY <1>6, <2>2, Zenon
  <2> HIDE DEF entries
  <2> QED BY <1>3, <2>1, <2>3
<1>7. CASE Damage(copies, [attestation EXCEPT !.files = RemoveAt(@, i)])
  <2>1. RemoveAt(files, i) \in Seq(Said)
    <3> HIDE DEF Said, files
    <3> QED BY <1>2, <1>5 DEF RemoveAt
  <2>2. Damage(copies, [attestation EXCEPT !.files = RemoveAt(files, i)])
    BY <1>7
  <2> QED BY <1>3, <2>1, <2>2
<1>8. CASE Damage(copies, [attestation EXCEPT !.files = Append(@, entry)])
  <2>1. Append(files, entry) \in Seq(Said)
    <3> HIDE DEF Said, files
    <3> QED BY <1>2, <1>5
  <2>2. Damage(copies, [attestation EXCEPT !.files = Append(files, entry)])
    BY <1>8
  <2> QED BY <1>3, <2>1, <2>2
<1>9. CASE Damage(copies, [attestation EXCEPT !.files[i] = Ill])
  BY <1>6, <1>9
<1>10. ASSUME entry # Ill PROVE entry \in Entry
  BY <1>5, <1>10
<1>11. ASSUME entry # Ill, NEW f \in {"bytes", "records", "name"},
              Damage(copies, [attestation EXCEPT !.files[i] = [entry EXCEPT ![f] = Ill]])
       PROVE  ArchiveInv'
  <2>1. [entry EXCEPT ![f] = Ill] \in Said
    BY <1>10, <1>11, EntryEdits
  <2> QED BY <1>6, <1>11, <2>1
<1>12. ASSUME entry # Ill, Damage(copies, [attestation EXCEPT !.files[i] = [entry EXCEPT !.name = Outside]])
       PROVE  ArchiveInv'
  <2>1. [entry EXCEPT !.name = Outside] \in Said
    BY <1>10, <1>12, EntryEdits
  <2> QED BY <1>6, <1>12, <2>1
<1>13. ASSUME entry # Ill, Damage(copies, [attestation EXCEPT !.files[i] = [entry EXCEPT !.bytes = -1]])
       PROVE  ArchiveInv'
  <2>1. [entry EXCEPT !.bytes = -1] \in Said
    BY <1>10, <1>13, EntryEdits
  <2> QED BY <1>6, <1>13, <2>1
<1>14. ASSUME entry.name \in DOMAIN copies,
              Damage(copies, [attestation EXCEPT !.files[i] = Attesting(entry.name, copies[entry.name])])
       PROVE  ArchiveInv'
  <2>1. Attesting(entry.name, copies[entry.name]) \in Said
    BY <1>1, <1>14, AttestingFits
  <2> QED BY <1>6, <1>14, <2>1
<1> QED BY <1>4, <1>7, <1>8, <1>9, <1>11, <1>12, <1>13, <1>14

LEMMA EditAttestationKeeps ==
    ASSUME ArchiveInv, EditAttestation
    PROVE  ArchiveInv'
<1>1. /\ Archive(copies) /\ attestation \in Manifest \union {Ill} /\ original.manifest \in Manifest
      /\ (sealed /\ attestation # Ill => attestation.digest = original.manifest.digest)
  BY DEF ArchiveInv, Archive
<1>2. ASSUME NEW m \in Manifest, Damage(copies, m), m.digest = attestation.digest, attestation # Ill
      PROVE  ArchiveInv'
  BY <1>1, <1>2, DamageKeeps
<1>3. CASE Damage(copies, Ill)
  BY <1>1, <1>3, DamageKeeps
<1>4. CASE Damage(copies, original.manifest)
  BY <1>1, <1>4, DamageKeeps
<1> DEFINE All == Seq(Entry \union {Ill})
           Index == {Dir!IndexFile, Outside, Ill}
           Digest_ == ManifestWith({Ill})
<1>5. Manifest = [version : {1, 2}, digest : Digest_, indexFile : Index, files : All,
                  totalBytes : Int, totalRecords : Int]
  BY DEF Manifest, ManifestWith
<1>6. ASSUME attestation # Ill, Damage(copies, [attestation EXCEPT !.version = 1])
      PROVE  ArchiveInv'
  <2> HIDE DEF All, Index, Digest_
  <2>1. [attestation EXCEPT !.version = 1] \in Manifest
        /\ [attestation EXCEPT !.version = 1].digest = attestation.digest
    BY <1>1, <1>5, <1>6
  <2> QED BY <1>2, <1>6, <2>1
<1>7. ASSUME attestation # Ill, NEW index \in {Ill, Outside, Dir!IndexFile},
             Damage(copies, [attestation EXCEPT !.indexFile = index])
      PROVE  ArchiveInv'
  <2>0. index \in Index
    OBVIOUS
  <2> HIDE DEF All, Index, Digest_
  <2>1. [attestation EXCEPT !.indexFile = index] \in Manifest
        /\ [attestation EXCEPT !.indexFile = index].digest = attestation.digest
    BY <1>1, <1>5, <1>7, <2>0
  <2> QED BY <1>2, <1>7, <2>1
<1> DEFINE bytes == IntegerTotal(attestation.files, "bytes")
           records == IntegerTotal(attestation.files, "records")
<1>8. ASSUME attestation # Ill,
             Damage(copies, [attestation EXCEPT !.totalBytes = bytes, !.totalRecords = records])
      PROVE  ArchiveInv'
  <2>0. bytes \in Int /\ records \in Int
    <3>1. attestation.files \in Seq(Entry \union {Ill})
      BY <1>1, <1>8 DEF Manifest, ManifestWith
    <3> QED BY <3>1, TotalIs
  <2> HIDE DEF All, Index, Digest_, bytes, records
  <2>1. [attestation EXCEPT !.totalBytes = bytes, !.totalRecords = records] \in Manifest
        /\ [attestation EXCEPT !.totalBytes = bytes, !.totalRecords = records].digest = attestation.digest
    BY <1>1, <1>5, <1>8, <2>0
  <2> QED BY <1>2, <1>8, <2>1
<1> QED BY <1>3, <1>4, <1>6, <1>7, <1>8 DEF EditAttestation

LEMMA ForgeKeeps ==
    ASSUME ArchiveInv, Forge
    PROVE  ArchiveInv'
<1>1. attestation \in Manifest /\ attestation' = Digested(attestation) /\ sealed' = FALSE
      /\ UNCHANGED <<copies, original>>
  BY DEF ArchiveInv, Forge
<1>2. attestation' \in Manifest
  <2>1. attestation \in ManifestWith(ManifestWith({Ill}))
    BY <1>1 DEF Manifest
  <2> QED BY <1>1, <2>1, DigestCovers
<1>3. Dir!IsDirectory(Files(copies))'
  BY <1>1 DEF ArchiveInv, Files
<1> QED BY <1>1, <1>2, <1>3 DEF ArchiveInv

LEMMA ArchiveInductive ==
    ASSUME ArchiveInv, [ArchiveNext]_archiveVars
    PROVE  ArchiveInv'
<1>1. CASE UNCHANGED archiveVars
  <2>1. UNCHANGED <<copies, attestation, original, sealed>>
    BY <1>1 DEF archiveVars
  <2>2. Files(copies)' = Files(copies)
    BY <2>1 DEF Files
  <2> QED BY <2>1, <2>2 DEF ArchiveInv
<1> QED BY <1>1, DamageFileKeeps, EditEntryKeeps, EditAttestationKeeps, ForgeKeeps DEF ArchiveNext

\* What verify() accepts of an entry: the file it names is there, as it says.
Answers(entry) ==
    /\ entry \in Entry /\ entry.name \in DOMAIN copies
    /\ entry.sha256 = copies[entry.name]
    /\ entry.records = Ill \/ entry.records = RecordsIn(entry.name, copies[entry.name])

LEMMA AcceptedEntry ==
    ASSUME NEW entry \in Entry \union {Ill}, EntryErrors(entry) = {}
    PROVE  Answers(entry)
<1>1. entry # Ill /\ entry \in Entry /\ MemberErrors(entry) = {}
  <2>1. EntryNameOK(entry) /\ EntryErrors(entry) = MemberErrors(entry)
    BY DEF EntryErrors
  <2> QED BY <2>1 DEF EntryNameOK
<1>2. entry.name \in DOMAIN copies
  BY <1>1 DEF MemberErrors
<1> DEFINE content == copies[entry.name]
           sha256 == entry.sha256 # content
           bytes == entry.sha256 = content /\ entry.bytes # BytesIn(entry.name, content)
           records == entry.sha256 = content /\ entry.records # Ill /\ entry.records # RecordsIn(entry.name, content)
           rules == [sha256 |-> sha256, bytes |-> bytes, records |-> records]
<1>3. Broken(rules) = {}
  BY <1>1, <1>2, Zenon DEF MemberErrors
<1>4. rules.sha256 = sha256 /\ rules.records = records /\ "sha256" \in DOMAIN rules /\ "records" \in DOMAIN rules
  BY Zenon
<1>5. ~rules.sha256 /\ ~rules.records
  <2> HIDE DEF rules
  <2> QED BY <1>3, <1>4, NotBroken, Zenon
<1>6. ~sha256 /\ ~records
  BY <1>4, <1>5, Zenon
<1> QED BY <1>1, <1>2, <1>6 DEF Answers

LEMMA AcceptedArchive ==
    ASSUME ArchiveInv, VerifyErrors = {}
    PROVE  /\ attestation \in Manifest /\ attestation # Ill
           /\ attestation.files \in Seq(Entry \union {Ill}) /\ attestation.files # <<>>
           /\ attestation.digest = Covered(attestation)
           /\ \A entry \in Range(attestation.files) : Answers(entry)
           /\ ArchiveFiles \subseteq Listed(attestation)
           /\ Dir!ChainOK(Files(copies))
           /\ attestation.totalRecords = IntegerTotal(attestation.files, "records")
<1> DEFINE m == attestation
<1>1. m # Ill /\ m \in Manifest
  BY DEF VerifyErrors, ArchiveInv
<1>2. AttestationErrors(m) = {}
  BY <1>1 DEF VerifyErrors
<1>3. m.digest = Covered(m) /\ m.files # <<>>
  <2> DEFINE version == m.version # 2
             digest == m.digest # Covered(m)
             files == m.files = <<>>
             outside == m.indexFile = Outside
             rules == [version |-> version, digest |-> digest, files |-> files, indexFile |-> outside]
  <2>1. Broken(rules) = {}
    BY <1>2, Zenon DEF AttestationErrors
  <2>2. rules.digest = digest /\ rules.files = files /\ "digest" \in DOMAIN rules /\ "files" \in DOMAIN rules
    BY Zenon
  <2>3. ~rules.digest /\ ~rules.files
    <3> HIDE DEF rules
    <3> QED BY <2>1, <2>2, NotBroken, Zenon
  <2> QED BY <2>2, <2>3, Zenon
<1> DEFINE unlisted == ~(ArchiveFiles \subseteq Listed(m))
           totalBytes == m.totalBytes # IntegerTotal(m.files, "bytes")
           totalRecords == m.totalRecords # IntegerTotal(m.files, "records")
           totals == [unlisted |-> unlisted, totalBytes |-> totalBytes, totalRecords |-> totalRecords]
<1>4. /\ (UNION {EntryErrors(entry) : entry \in Range(m.files)}) = {}
      /\ ChainErrors = {} /\ Broken(totals) = {}
  <2>1. VerifyErrors = (UNION {EntryErrors(entry) : entry \in Range(m.files)}) \union ChainErrors \union Broken(totals)
    BY <1>1, <1>2, Zenon DEF VerifyErrors
  <2> HIDE DEF totals
  <2> QED BY <2>1
<1>5. m.files \in Seq(Entry \union {Ill})
  BY <1>1 DEF Manifest, ManifestWith
<1>6. ASSUME NEW entry \in Range(m.files) PROVE Answers(entry)
  <2>1. EntryErrors(entry) = {}
    BY <1>4
  <2>2. entry \in Entry \union {Ill}
    <3> DEFINE Said == Entry \union {Ill}
               files == m.files
    <3>1. files \in Seq(Said) /\ entry \in Range(files)
      BY <1>5
    <3> HIDE DEF Said, files
    <3>2. entry \in Said
      BY <3>1 DEF Range
    <3> QED BY <3>2 DEF Said
  <2> QED BY <2>1, <2>2, AcceptedEntry
<1>7. Dir!ChainOK(Files(copies))
  <2> DEFINE chain == ~Dir!ChainOK(Files(copies))
             rules == [chain |-> chain]
  <2>1. Broken(rules) = {}
    BY <1>4, Zenon DEF ChainErrors
  <2>2. rules.chain = chain /\ "chain" \in DOMAIN rules
    BY Zenon
  <2>3. ~rules.chain
    <3> HIDE DEF rules
    <3> QED BY <2>1, <2>2, NotBroken, Zenon
  <2> QED BY <2>2, <2>3, Zenon
<1>8. ~unlisted /\ ~totalRecords
  <2>1. /\ totals.unlisted = unlisted /\ totals.totalRecords = totalRecords
        /\ "unlisted" \in DOMAIN totals /\ "totalRecords" \in DOMAIN totals
    BY Zenon
  <2>2. ~totals.unlisted /\ ~totals.totalRecords
    <3> HIDE DEF totals
    <3> QED BY <1>4, <2>1, NotBroken, Zenon
  <2> QED BY <2>1, <2>2, Zenon
<1> QED BY <1>1, <1>3, <1>5, <1>6, <1>7, <1>8

\* An accepted archive: its entries are those of its files, and no others.
LEMMA AcceptedFiles ==
    ASSUME ArchiveInv, VerifyErrors = {}
    PROVE  /\ Listed(attestation) \subseteq DOMAIN copies
           /\ Listed(attestation) \ {Notes} = DOMAIN Files(copies)
           /\ \A entry \in Range(attestation.files) : entry.name \in Listed(attestation) /\ entry.sha256 = copies[entry.name]
           /\ \A f \in Listed(attestation) : \E entry \in Range(attestation.files) : entry.name = f
           /\ Listed(attestation) = {entry.name : entry \in Range(attestation.files)}
<1>1. \A entry \in Range(attestation.files) : Answers(entry)
  BY AcceptedArchive
<1>2. \A entry \in Range(attestation.files) : entry # Ill
  BY <1>1, ArchiveAssumption DEF Answers
<1>3. Listed(attestation) = {entry.name : entry \in Range(attestation.files)}
  BY <1>2 DEF Listed
<1>4. DOMAIN copies \ {Notes} \subseteq Listed(attestation)
  BY AcceptedArchive DEF ArchiveFiles
<1>5. DOMAIN Files(copies) = DOMAIN copies \ {Notes}
  BY DEF Files
<1>6. \A entry \in Range(attestation.files) : entry.name \in DOMAIN copies /\ entry.sha256 = copies[entry.name]
  BY <1>1 DEF Answers
<1> QED BY <1>3, <1>4, <1>5, <1>6

LEMMA AcceptedIsListed ==
    ASSUME ArchiveInv, VerifyErrors = {}
    PROVE  Dir!Verified([attested |-> TRUE, files |-> Files(copies),
                manifest |-> [f \in Listed(attestation) \ {Notes} |->
                    (CHOOSE e \in Range(attestation.files) : e.name = f).sha256]])
<1> DEFINE manifest == [f \in Listed(attestation) \ {Notes} |->
                    (CHOOSE e \in Range(attestation.files) : e.name = f).sha256]
           files == Files(copies)
           said == [attested |-> TRUE, files |-> files, manifest |-> manifest]
<1>1. ASSUME NEW f \in Listed(attestation) \ {Notes}
      PROVE  (CHOOSE e \in Range(attestation.files) : e.name = f).sha256 = copies[f]
  <2>1. \E e \in Range(attestation.files) : e.name = f
    BY AcceptedFiles
  <2> DEFINE e == CHOOSE x \in Range(attestation.files) : x.name = f
  <2>2. e \in Range(attestation.files) /\ e.name = f
    BY <2>1
  <2> HIDE DEF e
  <2>3. e.sha256 = copies[f]
    BY <2>2, AcceptedFiles
  <2> QED BY <2>3 DEF e
<1>2. manifest = [f \in Listed(attestation) \ {Notes} |-> copies[f]]
  BY <1>1
<1>3. files = [f \in DOMAIN copies \ {Notes} |-> copies[f]] /\ DOMAIN copies \ {Notes} = Listed(attestation) \ {Notes}
  BY AcceptedFiles DEF Files
<1>4. manifest = files
  BY <1>2, <1>3
<1>5. Dir!ChainOK(files)
  BY AcceptedArchive
<1> HIDE DEF manifest, files
<1>6. said.attested /\ said.manifest = said.files /\ Dir!ChainOK(said.files)
  BY <1>4, <1>5
<1> HIDE DEF said
<1>7. Dir!Verified(said)
  BY <1>6 DEF Dir!Verified
<1> QED BY <1>7 DEF said, manifest, files

LEMMA NothingBroken ==
    ASSUME NEW rules, \A rule \in DOMAIN rules : ~rules[rule]
    PROVE  Broken(rules) = {}
  BY DEF Broken

\* The archive as exported: its manifest lists its files.
LEMMA AsExported ==
    ASSUME ArchiveInv
    PROVE  /\ original.manifest \in Manifest /\ original.manifest # Ill
           /\ original.manifest.digest = Covered(original.manifest)
           /\ original.manifest.version = 2 /\ original.manifest.indexFile # Outside
           /\ original.manifest.files # <<>>
           /\ original.manifest.totalBytes = IntegerTotal(original.manifest.files, "bytes")
           /\ original.manifest.totalRecords = IntegerTotal(original.manifest.files, "records")
           /\ DOMAIN original.copies \subseteq Dir!File
           /\ original.copies = [f \in DOMAIN original.copies |-> original.copies[f]]
           /\ \A e \in Range(original.manifest.files) :
                e \in Entry /\ \E f \in DOMAIN original.copies : e = Attesting(f, original.copies[f])
           /\ \A f \in DOMAIN original.copies : \E e \in Range(original.manifest.files) : e = Attesting(f, original.copies[f])
<1> DEFINE files == original.copies
           index == IF Dir!IndexFile \in DOMAIN files THEN Dir!IndexFile ELSE Ill
           m == original.manifest
<1>1. files \in Exported /\ m \in Manifest
  BY DEF ArchiveInv
<1>2. PICK names \in InOrder(DOMAIN files) : m = BuildManifest(files, index, names)
  BY DEF ArchiveInv
<1>3. Archive(files) /\ Files(files) = files /\ Dir!IsDirectory(files) /\ Dir!ChainOK(files)
  BY <1>1, ExportFits
<1>4. index \in {Dir!IndexFile, Ill} /\ index # Outside
  BY ArchiveAssumption, Shapes
<1> HIDE DEF index
<1>5. /\ m.digest = Covered(m) /\ m.version = 2 /\ m.indexFile = index
      /\ m.files = EntriesOf(files, names)
      /\ m.totalBytes = IntegerTotal(m.files, "bytes") /\ m.totalRecords = IntegerTotal(m.files, "records")
  BY <1>2, <1>3, <1>4, ExportAttests
<1>6. m # Ill
  BY <1>1, ArchiveAssumption
<1>7. /\ DOMAIN m.files = DOMAIN names
      /\ \A i \in DOMAIN names : names[i] \in DOMAIN files /\ m.files[i] = Attesting(names[i], files[names[i]])
      /\ \A f \in DOMAIN files : \E i \in DOMAIN names : names[i] = f
  BY <1>3, <1>5, EntriesFit DEF EntriesOf
<1>8. ASSUME NEW e \in Range(m.files)
      PROVE  e \in Entry /\ \E f \in DOMAIN files : e = Attesting(f, files[f])
  <2>1. PICK i \in DOMAIN m.files : e = m.files[i]
    BY DEF Range
  <2>2. names[i] \in DOMAIN files /\ e = Attesting(names[i], files[names[i]])
    BY <1>7, <2>1
  <2> QED BY <1>3, <2>2, AttestingFits
<1>9. ASSUME NEW f \in DOMAIN files
      PROVE  \E e \in Range(m.files) : e = Attesting(f, files[f])
  BY <1>7 DEF Range
<1>10. m.files # <<>>
  <2>1. PICK s \in DOMAIN files : TRUE
    BY <1>3 DEF Dir!ChainOK, Dir!Segments
  <2>2. PICK e \in Range(m.files) : TRUE
    BY <1>9
  <2>3. PICK i \in DOMAIN m.files : TRUE
    BY <2>2 DEF Range
  <2> QED BY <2>3
<1>11. DOMAIN files \subseteq Dir!File
  BY <1>3 DEF Dir!IsDirectory
<1>12. files = [f \in DOMAIN files |-> files[f]]
  BY <1>3 DEF Archive
<1> QED BY <1>1, <1>4, <1>5, <1>6, <1>8, <1>9, <1>10, <1>11, <1>12

\* Two manifests with one digest are one manifest.
LEMMA SameDigest ==
    ASSUME NEW m \in Manifest, NEW o \in Manifest,
           m.digest = Covered(m), o.digest = Covered(o), m.digest = o.digest
    PROVE  m = o
<1> DEFINE All == Seq(Entry \union {Ill})
           Index == {Dir!IndexFile, Outside, Ill}
           Digest_ == ManifestWith({Ill})
<1>1. Manifest = [version : {1, 2}, digest : Digest_, indexFile : Index, files : All,
                  totalBytes : Int, totalRecords : Int]
  BY DEF Manifest, ManifestWith
<1> HIDE DEF All, Index, Digest_
<1>2. Covered(m) = Covered(o)
  OBVIOUS
<1>3. /\ Covered(m).version = m.version /\ Covered(m).indexFile = m.indexFile /\ Covered(m).files = m.files
      /\ Covered(m).totalBytes = m.totalBytes /\ Covered(m).totalRecords = m.totalRecords
  BY <1>1 DEF Covered
<1>4. /\ Covered(o).version = o.version /\ Covered(o).indexFile = o.indexFile /\ Covered(o).files = o.files
      /\ Covered(o).totalBytes = o.totalBytes /\ Covered(o).totalRecords = o.totalRecords
  BY <1>1 DEF Covered
<1>5. /\ m.version = o.version /\ m.digest = o.digest /\ m.indexFile = o.indexFile /\ m.files = o.files
      /\ m.totalBytes = o.totalBytes /\ m.totalRecords = o.totalRecords
  BY <1>2, <1>3, <1>4
<1> QED BY <1>1, <1>5

\* What is accepted under the digest of the export is the export.
LEMMA AcceptedIsExport ==
    ASSUME ArchiveInv, sealed, VerifyErrors = {}
    PROVE  Files(copies) = original.copies /\ attestation = original.manifest
<1>1. attestation.digest = original.manifest.digest
  BY AcceptedArchive DEF ArchiveInv
<1>2. attestation = original.manifest
  BY <1>1, AcceptedArchive, AsExported, SameDigest
<1>3. ASSUME NEW f \in DOMAIN original.copies
      PROVE  f \in Listed(attestation) \ {Notes} /\ copies[f] = original.copies[f]
  <2>1. PICK e \in Range(attestation.files) : e = Attesting(f, original.copies[f])
    BY <1>2, AsExported
  <2>2. e.name = f /\ e.sha256 = original.copies[f]
    BY <2>1 DEF Attesting
  <2>3. f # Notes
    BY AsExported, Shapes
  <2> QED BY <2>1, <2>2, <2>3, AcceptedFiles
<1>4. Listed(attestation) \subseteq DOMAIN original.copies
  <2> SUFFICES ASSUME NEW f \in Listed(attestation) PROVE f \in DOMAIN original.copies
    OBVIOUS
  <2>1. PICK e \in Range(attestation.files) : e.name = f
    BY AcceptedFiles
  <2>2. PICK g \in DOMAIN original.copies : e = Attesting(g, original.copies[g])
    BY <1>2, <2>1, AsExported
  <2> QED BY <2>1, <2>2 DEF Attesting
<1>5. DOMAIN copies \ {Notes} = DOMAIN original.copies
  BY <1>3, <1>4, AcceptedFiles DEF Files
<1>6. Files(copies) = [f \in DOMAIN original.copies |-> original.copies[f]]
  BY <1>3, <1>5 DEF Files
<1> QED BY <1>2, <1>6, AsExported

\* The export is accepted.
LEMMA ExportIsAccepted ==
    ASSUME ArchiveInv, Files(copies) = original.copies, attestation = original.manifest
    PROVE  VerifyErrors = {}
<1> DEFINE m == attestation
<1>1. DOMAIN copies \ {Notes} = DOMAIN original.copies
      /\ \A f \in DOMAIN original.copies : copies[f] = original.copies[f]
  BY DEF Files
<1>2. AttestationErrors(m) = {}
  <2> DEFINE version == m.version # 2
             digest == m.digest # Covered(m)
             files == m.files = <<>>
             outside == m.indexFile = Outside
             rules == [version |-> version, digest |-> digest, files |-> files, indexFile |-> outside]
  <2>1. ~version /\ ~digest /\ ~files /\ ~outside
    BY AsExported
  <2>2. AttestationErrors(m) = Broken(rules)
    BY Zenon DEF AttestationErrors
  <2> HIDE DEF version, digest, files, outside
  <2>3. \A rule \in DOMAIN rules : ~rules[rule]
    BY <2>1
  <2> HIDE DEF rules
  <2> QED BY <2>2, <2>3, NothingBroken
<1>3. ASSUME NEW entry \in Range(m.files) PROVE EntryErrors(entry) = {}
  <2>1. PICK f \in DOMAIN original.copies : entry = Attesting(f, original.copies[f])
    BY AsExported
  <2> DEFINE content == copies[f]
             sha256 == entry.sha256 # content
             bytes == entry.sha256 = content /\ entry.bytes # BytesIn(entry.name, content)
             records == entry.sha256 = content /\ entry.records # Ill /\ entry.records # RecordsIn(entry.name, content)
             rules == [sha256 |-> sha256, bytes |-> bytes, records |-> records]
  <2>2. /\ entry.name = f /\ entry.sha256 = content /\ entry.bytes = BytesIn(f, content)
        /\ entry.records = RecordsIn(f, content)
    BY <1>1, <2>1 DEF Attesting
  <2>3. f \in Dir!File /\ f \in DOMAIN copies
    BY <1>1, AsExported
  <2>4. EntryNameOK(entry)
    <3>1. entry # Ill
      BY AsExported, ArchiveAssumption
    <3> QED BY <2>2, <2>3, <3>1, ArchiveAssumption DEF EntryNameOK
  <2>5. entry.bytes \in Int /\ entry.bytes >= 0
    <3>1. CASE f \in Dir!SegmentId
      <4>1. Dir!ChainOK(original.copies) /\ Archive(original.copies)
        BY ExportFits DEF ArchiveInv
      <4>2. original.copies[f] \in Dir!SegmentContent /\ original.copies[f].first <= original.copies[f].last
        BY <3>1, <4>1, ArchiveFits DEF Dir!ChainOK, Dir!Segments
      <4>3. content.first \in Int /\ content.last \in Int /\ content.first <= content.last
        BY <1>1, <4>2, Shapes DEF Dir!SegmentContent
      <4> HIDE DEF content
      <4>4. RecordsIn(f, content) \in Int /\ RecordsIn(f, content) >= 0
        BY <3>1, <4>3 DEF RecordsIn, IsSegment
      <4> QED BY <2>2, <3>1, <4>4 DEF BytesIn, IsSegment
    <3>2. CASE f \notin Dir!SegmentId
      BY <2>2, <3>2 DEF BytesIn, IsSegment
    <3> QED BY <3>1, <3>2
  <2>6. ~sha256 /\ ~bytes /\ ~records
    BY <2>2
  <2>7. EntryErrors(entry) = Broken(rules)
    <3>1. EntryErrors(entry) = MemberErrors(entry)
      BY <2>4, <2>5 DEF EntryErrors
    <3>2. entry.name \in DOMAIN copies /\ copies[entry.name] = content
      BY <2>2, <2>3
    <3> QED BY <2>2, <3>1, <3>2, Zenon DEF MemberErrors
  <2> HIDE DEF sha256, bytes, records
  <2>8. \A rule \in DOMAIN rules : ~rules[rule]
    BY <2>6
  <2> HIDE DEF rules
  <2> QED BY <2>7, <2>8, NothingBroken
<1>4. ChainErrors = {}
  <2> DEFINE chain == ~Dir!ChainOK(Files(copies))
             rules == [chain |-> chain]
  <2>1. ~chain
    BY ExportFits DEF ArchiveInv
  <2>2. ChainErrors = Broken(rules)
    BY Zenon DEF ChainErrors
  <2> HIDE DEF chain
  <2>3. \A rule \in DOMAIN rules : ~rules[rule]
    BY <2>1
  <2> HIDE DEF rules
  <2> QED BY <2>2, <2>3, NothingBroken
<1> DEFINE unlisted == ~(ArchiveFiles \subseteq Listed(m))
           totalBytes == m.totalBytes # IntegerTotal(m.files, "bytes")
           totalRecords == m.totalRecords # IntegerTotal(m.files, "records")
           totals == [unlisted |-> unlisted, totalBytes |-> totalBytes, totalRecords |-> totalRecords]
<1>5. Broken(totals) = {}
  <2>1. ~unlisted
    <3> SUFFICES ASSUME NEW f \in DOMAIN original.copies PROVE f \in Listed(m)
      BY <1>1 DEF ArchiveFiles
    <3>1. PICK e \in Range(m.files) : e = Attesting(f, original.copies[f])
      BY AsExported
    <3>2. e.name = f /\ e # Ill
      BY <3>1, AsExported, ArchiveAssumption DEF Attesting
    <3> QED BY <3>1, <3>2 DEF Listed
  <2>2. ~totalBytes /\ ~totalRecords
    BY AsExported
  <2> HIDE DEF unlisted, totalBytes, totalRecords
  <2>3. \A rule \in DOMAIN totals : ~totals[rule]
    BY <2>1, <2>2
  <2> HIDE DEF totals
  <2> QED BY <2>3, NothingBroken
<1>6. m # Ill
  BY AsExported
<1>7. VerifyErrors = (UNION {EntryErrors(entry) : entry \in Range(m.files)}) \union ChainErrors \union Broken(totals)
  BY <1>2, <1>6, Zenon DEF VerifyErrors
<1> HIDE DEF totals
<1> QED BY <1>3, <1>4, <1>5, <1>7

LEMMA DamageFound == ArchiveInv => DamageIsFound
  BY AcceptedIsExport, ExportIsAccepted DEF DamageIsFound

\* Disjoint parts have as many members as the numbers of their members add up to.
Counted(parts, numbers) ==
    /\ \A k \in DOMAIN numbers : IsFiniteSet(parts[k]) /\ Cardinality(parts[k]) = numbers[k]
    /\ \A j, k \in DOMAIN numbers : j # k => parts[j] \cap parts[k] = {}

LEMMA PartsAddUp ==
    ASSUME NEW numbers \in Seq(Int), NEW parts, NEW sum, Partial(numbers, Len(numbers), sum),
           Counted(parts, numbers)
    PROVE  sum[Len(numbers)] = Cardinality(UNION {parts[k] : k \in 1..Len(numbers)})
<1> DEFINE n == Len(numbers)
           Upto(k) == UNION {parts[j] : j \in 1..k}
           Fine(k) == IsFiniteSet(Upto(k)) /\ sum[k] = Cardinality(Upto(k))
           Odd == {k \in 0..n : ~Fine(k)}
<1>0. /\ n \in Nat
      /\ \A k \in 1..n : IsFiniteSet(parts[k]) /\ Cardinality(parts[k]) = numbers[k]
      /\ \A j, k \in 1..n : j # k => parts[j] \cap parts[k] = {}
  BY DEF Counted
<1>1. SUFFICES ASSUME Odd # {} PROVE FALSE
  <2>1. ASSUME Odd = {} PROVE Fine(n)
    <3> HIDE DEF Fine
    <3> QED BY <1>0, <2>1
  <2> QED BY <2>1
<1>2. PICK k \in Odd : \A j \in Odd : k <= j
  <2>1. Odd \in SUBSET Nat
    OBVIOUS
  <2> HIDE DEF Odd
  <2> QED BY <1>1, <2>1, LeastOf
<1>3. k # 0
  <2>1. Upto(0) = {}
    OBVIOUS
  <2>2. sum[0] = 0
    BY DEF Partial
  <2>3. Fine(0)
    BY <2>1, <2>2, FS_EmptySet
  <2> QED BY <1>2, <2>3
<1>4. k \in 1..n /\ k - 1 \in 0..n /\ k - 1 \notin Odd
  <2>1. k \in 0..n
    OBVIOUS
  <2>2. k - 1 \notin Odd
    <3> HIDE DEF Odd
    <3> QED BY <1>2, <2>1
  <2> QED BY <1>0, <1>3, <2>1, <2>2
<1>5. IsFiniteSet(Upto(k - 1)) /\ sum[k - 1] = Cardinality(Upto(k - 1))
  BY <1>4
<1>6. Upto(k) = Upto(k - 1) \union parts[k]
  <2>1. 1..k = (1..(k - 1)) \union {k}
    BY <1>4
  <2> QED BY <2>1
<1>7. Upto(k - 1) \cap parts[k] = {}
  <2>1. \A j \in 1..(k - 1) : parts[j] \cap parts[k] = {}
    BY <1>0, <1>4
  <2> QED BY <2>1
<1>8. IsFiniteSet(parts[k]) /\ Cardinality(parts[k]) = numbers[k] /\ sum[k] = sum[k - 1] + numbers[k]
  BY <1>0, <1>4 DEF Partial
<1> HIDE DEF Upto
<1>9. IsFiniteSet(Upto(k)) /\ Cardinality(Upto(k)) = Cardinality(Upto(k - 1)) + numbers[k]
  <2>1. /\ IsFiniteSet(Upto(k - 1) \union parts[k])
        /\ Cardinality(Upto(k - 1) \union parts[k])
            = Cardinality(Upto(k - 1)) + Cardinality(parts[k]) - Cardinality(Upto(k - 1) \cap parts[k])
    BY <1>5, <1>8, FS_Union
  <2>2. Cardinality(Upto(k - 1) \cap parts[k]) = 0
    BY <1>7, FS_EmptySet
  <2>3. Cardinality(Upto(k - 1)) \in Nat /\ numbers[k] \in Int
    BY <1>4, <1>5, FS_CardinalityType
  <2> QED BY <1>6, <1>8, <2>1, <2>2, <2>3
<1>10. Fine(k)
  BY <1>5, <1>8, <1>9
<1> QED BY <1>2, <1>10

LEMMA Interval ==
    ASSUME NEW a \in Int, NEW b \in Int, a <= b
    PROVE  IsFiniteSet(a..b) /\ Cardinality(a..b) = b - a + 1
<1>1. IsFiniteSet(a..b) /\ Cardinality(a..b) = IF a > b THEN 0 ELSE b - a + 1
  BY FS_Interval, Zenon
<1> QED BY <1>1

\* The records of a file, as they are counted.
RecordSpan(name, content) == IF IsSegment(name) THEN content.first..content.last ELSE {}

LEMMA AcceptedTotals ==
    ASSUME ArchiveInv, VerifyErrors = {},
           Len(attestation.files) = Cardinality(Listed(attestation)),
           \A e \in Range(attestation.files) : IsSegment(e.name) => e.records # Ill,
           Notes \notin Listed(attestation)
    PROVE  attestation.totalRecords = Cardinality(Dir!Records(Files(copies)))
<1> DEFINE entries == attestation.files
           n == Len(entries)
           listed == Listed(attestation)
           names == [i \in 1..n |-> entries[i].name]
           numbers == Counts(entries, "records")
           parts == [i \in 1..n |-> RecordSpan(names[i], copies[names[i]])]
<1>1. /\ n \in Nat /\ DOMAIN entries = 1..n
      /\ \A i \in 1..n : entries[i] \in Range(entries)
  <2> DEFINE Said == Entry \union {Ill}
  <2>1. entries \in Seq(Said)
    BY AcceptedArchive
  <2> HIDE DEF Said, entries
  <2> QED BY <2>1 DEF Range
<1>2. \A i \in 1..n : Answers(entries[i]) /\ entries[i] # Ill /\ names[i] \in listed
  BY <1>1, AcceptedArchive, AcceptedFiles, ArchiveAssumption DEF Answers
<1>3. \A f \in listed : \E i \in 1..n : names[i] = f
  <2> TAKE f \in listed
  <2>1. PICK e \in Range(entries) : e.name = f
    BY AcceptedFiles
  <2>2. PICK i \in DOMAIN entries : entries[i] = e
    BY <2>1 DEF Range
  <2> QED BY <1>1, <2>1, <2>2
<1>4. \A i, j \in 1..n : names[i] = names[j] => i = j
  <2>1. names \in Surjection(1..n, listed)
    <3>1. names \in [1..n -> listed]
      BY <1>2
    <3> HIDE DEF names, n, listed
    <3> QED BY <1>3, <3>1 DEF Surjection
  <2>2. IsFiniteSet(1..n) /\ Cardinality(1..n) = Cardinality(listed)
    BY <1>1, FS_Interval
  <2>3. names \in Injection(1..n, listed)
    <3> HIDE DEF names, n, listed
    <3> QED BY <2>1, <2>2, FS_SurjSameCardinalityImpliesInj
  <2> HIDE DEF names, n, listed
  <2> QED BY <2>3 DEF Injection, IsInjective
<1> DEFINE files == Files(copies)
<1>5. /\ Dir!IsDirectory(files) /\ Dir!ChainOK(files)
      /\ files = [f \in listed |-> copies[f]]
  BY AcceptedFiles, AcceptedArchive DEF ArchiveInv, Files
<1>6. \A i \in 1..n : IsSegment(names[i]) =>
        /\ names[i] \in Dir!Segments(files) /\ copies[names[i]] = files[names[i]]
        /\ copies[names[i]].first \in Int /\ copies[names[i]].last \in Int
        /\ copies[names[i]].first <= copies[names[i]].last /\ ~copies[names[i]].torn
  <2> SUFFICES ASSUME NEW i \in 1..n, IsSegment(names[i])
               PROVE  /\ names[i] \in Dir!Segments(files) /\ copies[names[i]] = files[names[i]]
                      /\ copies[names[i]].first \in Int /\ copies[names[i]].last \in Int
                      /\ copies[names[i]].first <= copies[names[i]].last /\ ~copies[names[i]].torn
    OBVIOUS
  <2> DEFINE f == names[i]
  <2>1. f \in listed /\ f \in Dir!SegmentId
    BY <1>2 DEF IsSegment
  <2> HIDE DEF f, listed
  <2>2. f \in DOMAIN files /\ copies[f] = files[f]
    BY <1>5, <2>1
  <2>3. f \in Dir!Segments(files)
    BY <2>1, <2>2 DEF Dir!Segments
  <2>4. copies[f] \in Dir!SegmentContent
    <3>1. Archive(copies)
      BY DEF ArchiveInv, Archive
    <3>2. f \in DOMAIN copies
      BY <2>1, AcceptedFiles DEF listed
    <3> QED BY <2>1, <3>1, <3>2, ArchiveFits
  <2>5. copies[f].first \in Int /\ copies[f].last \in Int
    BY <2>4, Shapes DEF Dir!SegmentContent
  <2>6. copies[f].first <= copies[f].last /\ ~copies[f].torn
    BY <1>5, <2>2, <2>3 DEF Dir!ChainOK
  <2> QED BY <2>2, <2>3, <2>5, <2>6 DEF f
<1>7. ASSUME NEW i \in 1..n
      PROVE  IsFiniteSet(parts[i]) /\ Cardinality(parts[i]) = numbers[i]
  <2>1. parts[i] = RecordSpan(names[i], copies[names[i]])
    OBVIOUS
  <2>2. numbers[i] = IF entries[i].records \in Int THEN entries[i].records ELSE 0
    BY <1>1, <1>2 DEF Counts
  <2>3. entries[i].records = Ill \/ entries[i].records = RecordsIn(names[i], copies[names[i]])
    BY <1>2 DEF Answers
  <2>4. IsSegment(names[i]) => entries[i].records # Ill
    BY <1>1
  <2> DEFINE content == copies[names[i]]
             name == names[i]
  <2>5. IsSegment(name) => /\ content.first \in Int /\ content.last \in Int
                           /\ content.first <= content.last /\ ~content.torn
    BY <1>6
  <2> HIDE DEF parts, names, numbers, name, content
  <2>6. CASE IsSegment(name)
    <3>1. RecordsIn(name, content) = content.last + 1 - content.first
      BY <2>5, <2>6 DEF RecordsIn
    <3>2. numbers[i] = content.last + 1 - content.first
      BY <2>2, <2>3, <2>4, <2>5, <2>6, <3>1 DEF name, content
    <3>3. parts[i] = content.first..content.last
      BY <2>1, <2>6 DEF RecordSpan, name, content
    <3>4. IsFiniteSet(content.first..content.last)
          /\ Cardinality(content.first..content.last) = content.last - content.first + 1
      <4> DEFINE a == content.first
                 b == content.last
      <4>1. a \in Int /\ b \in Int /\ a <= b
        BY <2>5, <2>6
      <4> HIDE DEF a, b
      <4>2. IsFiniteSet(a..b) /\ Cardinality(a..b) = b - a + 1
        BY <4>1, Interval
      <4> QED BY <4>2 DEF a, b
    <3> QED BY <2>5, <2>6, <3>2, <3>3, <3>4
  <2>7. CASE ~IsSegment(name)
    <3>1. entries[i].records = Ill
      BY <2>3, <2>7 DEF RecordsIn, name, content
    <3>2. numbers[i] = 0
      BY <2>2, <3>1, ArchiveAssumption
    <3>3. parts[i] = {}
      BY <2>1, <2>7 DEF RecordSpan, name, content
    <3> QED BY <3>2, <3>3, FS_EmptySet
  <2> QED BY <2>6, <2>7
<1>8. ASSUME NEW i \in 1..n, NEW j \in 1..n, i # j
      PROVE  parts[i] \cap parts[j] = {}
  <2>1. names[i] # names[j]
    BY <1>4, <1>8
  <2>2. parts[i] = RecordSpan(names[i], copies[names[i]]) /\ parts[j] = RecordSpan(names[j], copies[names[j]])
    OBVIOUS
  <2> DEFINE s == names[i]
             t == names[j]
  <2>3. CASE IsSegment(s) /\ IsSegment(t)
    <3>1. s \in Dir!Segments(files) /\ t \in Dir!Segments(files) /\ copies[s] = files[s] /\ copies[t] = files[t]
      BY <1>6, <2>3
    <3>2. s \in Int /\ t \in Int
      BY <2>3 DEF IsSegment, Dir!SegmentId
    <3>3. /\ copies[s].first \in Int /\ copies[s].last \in Int
          /\ copies[t].first \in Int /\ copies[t].last \in Int
      BY <1>6, <2>3
    <3> HIDE DEF s, t, files
    <3>4. copies[s].last < copies[t].first \/ copies[t].last < copies[s].first
      <4>1. s < t \/ t < s
        BY <2>1, <3>2 DEF s, t
      <4> QED BY <1>5, <3>1, <4>1, SegmentsApart
    <3>5. (copies[s].first..copies[s].last) \cap (copies[t].first..copies[t].last) = {}
      BY <3>3, <3>4
    <3> QED BY <2>2, <2>3, <3>5 DEF RecordSpan, s, t
  <2>4. CASE ~(IsSegment(s) /\ IsSegment(t))
    <3> HIDE DEF parts
    <3> QED BY <2>2, <2>4 DEF RecordSpan
  <2> QED BY <2>3, <2>4
<1>9. numbers \in Seq(Int) /\ Len(numbers) = n /\ IntegerTotal(entries, "records") = Sums(numbers)[n]
  BY AcceptedArchive, TotalIs
<1>10. Sums(numbers)[n] = Cardinality(UNION {parts[i] : i \in 1..n})
  <2>1. Partial(numbers, Len(numbers), Sums(numbers))
    BY <1>9, TotalsAre
  <2>2. DOMAIN numbers = 1..n
    BY <1>9
  <2> HIDE DEF numbers, parts, n
  <2>3. Counted(parts, numbers)
    BY <1>7, <1>8, <2>2 DEF Counted
  <2>4. Sums(numbers)[Len(numbers)] = Cardinality(UNION {parts[i] : i \in 1..Len(numbers)})
    BY <1>9, <2>1, <2>3, PartsAddUp
  <2>5. Len(numbers) = n
    BY <1>9
  <2> QED BY <2>4, <2>5, Zenon
<1>11. (UNION {parts[i] : i \in 1..n}) = Dir!Records(files)
  <2>1. ASSUME NEW i \in 1..n, NEW r \in parts[i] PROVE r \in Dir!Records(files)
    <3>1. IsSegment(names[i]) /\ r \in copies[names[i]].first..copies[names[i]].last
      BY <2>1 DEF RecordSpan
    <3>2. names[i] \in Dir!Segments(files) /\ copies[names[i]] = files[names[i]]
      BY <1>6, <3>1
    <3> HIDE DEF names, files
    <3> QED BY <3>1, <3>2 DEF Dir!Records
  <2>2. ASSUME NEW s \in Dir!Segments(files), NEW r \in files[s].first..files[s].last
        PROVE  \E i \in 1..n : r \in parts[i]
    <3>1. s \in listed /\ IsSegment(s) /\ files[s] = copies[s]
      BY <1>5 DEF Dir!Segments, IsSegment
    <3>2. PICK i \in 1..n : names[i] = s
      BY <1>3, <3>1
    <3> QED BY <2>2, <3>1, <3>2 DEF RecordSpan
  <2> HIDE DEF parts, files, n
  <2> QED BY <2>1, <2>2 DEF Dir!Records
<1>12. attestation.totalRecords = IntegerTotal(entries, "records")
  BY AcceptedArchive
<1> QED BY <1>9, <1>10, <1>11, <1>12

(* While nobody forges a digest verify() accepts what was exported and      *)
(* nothing else, however often it was damaged, and what it accepts under a   *)
(* forged one is still complete: every file listed with its content, the     *)
(* chain unbroken, the totals those of the stream unless an entry is doubled *)
(* or claims no count.                                                       *)
THEOREM DamageShows == ArchiveSpec => []ArchiveVerdict
<1>1. ArchiveInv => ArchiveVerdict
  <2>1. ArchiveInv => AcceptedIsVerified
    BY AcceptedIsListed, AcceptedTotals DEF AcceptedIsVerified
  <2> QED BY <2>1, DamageFound DEF ArchiveVerdict
<1>2. ArchiveSpec => []ArchiveInv
  BY ArchiveStarts, ArchiveInductive, PTL DEF ArchiveSpec
<1> QED BY <1>1, <1>2, PTL
=============================================================================
