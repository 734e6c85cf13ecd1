---------------------------- MODULE SecretsDrill ----------------------------
(***************************************************************************)
(* The part of tools/restore_drill.py that follows the restore when a      *)
(* config is given: is it the one the records were written under, and are    *)
(* the identity map and the HMAC key there, and copied.  The drill reads   *)
(* one file after the other while the server rotates its key, the copy     *)
(* cycle runs, releases are installed and files are lost or spoilt.        *)
(***************************************************************************)
EXTENDS ConfigFile, Sequences

CONSTANTS
    Installable,    \* the releases that may be installed
    Configs,        \* the files the operator keeps
    Cycle,          \* KEY_MAX_AGE_HOURS, in hours of the model
    MaxHour,
    MaxContent,     \* how often a file is written anew
    MaxChanges      \* changes to config, release, copies and files in all

VARIABLES
    config,         \* the file on disk
    installed,      \* the installed release
    provenance,     \* <<file, release>>: what was in force when records were written
    live,           \* section -> the server's file
    epoch,          \* section -> how often its file was written
    store,          \* section -> its copy in the off-server store, under the same name
    hour,
    changes,
    drill,          \* the run
    witnessed            \* what was live and what was stored while the run went on

secretVars == <<config, installed, provenance, live, epoch, store, hour, changes, drill, witnessed>>

SecretSections == <<"identityMap", "hmacKey">>
Section == {"identityMap", "hmacKey"}

PathKey == [identityMap |-> "identityMap.path", hmacKey |-> "hmacKey.path"]
PermissionKey == [identityMap |-> "identityMap.permissions", hmacKey |-> "hmacKey.permissions"]

ASSUME SecretBoundsAssumption ==
    /\ Cycle \in Nat /\ MaxHour \in Nat /\ Cycle <= MaxHour
    /\ MaxContent \in Nat \ {0} /\ MaxChanges \in Nat

\* A path is the server's own, one that only its host can open, or one of nothing.
ASSUME SecretPathAssumption ==
    /\ NoValue # "own"
    /\ \A c \in Configs, s \in Section :
            Spelled(c.fixed, PathKey[s]) \in {NoValue, "own", "host", "gone"}

\* A mode is the set of what it grants.
Grants == [mode \in {"0400", "0600"} |-> IF mode = "0400" THEN {"read"} ELSE {"read", "write"}]
FileMode == {{"read"}, {"read", "write"}, {"read", "write", "others"}}

Absent == [there |-> FALSE, content |-> <<"none", 0>>, mtime |-> 0, mode |-> {}]
File == [there : {TRUE}, content : Section \X (0..MaxContent), mtime : 0..(MaxHour + 1),
         mode : FileMode] \union {Absent}

Empty(f) == f.content[2] = 0
Hashes(inForce) == {ConfigHash(w[2], w[1]) : w \in inForce}

Idle == [pc |-> "idle", loaded |-> NoValue, hashes |-> {}, maxAge |-> 0, now |-> 0,
         left |-> <<>>, copied |-> Absent, digest |-> <<"none", 0>>, findings |-> {}]

Nothing == [lived |-> [s \in Section |-> {}], stored |-> [s \in Section |-> {}], calm |-> TRUE]

SecretInit ==
    /\ config \in Configs
    /\ installed \in Installable
    /\ provenance \in SUBSET {<<config, installed>>}
    /\ live = [s \in Section |-> [there |-> TRUE, content |-> <<s, 1>>, mtime |-> 0,
                                  mode |-> Grants["0600"]]]
    /\ epoch = [s \in Section |-> 1]
    /\ store = [s \in Section |-> Absent] \/ store = live
    /\ hour = Cycle             \* both files were written a cycle ago
    /\ changes = 0
    /\ drill = Idle
    /\ witnessed = Nothing

---------------------------------------------------------------------------
(* The drill. *)

Current == Head(drill.left)

\* _resolve, after the guard on an absent path: "host" names a place only the
\* server host can open, "gone" one that is not there.
LivePath(s) == Spelled(drill.loaded.fixed, PathKey[s])

CopyDir == Spelled(drill.loaded.fixed, "backup.keyCopyDir")
HasCopyDir == CopyDir \notin {NoValue, "host"}

\* A copy store that is the live directory holds the live file itself.
CopyOf(s) == IF CopyDir = "beside" THEN live[s] ELSE store[s]

ConfiguredMode(s) ==
    LET raw == Spelled(drill.loaded.fixed, PermissionKey[s])
    IN  IF raw \in DOMAIN Grants THEN Grants[raw] ELSE Grants["0600"]

ModeErrors(s, f, what) == IF f.mode \subseteq ConfiguredMode(s) THEN {} ELSE {<<s, what>>}

\* Mutant: an age is compared with the cycle only.
AgeErrorsUnsigned(s, f) ==
    IF drill.now - f.mtime > drill.maxAge THEN {<<s, "age">>} ELSE {}

\* A file as old as the cycle is still inside it; one from the future is not.
AgeErrors(s, f) ==
    IF drill.now < f.mtime \/ drill.now - f.mtime > drill.maxAge THEN {<<s, "age">>} ELSE {}

\* What is live and stored from the first look at a file to the last.
Witnessed(l, s) ==
    [witnessed EXCEPT !.lived = [x \in Section |-> @[x] \union {l[x].content}],
                 !.stored = [x \in Section |-> @[x] \union {s[x].content}]]

BeginDrill ==
    /\ drill.pc = "idle"
    /\ \E maxAge \in 1..Cycle, chosen \in {config} \union {w[1] : w \in provenance} :
            drill' = [Idle EXCEPT !.pc = "match", !.loaded = chosen, !.maxAge = maxAge,
                                  !.hashes = Hashes(provenance)]
    /\ witnessed' = [Witnessed(live, store) EXCEPT !.calm = TRUE]
    /\ UNCHANGED <<config, installed, provenance, live, epoch, store, hour, changes>>

\* No hash in the archive, or none that the config has on this installation.
Match ==
    /\ drill.pc = "match"
    /\ drill' = [drill EXCEPT
            !.pc = "stat",
            !.now = hour,
            !.left = SecretSections,
            !.findings = IF ConfigHash(installed, drill.loaded) \in drill.hashes
                         THEN @ ELSE @ \union {<<"config", "hash">>}]
    /\ UNCHANGED <<config, installed, provenance, live, epoch, store, hour, changes, witnessed>>

\* On to the next file, or to the verdict.
NextSection(found) ==
    drill' = [drill EXCEPT
        !.left = Tail(@),
        !.copied = Absent,
        !.digest = <<"none", 0>>,
        !.findings = @ \union found \union
            (IF Len(drill.left) = 1 /\ ~HasCopyDir THEN {<<"config", "copyDir">>} ELSE {}),
        !.pc = IF Len(drill.left) = 1 THEN "done" ELSE "stat"]

\* Why secrets_errors looks no further at a file.
Unusable(s) ==
    IF LivePath(s) = NoValue THEN "unset"
    ELSE IF LivePath(s) = "host" THEN "host"
    ELSE IF LivePath(s) = "gone" \/ ~live[s].there THEN "missing"
    ELSE IF Empty(live[s]) THEN "empty"
    ELSE ""

StatLive ==
    /\ drill.pc = "stat"
    /\ LET s == Current
           found == ModeErrors(s, live[s], "mode") \union AgeErrors(s, live[s])
       IN  \/ Unusable(s) # "" /\ NextSection({<<s, Unusable(s)>>})
           \/ Unusable(s) = "" /\ ~HasCopyDir /\ NextSection(found)
           \/ /\ Unusable(s) = "" /\ HasCopyDir
              /\ drill' = [drill EXCEPT !.pc = "copy", !.findings = @ \union found]
    /\ UNCHANGED <<config, installed, provenance, live, epoch, store, hour, changes, witnessed>>

StatCopy ==
    /\ drill.pc = "copy"
    /\ LET s == Current
       IN  IF CopyOf(s).there
           THEN drill' = [drill EXCEPT !.pc = "digest", !.copied = CopyOf(s)]
           ELSE NextSection({<<s, "no copy">>})
    /\ UNCHANGED <<config, installed, provenance, live, epoch, store, hour, changes, witnessed>>

DigestCopy ==
    /\ drill.pc = "digest"
    /\ LET s == Current
       IN  IF CopyOf(s).there
           THEN drill' = [drill EXCEPT !.pc = "compare", !.digest = CopyOf(s).content]
           ELSE NextSection({<<s, "unreadable">>})
    /\ UNCHANGED <<config, installed, provenance, live, epoch, store, hour, changes, witnessed>>

\* Mutant: a copy's content is not compared.
CopyErrorsPresent(s) == ModeErrors(s, drill.copied, "copy mode")

\* What the comparison with the live file's digest adds.
CopyErrors(s) ==
    (IF drill.digest = live[s].content THEN {} ELSE {<<s, "differs">>})
    \union ModeErrors(s, drill.copied, "copy mode")

DigestLive ==
    /\ drill.pc = "compare"
    /\ LET s == Current
       IN  NextSection(IF live[s].there THEN CopyErrors(s) ELSE {<<s, "unreadable">>})
    /\ UNCHANGED <<config, installed, provenance, live, epoch, store, hour, changes, witnessed>>

\* The verdict was read; another drill may follow.
EndDrill ==
    /\ drill.pc = "done"
    /\ drill' = Idle
    /\ witnessed' = Nothing
    /\ UNCHANGED <<config, installed, provenance, live, epoch, store, hour, changes>>

---------------------------------------------------------------------------
(* The server, the operator, the copy cycle and what befalls files. *)

Disturb(l, s) ==
    witnessed' = IF drill.pc # "idle" THEN [Witnessed(l, s) EXCEPT !.calm = FALSE] ELSE witnessed

Change ==
    /\ changes < MaxChanges
    /\ changes' = changes + 1
    /\ UNCHANGED <<hour, drill>>

\* The server writes its map, or starts a key epoch.
Rotate(s) ==
    /\ epoch[s] < MaxContent
    /\ epoch' = [epoch EXCEPT ![s] = @ + 1]
    /\ live' = [live EXCEPT ![s] = [there |-> TRUE, content |-> <<s, epoch'[s]>>,
                                    mtime |-> hour, mode |-> Grants["0600"]]]
    /\ Change /\ Disturb(live', store)
    /\ UNCHANGED <<config, installed, provenance, store>>

\* The seven-day cycle of OPERATIONS.md, one file at a time.
CopyFile(s) ==
    /\ live[s].there
    /\ store' = [store EXCEPT ![s] = [live[s] EXCEPT !.mtime = hour]]
    /\ Change /\ Disturb(live, store')
    /\ UNCHANGED <<config, installed, provenance, live, epoch>>

\* A live file is emptied, lost, opened up, or gets a stamp that is still to come.
Spoil(s) ==
    /\ live[s].there
    /\ live' = [live EXCEPT ![s] = Absent]
       \/ live' = [live EXCEPT ![s].content = <<s, 0>>]
       \/ live' = [live EXCEPT ![s].mode = {"read", "write", "others"}]
       \/ live' = [live EXCEPT ![s].mtime = hour + 1]
    /\ Change /\ Disturb(live', store)
    /\ UNCHANGED <<config, installed, provenance, epoch, store>>

SpoilCopy(s) ==
    /\ store[s].there
    /\ store' = [store EXCEPT ![s] = Absent]
       \/ store' = [store EXCEPT ![s].mode = {"read", "write", "others"}]
    /\ Change /\ Disturb(live, store')
    /\ UNCHANGED <<config, installed, provenance, live, epoch>>

EditConfig ==
    /\ config' \in Configs \ {config}
    /\ Change /\ Disturb(live, store)
    /\ UNCHANGED <<installed, provenance, live, epoch, store>>

Install ==
    /\ installed' \in Installable \ {installed}
    /\ Change /\ Disturb(live, store)
    /\ UNCHANGED <<config, provenance, live, epoch, store>>

WriteRecord ==
    /\ <<config, installed>> \notin provenance
    /\ provenance' = provenance \union {<<config, installed>>}
    /\ Change /\ Disturb(live, store)
    /\ UNCHANGED <<config, installed, live, epoch, store>>

HourPasses ==
    /\ hour < MaxHour
    /\ hour' = hour + 1
    /\ Disturb(live, store)
    /\ UNCHANGED <<config, installed, provenance, live, epoch, store, changes, drill>>

SecretNext ==
    \/ BeginDrill \/ Match \/ StatLive \/ StatCopy \/ DigestCopy \/ DigestLive \/ EndDrill
    \/ \E s \in Section : Rotate(s) \/ CopyFile(s) \/ Spoil(s) \/ SpoilCopy(s)
    \/ EditConfig \/ Install \/ WriteRecord \/ HourPasses

SecretSpec == SecretInit /\ [][SecretNext]_secretVars

---------------------------------------------------------------------------

SecretTypeOK ==
    /\ config \in Configs /\ installed \in Installable
    /\ provenance \subseteq Configs \X Installable
    /\ live \in [Section -> File]
    /\ epoch \in [Section -> 1..MaxContent]
    /\ store \in [Section -> File]
    /\ hour \in 0..MaxHour /\ changes \in 0..MaxChanges
    /\ drill.pc \in {"idle", "match", "stat", "copy", "digest", "compare", "done"}
    /\ Len(drill.left) = 0 <=> drill.pc \in {"idle", "match", "done"}

Passed == drill.pc = "done" /\ drill.findings = {}

(* A drill that passes has met a copy of each file that was the file itself   *)
(* at some moment of the run, whatever was rotated, copied or lost around it: *)
(* the two digests are never of two files.  A store that is the live          *)
(* directory holds the files themselves.                                     *)
PassMeansCopied ==
    Passed /\ CopyDir # "beside"
        => \A s \in Section : \E c \in witnessed.lived[s] \intersect witnessed.stored[s] : c[1] = s

\* What a pass is worth whatever happens around it, with the types it rests on.
SecretsPass == SecretTypeOK /\ PassMeansCopied

\* What an operator needs of a section after the server's disk is gone, and
\* the promise of PRIVACY.md about its file and its copy.
Recoverable(s) ==
    /\ live[s].there /\ live[s].content[2] > 0
    /\ CopyOf(s).there /\ CopyOf(s).content = live[s].content

Private(s) == (live[s].mode \union CopyOf(s).mode) \subseteq ConfiguredMode(s)

InCycle(s) == live[s].mtime \in (drill.now - drill.maxAge)..drill.now

ConfigReaches(s) == LivePath(s) = "own" /\ HasCopyDir

(* A drill nothing came between says exactly how things stand: it passes if   *)
(* the config is one the records were written under, as this release reads    *)
(* it, and names both files and the store, and both files can be recovered,   *)
(* are private and were written within the cycle; else it fails.              *)
SecretsUndisturbed ==
    drill.pc = "done" /\ witnessed.calm
        => (Passed <=> /\ \E w \in provenance :
                              Effective(w[2], w[1]) = Effective(installed, drill.loaded)
                       /\ \A s \in Section : /\ ConfigReaches(s) /\ Recoverable(s)
                                              /\ Private(s) /\ InCycle(s))

=============================================================================
