--------------------------------- MODULE Sbom -------------------------------
(***************************************************************************)
(* tools/sbom.py: the inventory of uv.lock.  The lock is read at once; the *)
(* packages reachable in production are collected from a worklist whose    *)
(* order nothing fixes; the document is written over the last one.         *)
(***************************************************************************)
EXTENDS Integers, Sequences

CONSTANTS
    NoDocument,     \* no document, or no file
    PartOfDocument, \* a file whose write was cut short
    Locks,          \* what uv.lock may hold: its packages in order
    MaxRelocks

\* tomllib hands build_sbom a list.
ASSUME LockAssumption == \A l \in Locks : Len(l) \in Nat /\ DOMAIN l = 1..Len(l)

VARIABLES
    lock,
    pc,
    entries,        \* name -> the package inventoried under it
    seen, queue,    \* _reached
    document,       \* what this run renders
    sbomFile,       \* what is at --out
    earlier,        \* the document an earlier run rendered from this lock
    relocks

sbomVars == <<lock, pc, entries, seen, queue, document, sbomFile, earlier, relocks>>

Packages == {lock[i] : i \in DOMAIN lock}

\* Published in an index, or not said to come from anywhere else.
FromIndex(p) == p.source \in {"registry", "unsaid"}

Indexed == {i \in DOMAIN lock : FromIndex(lock[i])}

LastNamed(name) ==
    CHOOSE i \in Indexed : lock[i].name = name /\ \A j \in Indexed : lock[j].name = name => j <= i

Entries == [name \in {lock[i].name : i \in Indexed} |-> lock[LastNamed(name)]]

ReferencedNames == UNION {p.deps : p \in Packages}

\* What the virtual root installs outside the dev group.
RuntimeRoots == UNION {p.deps : p \in {q \in Packages : q.source = "virtual"}}

Components ==
    [name \in DOMAIN entries |->
        [version |-> entries[name].version,
         scope |-> IF name \in seen THEN "runtime" ELSE "dev"]]

\* Mutant: a document that counts how often it was written.
DocumentRevised ==
    [version |-> IF sbomFile = NoDocument THEN 1 ELSE 2,
     components |-> Components,
     root |-> RuntimeRoots \intersect DOMAIN entries,
     dependsOn |-> [name \in DOMAIN entries |-> entries[name].deps \intersect DOMAIN entries],
     digest |-> lock]

\* Mutant: a graph of what production installs.
DocumentRuntimeEdges ==
    [version |-> 1,
     components |-> Components,
     root |-> RuntimeRoots \intersect DOMAIN entries,
     dependsOn |-> [name \in DOMAIN entries |-> entries[name].deps \intersect seen],
     digest |-> lock]

\* build_sbom: one component per entry, and who depends on whom.
Document ==
    [version |-> 1,
     components |-> Components,
     root |-> RuntimeRoots \intersect DOMAIN entries,
     dependsOn |-> [name \in DOMAIN entries |-> entries[name].deps \intersect DOMAIN entries],
     digest |-> lock]

---------------------------------------------------------------------------

SbomInit ==
    /\ lock \in Locks
    /\ pc = "idle"
    /\ entries = <<>>
    /\ seen = {} /\ queue = {}
    /\ document = NoDocument
    /\ sbomFile = NoDocument
    /\ earlier = NoDocument
    /\ relocks = 0

\* A package without a name or a version, or a name nothing describes, is refused.
ReadLock ==
    /\ pc = "idle"
    /\ entries' = Entries
    /\ seen' = {}
    /\ queue' = RuntimeRoots
    /\ document' = NoDocument
    /\ pc' = IF (\A i \in Indexed : lock[i].named) /\ ReferencedNames \subseteq DOMAIN Entries
             THEN "reach" ELSE "refused"
    /\ UNCHANGED <<lock, sbomFile, earlier, relocks>>

\* Mutant: meeting a package again ends the walk.
VisitOnce(name) ==
    IF name \in seen
    THEN queue' = {} /\ UNCHANGED seen
    ELSE /\ seen' = seen \union {name}
         /\ queue' = (queue \ {name}) \union entries[name].deps

Visit(name) ==
    IF name \in seen \/ name \notin DOMAIN entries
    THEN queue' = queue \ {name} /\ UNCHANGED seen
    ELSE /\ seen' = seen \union {name}
         /\ queue' = (queue \ {name}) \union (entries[name].deps \ (seen \union {name}))

Reach ==
    /\ pc = "reach"
    /\ \E name \in queue : Visit(name)
    /\ UNCHANGED <<lock, pc, entries, document, sbomFile, earlier, relocks>>

\* A package with no hash was never installable.
Compose ==
    /\ pc = "reach" /\ queue = {}
    /\ \/ /\ \E name \in DOMAIN entries : entries[name].hashes = {}
          /\ pc' = "refused" /\ UNCHANGED document
       \/ /\ \A name \in DOMAIN entries : entries[name].hashes # {}
          /\ pc' = "write" /\ document' = Document
    /\ UNCHANGED <<lock, entries, seen, queue, sbomFile, earlier, relocks>>

\* The file is opened, and so emptied, before it is written.
WriteSbom ==
    /\ pc = "write"
    /\ \/ pc' = "written" /\ sbomFile' = document
       \/ pc' = "refused" /\ sbomFile' \in {sbomFile, PartOfDocument}
    /\ earlier' = document
    /\ UNCHANGED <<lock, entries, seen, queue, document, relocks>>

Again ==
    /\ pc \in {"written", "refused"}
    /\ pc' = "idle"
    /\ UNCHANGED <<lock, entries, seen, queue, document, sbomFile, earlier, relocks>>

\* "uv lock" between two runs.
Relock ==
    /\ pc = "idle"
    /\ relocks < MaxRelocks
    /\ lock' \in Locks
    /\ relocks' = relocks + 1
    /\ earlier' = NoDocument
    /\ UNCHANGED <<pc, entries, seen, queue, document, sbomFile>>

SbomNext == ReadLock \/ Reach \/ Compose \/ WriteSbom \/ Again \/ Relock

SbomSpec == SbomInit /\ [][SbomNext]_sbomVars

---------------------------------------------------------------------------

Names == RuntimeRoots \union UNION {Entries[name].deps : name \in DOMAIN Entries}

\* A set of names is closed when it has what its described members depend on.
Closed(names) ==
    \A name \in names \intersect DOMAIN Entries : Entries[name].deps \subseteq names

InEveryClosure(name) ==
    \A names \in SUBSET Names : RuntimeRoots \subseteq names /\ Closed(names) => name \in names

Rendered == pc \in {"write", "written"}

(* A component is called runtime exactly when the production install pulls   *)
(* it in, through however many packages and round whatever cycles.           *)
RuntimeIsReachable ==
    Rendered =>
        /\ DOMAIN document.components = DOMAIN Entries
        /\ \A name \in DOMAIN Entries :
            document.components[name].scope = "runtime" <=> InEveryClosure(name)

(* Two runs over one lock render the same document, whichever order each     *)
(* took its worklist in: "an unchanged lock produces a byte-identical file". *)
SameLockSameDocument == Rendered /\ earlier # NoDocument => document = earlier

(* A run that reports success leaves a document that omits nothing: every    *)
(* package of the index is a component, with its version unless another one  *)
(* of its name follows, and every edge between them is in the graph.         *)
NothingOmitted ==
    pc = "written" =>
        /\ sbomFile = document
        /\ \A i \in Indexed :
            /\ lock[i].name \in DOMAIN sbomFile.components
            /\ \/ sbomFile.components[lock[i].name].version = lock[i].version
               \/ \E j \in Indexed : j > i /\ lock[j].name = lock[i].name
        /\ \A name \in DOMAIN entries : sbomFile.dependsOn[name] = entries[name].deps

=============================================================================
