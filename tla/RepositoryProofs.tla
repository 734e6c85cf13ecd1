---------------------------- MODULE RepositoryProofs ------------------------
(***************************************************************************)
(* What the checks and the tools of the repository promise, proved.  The   *)
(* inventory of tools/sbom.py is a function of the lock alone; the seeded  *)
(* fuzzers replay their failures; the config contract leaves no key        *)
(* without a value; and a tree tools/doccheck.py passes runs its tests,    *)
(* has what it imports, does not move with what others publish, tells      *)
(* whoever upgrades of every break, ships a config that is accepted, and   *)
(* has documents whose links open and whose pages read as they render.     *)
(* The verdict of tools/schema_validate.py is the schema's, and a schema   *)
(* whose bags doccheck.py passed keeps out what its deny-lists deny.  A    *)
(* trace tools/replay_contract_check.py accepts replays as it records.     *)
(***************************************************************************)
EXTENDS Sbom, FuzzHarness, ConfigContract, DocLinks, SchemaGate, RepositoryGate, ReleaseGate,
        DetectorGate, ReplayContract, NumberProofs, FiniteSetTheorems, TLAPS

-----------------------------------------------------------------------------
(* The inventory. *)

Building == pc \in {"reach", "write", "written"}

\* The walk has not lost a described package, nor taken one it should not have.
WalkInv ==
    /\ entries = Entries
    /\ seen \subseteq DOMAIN Entries
    /\ seen \union queue \subseteq Names
    /\ RuntimeRoots \intersect DOMAIN Entries \subseteq seen \union queue
    /\ \A name \in seen : Entries[name].deps \intersect DOMAIN Entries \subseteq seen \union queue
    /\ \A names \in SUBSET Names :
            RuntimeRoots \subseteq names /\ Closed(names) => seen \union queue \subseteq names

\* What every run over the lock renders.
Inventory ==
    [version |-> 1,
     components |-> [name \in DOMAIN Entries |->
        [version |-> Entries[name].version,
         scope |-> IF InEveryClosure(name) THEN "runtime" ELSE "dev"]],
     root |-> RuntimeRoots \intersect DOMAIN Entries,
     dependsOn |-> [name \in DOMAIN Entries |-> Entries[name].deps \intersect DOMAIN Entries],
     digest |-> lock]

SbomInv ==
    /\ lock \in Locks
    /\ Building => WalkInv /\ ReferencedNames \subseteq DOMAIN Entries
    /\ pc = "written" => sbomFile = document
    /\ Rendered => document = Inventory
    /\ earlier # NoDocument => earlier = Inventory

---------------------------------------------------------------------------

(* A finished walk has collected the described packages in every closed set. *)
LEMMA WalkComplete ==
    ASSUME WalkInv, queue = {}
    PROVE  \A name \in DOMAIN Entries : name \in seen <=> InEveryClosure(name)
<1>1. ASSUME NEW name \in DOMAIN Entries, name \in seen
      PROVE  InEveryClosure(name)
  BY <1>1 DEF WalkInv, InEveryClosure
<1>2. ASSUME NEW name \in DOMAIN Entries, InEveryClosure(name)
      PROVE  name \in seen
  <2> DEFINE least == seen \union (Names \ DOMAIN Entries)
  <2>1. least \in SUBSET Names
    BY DEF WalkInv
  <2>2. RuntimeRoots \subseteq least
    BY DEF WalkInv, Names
  <2>3. Closed(least)
    <3>1. SUFFICES ASSUME NEW n \in least \intersect DOMAIN Entries,
                          NEW d \in Entries[n].deps
                   PROVE  d \in least
      BY DEF Closed
    <3>2. n \in seen
      BY <3>1
    <3>3. d \in Names
      BY <3>1 DEF Names
    <3>4. d \in DOMAIN Entries => d \in seen
      BY <3>1, <3>2 DEF WalkInv
    <3> QED
      BY <3>3, <3>4
  <2>4. name \in least
    BY <1>2, <2>1, <2>2, <2>3 DEF InEveryClosure
  <2> QED
    BY <1>2, <2>4
<1> QED
  BY <1>1, <1>2

(* So the document of a finished walk is the inventory of the lock. *)
LEMMA DocumentIsInventory ==
    ASSUME WalkInv, queue = {}
    PROVE  Document = Inventory
<1>1. Components = [name \in DOMAIN Entries |->
        [version |-> Entries[name].version,
         scope |-> IF InEveryClosure(name) THEN "runtime" ELSE "dev"]]
  BY WalkComplete DEF Components, WalkInv
<1> QED
  BY <1>1 DEF Document, Inventory, WalkInv

(* One package of the worklist is visited, a described one or not. *)
LEMMA VisitKeepsWalk ==
    ASSUME WalkInv, NEW name \in queue, Visit(name), UNCHANGED <<lock, entries>>
    PROVE  WalkInv'
<1> USE DEF WalkInv
<1>1. /\ Entries' = Entries /\ Names' = Names /\ RuntimeRoots' = RuntimeRoots
      /\ \A names : Closed(names)' = Closed(names)
  BY DEF Entries, Names, RuntimeRoots, Closed, LastNamed, Indexed, Packages
<1>2. CASE name \in seen \/ name \notin DOMAIN entries
  <2>1. queue' = queue \ {name} /\ seen' = seen
    BY <1>2 DEF Visit
  <2> QED
    BY <1>1, <1>2, <2>1
<1>3. CASE ~(name \in seen \/ name \notin DOMAIN entries)
  <2>1. /\ seen' = seen \union {name}
        /\ queue' = (queue \ {name}) \union (Entries[name].deps \ (seen \union {name}))
    BY <1>3 DEF Visit
  <2>2. seen' \union queue' = seen \union queue \union Entries[name].deps
    BY <2>1
  <2>3. (seen' \subseteq DOMAIN Entries /\ seen' \union queue' \subseteq Names)
    BY <1>3, <2>1, <2>2 DEF Names
  <2>4. \A n \in seen' : Entries[n].deps \intersect DOMAIN Entries \subseteq seen' \union queue'
    BY <2>1, <2>2
  <2>5. ASSUME NEW names \in SUBSET Names, RuntimeRoots \subseteq names, Closed(names)
        PROVE  seen' \union queue' \subseteq names
    <3>1. name \in names /\ name \in DOMAIN Entries
      BY <1>3, <2>5
    <3>2. Entries[name].deps \subseteq names
      BY <2>5, <3>1 DEF Closed
    <3> QED
      BY <2>2, <2>5, <3>2
  <2> QED
    BY <1>1, <2>2, <2>3, <2>4, <2>5
<1> QED
  BY <1>2, <1>3

(* What a step leaves of the lock it leaves of the inventory. *)
LEMMA SameLockSameInventory ==
    ASSUME UNCHANGED lock
    PROVE  /\ Entries' = Entries /\ Names' = Names /\ RuntimeRoots' = RuntimeRoots
           /\ Inventory' = Inventory /\ ReferencedNames' = ReferencedNames
           /\ \A names : Closed(names)' = Closed(names)
  BY DEF Entries, Names, RuntimeRoots, Closed, LastNamed, Indexed, Packages, Inventory,
         ReferencedNames, InEveryClosure

---------------------------------------------------------------------------
(* The entry of a name is the last package of the index under it. *)

LEMMA EntryIsLast ==
    ASSUME lock \in Locks, NEW i \in Indexed
    PROVE  LET name == lock[i].name
           IN  /\ name \in DOMAIN Entries
               /\ \E last \in Indexed : /\ Entries[name] = lock[last]
                                        /\ lock[last].name = name /\ i <= last
<1> DEFINE name == lock[i].name
           F == {j \in Indexed : lock[j].name = name}
<1>1. PICK n \in Nat : DOMAIN lock = 1..n
  BY LockAssumption
<1>2. F \subseteq 0..n /\ i \in F
  BY <1>1 DEF Indexed
<1>3. PICK k \in F : \A j \in F : j <= k
  <2> HIDE DEF F
  <2> QED BY <1>2, LargestOf
<1>4. LastNamed(name) \in Indexed /\ lock[LastNamed(name)].name = name
      /\ \A j \in Indexed : lock[j].name = name => j <= LastNamed(name)
  BY <1>3 DEF LastNamed
<1>5. name \in DOMAIN Entries /\ Entries[name] = lock[LastNamed(name)]
  BY DEF Entries
<1> QED BY <1>4, <1>5

(* What is named is described, so no edge of the graph is left out. *)
LEMMA EdgesKept ==
    ASSUME ReferencedNames \subseteq DOMAIN Entries, lock \in Locks, NEW name \in DOMAIN Entries
    PROVE  Entries[name].deps \subseteq DOMAIN Entries
<1>1. PICK i \in Indexed : name = lock[i].name
  BY DEF Entries
<1>2. PICK last \in Indexed : Entries[name] = lock[last]
  BY <1>1, EntryIsLast
<1>3. Entries[name] \in Packages
  BY <1>2 DEF Indexed, Packages
<1> QED BY <1>3 DEF ReferencedNames

LEMMA InitInv == SbomInit => SbomInv
  BY DEF SbomInit, SbomInv, Building, Rendered

LEMMA StepInv == SbomInv /\ [SbomNext]_sbomVars => SbomInv'
<1> SUFFICES ASSUME SbomInv, [SbomNext]_sbomVars PROVE SbomInv'
  OBVIOUS
<1> USE DEF SbomInv, Building, Rendered
<1>1. CASE ReadLock
  <2>1. Inventory' = Inventory /\ Entries' = Entries /\ ReferencedNames' = ReferencedNames
    BY <1>1, SameLockSameInventory DEF ReadLock
  <2>2. ASSUME pc' = "reach" PROVE WalkInv'
    <3>1. /\ Entries' = Entries /\ Names' = Names /\ RuntimeRoots' = RuntimeRoots
          /\ \A names : Closed(names)' = Closed(names)
      BY <1>1, SameLockSameInventory DEF ReadLock
    <3>2. entries' = Entries /\ seen' = {} /\ queue' = RuntimeRoots
      BY <1>1 DEF ReadLock
    <3> QED
      BY <3>1, <3>2 DEF WalkInv, Names
  <2>3. pc' \in {"reach", "refused"} /\ earlier' = earlier /\ lock' = lock
    BY <1>1 DEF ReadLock
  <2>4. pc' = "reach" => ReferencedNames \subseteq DOMAIN Entries
    BY <1>1 DEF ReadLock
  <2> QED
    BY <2>1, <2>2, <2>3, <2>4
<1>2. CASE Reach
  <2>1. PICK name \in queue : Visit(name)
    BY <1>2 DEF Reach
  <2>2. WalkInv'
    BY <1>2, <2>1, VisitKeepsWalk DEF Reach
  <2>3. Inventory' = Inventory /\ Entries' = Entries /\ ReferencedNames' = ReferencedNames
    BY <1>2, SameLockSameInventory DEF Reach
  <2> QED
    BY <1>2, <2>2, <2>3 DEF Reach
<1>3. CASE Compose
  <2>1. WalkInv /\ queue = {}
    BY <1>3 DEF Compose
  <2>2. WalkInv'
    BY <1>3, <2>1, SameLockSameInventory DEF Compose, WalkInv
  <2>3. Inventory' = Inventory /\ Entries' = Entries /\ ReferencedNames' = ReferencedNames
    BY <1>3, SameLockSameInventory DEF Compose
  <2>4. pc' = "write" => document' = Inventory
    BY <1>3, <2>1, DocumentIsInventory DEF Compose
  <2> QED
    BY <1>3, <2>2, <2>3, <2>4 DEF Compose
<1>4. CASE WriteSbom
  <2>1. WalkInv /\ document = Inventory
    BY <1>4 DEF WriteSbom
  <2>2. WalkInv'
    BY <1>4, <2>1, SameLockSameInventory DEF WriteSbom, WalkInv
  <2>3. Inventory' = Inventory /\ Entries' = Entries /\ ReferencedNames' = ReferencedNames
    BY <1>4, SameLockSameInventory DEF WriteSbom
  <2> QED
    BY <1>4, <2>1, <2>2, <2>3 DEF WriteSbom
<1>5. CASE Again
  BY <1>5, SameLockSameInventory DEF Again
<1>6. CASE Relock
  BY <1>6 DEF Relock
<1>7. CASE UNCHANGED sbomVars
  <2>1. Inventory' = Inventory /\ Entries' = Entries /\ ReferencedNames' = ReferencedNames
    BY <1>7, SameLockSameInventory DEF sbomVars
  <2>2. WalkInv => WalkInv'
    BY <1>7, SameLockSameInventory DEF sbomVars, WalkInv
  <2> QED
    BY <1>7, <2>1, <2>2 DEF sbomVars
<1> QED
  BY <1>1, <1>2, <1>3, <1>4, <1>5, <1>6, <1>7 DEF SbomNext

(* What the invariant says of a finished run. *)
LEMMA InventoryOmitsNothing == SbomInv => NothingOmitted
<1> SUFFICES ASSUME SbomInv, pc = "written" PROVE NothingOmitted
  BY DEF NothingOmitted
<1>1. /\ sbomFile = document /\ document = Inventory /\ lock \in Locks
      /\ entries = Entries /\ ReferencedNames \subseteq DOMAIN Entries
  BY DEF SbomInv, Building, Rendered, WalkInv
<1>2. /\ DOMAIN sbomFile.components = DOMAIN Entries
      /\ \A name \in DOMAIN Entries :
            /\ sbomFile.components[name].version = Entries[name].version
            /\ sbomFile.dependsOn[name] = Entries[name].deps \intersect DOMAIN Entries
  BY <1>1 DEF Inventory
<1>3. ASSUME NEW i \in Indexed
      PROVE  /\ lock[i].name \in DOMAIN sbomFile.components
             /\ \/ sbomFile.components[lock[i].name].version = lock[i].version
                \/ \E j \in Indexed : j > i /\ lock[j].name = lock[i].name
  <2>1. PICK last \in Indexed : /\ Entries[lock[i].name] = lock[last]
                                /\ lock[last].name = lock[i].name /\ i <= last
    BY <1>1, EntryIsLast
  <2>2. lock[i].name \in DOMAIN Entries
    BY <1>1, EntryIsLast
  <2>3. i \in Int /\ last \in Int
    BY <1>1, LockAssumption DEF Indexed
  <2>4. i = last \/ last > i
    BY <2>1, <2>3
  <2> QED BY <1>2, <2>1, <2>2, <2>4
<1>4. ASSUME NEW name \in DOMAIN Entries
      PROVE  sbomFile.dependsOn[name] = Entries[name].deps
  BY <1>1, <1>2, EdgesKept
<1> QED BY <1>1, <1>3, <1>4 DEF NothingOmitted

THEOREM SbomInductive == SbomSpec => []SbomInv
  BY InitInv, StepInv, PTL DEF SbomSpec

(* Runtime is reachability, for every lock and every order of the worklist. *)
THEOREM RuntimeReachable == SbomSpec => []RuntimeIsReachable
<1>1. SbomInv => RuntimeIsReachable
  BY DEF SbomInv, RuntimeIsReachable, Inventory
<1> QED
  BY <1>1, SbomInductive, PTL

(* One lock, one document. *)
THEOREM OneDocument == SbomSpec => []SameLockSameDocument
<1>1. SbomInv => SameLockSameDocument
  BY DEF SbomInv, SameLockSameDocument
<1> QED
  BY <1>1, SbomInductive, PTL

(* A run that reports success omits no package of the index and no edge. *)
THEOREM NothingIsOmitted == SbomSpec => []NothingOmitted
BY InventoryOmitsNothing, SbomInductive, PTL

-----------------------------------------------------------------------------
(* The seeded fuzzers. *)

Total(n) == n + Targets(n)[2] + n

\* The target that has the input at a position of the stream, and its first one.
TargetAt(n, at) == IF at < n THEN 1 ELSE IF at < n + Targets(n)[2] THEN 2 ELSE 3
FirstOf(n, target) == IF target = 1 THEN 0 ELSE IF target = 2 THEN n ELSE n + Targets(n)[2]

SoundBefore(n, at) == \A b \in Nat : b < at => <<TargetAt(n, b), b>> \notin breaks

HarnessRunType ==
    [state : {"idle", "ready", "built", "done", "killed"}, n : Nat, target : 1..4, i : Nat \ {0},
     at : Nat, report : {<<>>} \union (1..4) \X Nat \X SUBSET Nat]

HarnessTypeOK ==
    /\ runs \in [HarnessRun -> HarnessRunType]
    /\ \A r \in HarnessRun : runs[r].state = "built" => runs[r].target # 4
    /\ \A place \in DOMAIN scratch : scratch[place] \subseteq Nat

\* A run that stands before an input, all it has seen being sound.
Underway(run) ==
    /\ run.n \in Iterations
    /\ SoundBefore(run.n, run.at)
    /\ IF run.target = 4 THEN run.at = Total(run.n)
       ELSE /\ run.at < Total(run.n) /\ run.target = TargetAt(run.n, run.at)
            /\ run.i = run.at - FirstOf(run.n, run.target) + 1

\* A run that is over: its report is the first input that breaks an invariant.
Over(run) ==
    /\ run.n \in Iterations
    /\ SoundBefore(run.n, run.at)
    /\ \/ run.report = <<>> /\ run.at = Total(run.n)
       \/ /\ run.at < Total(run.n)
          /\ run.report = <<TargetAt(run.n, run.at), run.at, {run.at}>>
          /\ <<TargetAt(run.n, run.at), run.at>> \in breaks

\* What a run that nobody is beside has built is there to be read.
InPlace(r) ==
    runs[r].state = "built" /\ runs[r].target \in OnDisk =>
        ScratchOf(r) \in DOMAIN scratch /\ scratch[ScratchOf(r)] = {runs[r].at}

Undisturbed == HarnessRun \ disturbed

HarnessInv ==
    /\ HarnessTypeOK
    /\ \A r \in Undisturbed : Busy(r) => Others(r) = {} /\ Underway(runs[r]) /\ runs[r].report = <<>>
    /\ \A r \in Undisturbed : InPlace(r)
    /\ \A r \in Undisturbed : runs[r].state = "done" => Over(runs[r])

LEMMA TargetSizes ==
    ASSUME NEW n \in Iterations
    PROVE  /\ n \in Nat \ {0} /\ Targets(n)[2] \in Nat \ {0}
           /\ Targets(n)[1] = n /\ Targets(n)[3] = n /\ Len(Targets(n)) = 3
<1>1. n \in Nat /\ n > 0
  BY IterationsAssumption
<1>2. n \div 2 \in Nat
  BY <1>1
<1> QED BY <1>1, <1>2 DEF Targets

\* The next input of a run is the next of the stream.
LEMMA NextIsNext ==
    ASSUME NEW run \in HarnessRunType, Underway(run), run.target # 4, run.report = <<>>,
           <<run.target, run.at>> \notin breaks
    PROVE  Underway(NextInput(run)) /\ NextInput(run) \in HarnessRunType
           /\ NextInput(run).state = "ready" /\ NextInput(run).report = <<>>
<1> DEFINE n == run.n  next == NextInput(run)
<1>1. /\ n \in Nat /\ n > 0 /\ Targets(n)[2] \in Nat /\ Targets(n)[2] > 0
      /\ Targets(n)[1] = n /\ Targets(n)[3] = n
  BY TargetSizes DEF Underway
<1>2. /\ run.at \in Nat /\ run.i \in Nat /\ run.i > 0 /\ run.target \in {1, 2, 3}
      /\ run.at < n + Targets(n)[2] + n
      /\ run.target = TargetAt(n, run.at) /\ run.i = run.at - FirstOf(n, run.target) + 1
  BY DEF HarnessRunType, Underway, Total
<1>3. /\ next.n = n /\ next.at = run.at + 1 /\ next.state = "ready" /\ next.report = <<>>
      /\ IF run.i < Targets(n)[run.target]
         THEN next.target = run.target /\ next.i = run.i + 1
         ELSE next.target = run.target + 1 /\ next.i = 1
  BY <1>2 DEF NextInput, HarnessRunType
<1>4. next \in HarnessRunType
  <2>1. /\ DOMAIN next = DOMAIN run
        /\ next = [state |-> next.state, n |-> next.n, target |-> next.target, i |-> next.i,
                   at |-> next.at, report |-> next.report]
    BY <1>2 DEF NextInput, HarnessRunType
  <2> HIDE DEF next
  <2>2. /\ next.state \in {"idle", "ready", "built", "done", "killed"}
        /\ next.n \in Nat /\ next.target \in 1..4 /\ next.i \in Nat \ {0} /\ next.at \in Nat
        /\ next.report \in {<<>>} \union (1..4) \X Nat \X SUBSET Nat
    BY <1>1, <1>2, <1>3
  <2> QED BY <2>1, <2>2, SMTT(20) DEF HarnessRunType
<1>5. SoundBefore(n, run.at + 1)
  BY <1>2 DEF SoundBefore, Underway
<1> HIDE DEF next, n
<1> DEFINE placed == IF next.target = 4 THEN next.at = Total(n)
                     ELSE /\ next.at < Total(n) /\ next.target = TargetAt(n, next.at)
                          /\ next.i = next.at - FirstOf(n, next.target) + 1
           second == Targets(n)[2]
<1>6. ASSUME run.target = 1 PROVE placed
  <2>1. run.at < n /\ run.i = run.at + 1
    BY <1>1, <1>2, <1>6 DEF TargetAt, FirstOf
  <2> QED BY <1>1, <1>2, <1>3, <1>6, <2>1 DEF TargetAt, FirstOf, Total
<1>7. ASSUME run.target = 2 PROVE placed
  <2>1. run.at >= n /\ run.at < n + second /\ run.i = run.at - n + 1
    BY <1>1, <1>2, <1>7 DEF TargetAt, FirstOf
  <2>2. /\ next.at = run.at + 1
        /\ IF run.i < second THEN next.target = 2 /\ next.i = run.i + 1
                             ELSE next.target = 3 /\ next.i = 1
    BY <1>3, <1>7
  <2>3. second \in Nat /\ second > 0 /\ n \in Nat /\ n > 0 /\ run.at \in Nat /\ run.i \in Nat
    BY <1>1, <1>2
  <2>4. TargetAt(n, next.at) = (IF next.at < n THEN 1 ELSE IF next.at < n + second THEN 2 ELSE 3)
        /\ FirstOf(n, 2) = n /\ FirstOf(n, 3) = n + second /\ Total(n) = n + second + n
    BY DEF TargetAt, FirstOf, Total
  <2> HIDE DEF second
  <2>5. CASE run.i < second
    <3>1. next.target = 2 /\ next.i = run.i + 1
      BY <2>2, <2>5
    <3> QED BY <2>1, <2>2, <2>3, <2>4, <3>1
  <2>6. CASE ~(run.i < second)
    <3>1. next.target = 3 /\ next.i = 1
      BY <2>2, <2>6
    <3>2. next.at = n + second
      BY <2>1, <2>2, <2>3, <2>6
    <3> QED BY <2>3, <2>4, <3>1, <3>2
  <2> QED BY <2>5, <2>6
<1>8. ASSUME run.target = 3 PROVE placed
  <2>1. run.at >= n + second /\ run.i = run.at - (n + second) + 1
    BY <1>1, <1>2, <1>8 DEF TargetAt, FirstOf
  <2>2. /\ next.at = run.at + 1
        /\ IF run.i < n THEN next.target = 3 /\ next.i = run.i + 1
                        ELSE next.target = 4 /\ next.i = 1
    BY <1>1, <1>3, <1>8
  <2>3. /\ second \in Nat /\ second > 0 /\ n \in Nat /\ n > 0 /\ run.at \in Nat /\ run.i \in Nat
        /\ run.at < n + second + n
    BY <1>1, <1>2
  <2>4. TargetAt(n, next.at) = (IF next.at < n THEN 1 ELSE IF next.at < n + second THEN 2 ELSE 3)
        /\ FirstOf(n, 3) = n + second /\ Total(n) = n + second + n
    BY DEF TargetAt, FirstOf, Total
  <2> HIDE DEF second
  <2>5. CASE run.i < n
    <3>1. next.target = 3 /\ next.i = run.i + 1
      BY <2>2, <2>5
    <3> QED BY <2>1, <2>2, <2>3, <2>4, <2>5, <3>1
  <2>6. CASE ~(run.i < n)
    <3>1. next.target = 4
      BY <2>2, <2>6
    <3> QED BY <2>1, <2>2, <2>3, <2>4, <2>6, <3>1
  <2> QED BY <2>5, <2>6
<1>9. n \in Iterations
  BY DEF n, Underway
<1>10. placed
  BY <1>2, <1>6, <1>7, <1>8
<1>11. Underway(next)
  BY <1>3, <1>5, <1>9, <1>10 DEF Underway
<1> QED BY <1>3, <1>4, <1>11 DEF next

\* No two undisturbed runs report differently.
LEMMA ReportsAgree ==
    ASSUME HarnessInv PROVE SeedReplays
<1> SUFFICES ASSUME NEW r \in Undisturbed, NEW q \in Undisturbed,
                    runs[r].state = "done", runs[q].state = "done",
                    runs[r].report # runs[q].report
             PROVE  /\ runs[r].n # runs[q].n
                    /\ ~(runs[r].report # <<>> /\ runs[r].report[1] = 1 /\ runs[r].n <= runs[q].n)
                    /\ ~(runs[q].report # <<>> /\ runs[q].report[1] = 1 /\ runs[q].n <= runs[r].n)
  BY Zenon DEF SeedReplays, Undisturbed
<1>1. Over(runs[r]) /\ Over(runs[q])
  BY DEF HarnessInv
<1>2. runs[r] \in HarnessRunType /\ runs[q] \in HarnessRunType
  BY DEF HarnessInv, HarnessTypeOK, Undisturbed
\* Two reports that differ are of different inputs, or one is of none.
<1>3. ASSUME NEW x \in HarnessRunType, NEW y \in HarnessRunType, Over(x), Over(y),
             x.report # y.report, x.n = y.n
      PROVE  FALSE
  <2>1. x.at \in Nat /\ y.at \in Nat
    BY <1>3 DEF HarnessRunType
  <2>2. ~(x.at < y.at) /\ ~(y.at < x.at)
    BY <1>3, <2>1 DEF Over, SoundBefore
  <2>3. x.at = y.at
    BY <2>1, <2>2
  <2>4. ~(y.at < y.at)
    BY <2>1
  <2>5. CASE x.at < Total(x.n)
    BY <1>3, <2>3, <2>4, <2>5 DEF Over
  <2>6. CASE ~(x.at < Total(x.n))
    BY <1>3, <2>3, <2>4, <2>6 DEF Over
  <2> QED BY <2>5, <2>6
<1>4. ASSUME NEW x \in HarnessRunType, NEW y \in HarnessRunType, Over(x), Over(y),
             x.report # y.report, x.report # <<>>, x.report[1] = 1, x.n <= y.n
      PROVE  FALSE
  <2>1. /\ x.at \in Nat /\ y.at \in Nat /\ x.n \in Nat /\ y.n \in Nat
        /\ Targets(x.n)[2] \in Nat /\ Targets(y.n)[2] \in Nat
    BY <1>3, <1>4, TargetSizes DEF HarnessRunType, Over
  <2>2. /\ x.report = <<TargetAt(x.n, x.at), x.at, {x.at}>> /\ TargetAt(x.n, x.at) = 1
        /\ <<1, x.at>> \in breaks
    BY <1>4 DEF Over
  <2>3. x.at < x.n
    BY <2>1, <2>2 DEF TargetAt
  <2>4. TargetAt(y.n, x.at) = 1
    BY <1>4, <2>1, <2>3 DEF TargetAt
  <2>5. ~(x.at < y.at)
    BY <1>4, <2>1, <2>2, <2>4 DEF Over, SoundBefore
  <2>6. y.at < y.n /\ y.at < Total(y.n)
    BY <1>4, <2>1, <2>3, <2>5 DEF Total
  <2>7. TargetAt(y.n, y.at) = 1 /\ y.report = <<1, y.at, {y.at}>> /\ <<1, y.at>> \in breaks
    <3>1. TargetAt(y.n, y.at) = 1
      BY <2>6 DEF TargetAt
    <3>2. y.at # Total(y.n)
      BY <2>1, <2>6 DEF Total
    <3> QED BY <1>4, <3>1, <3>2 DEF Over
  <2>8. ~(y.at < x.at)
    <3> SUFFICES ASSUME y.at < x.at PROVE FALSE
      OBVIOUS
    <3>1. TargetAt(x.n, y.at) = 1
      BY <2>1, <2>3 DEF TargetAt
    <3> QED BY <1>4, <2>1, <2>7, <3>1 DEF Over, SoundBefore
  <2> QED BY <1>4, <2>1, <2>2, <2>5, <2>7, <2>8
<1> QED BY <1>1, <1>2, <1>3, <1>4

LEMMA HarnessStart == HarnessInit => HarnessInv
<1> SUFFICES ASSUME HarnessInit PROVE HarnessInv
  OBVIOUS
<1>1. IdleRun \in HarnessRunType
  BY DEF IdleRun, HarnessRunType
<1>2. \A r \in HarnessRun : runs[r] = IdleRun
  BY DEF HarnessInit
<1>3. \A r \in HarnessRun : runs[r].state = "idle"
  BY <1>2 DEF IdleRun
<1>4. runs \in [HarnessRun -> HarnessRunType]
  BY <1>1 DEF HarnessInit
<1>5. \A place \in DOMAIN scratch : scratch[place] \subseteq Nat
  BY DEF HarnessInit
<1>6. HarnessTypeOK
  BY <1>3, <1>4, <1>5 DEF HarnessTypeOK
<1> QED BY <1>6, <1>3 DEF HarnessInv, Undisturbed, Busy, InPlace

\* What a step does to the runs it is not a step of: nothing, unless it disturbs them.
LEMMA OthersInPlace ==
    ASSUME HarnessInv, NEW r \in HarnessRun, NEW q \in Undisturbed, q # r, Busy(r)
    PROVE  ~Busy(q)
BY DEF HarnessInv, Others, Undisturbed

\* A run whose state is left alone keeps what the invariant says of it.
LEMMA RunKept ==
    ASSUME NEW r \in HarnessRun, runs'[r] = runs[r], breaks' = breaks
    PROVE  /\ Underway(runs[r])' <=> Underway(runs[r])
           /\ Over(runs[r])' <=> Over(runs[r])
           /\ Busy(r)' <=> Busy(r)
BY DEF Underway, Over, Busy, SoundBefore, TargetAt, FirstOf, Total, Targets

LEMMA StartedRun ==
    ASSUME NEW n, NEW idle, idle = IdleRun,
           NEW run, run = [idle EXCEPT !.state = "ready", !.n = n, !.at = 0]
    PROVE  run = [state |-> "ready", n |-> n, target |-> 1, i |-> 1, at |-> 0, report |-> <<>>]
BY DEF IdleRun

LEMMA StartKeeps ==
    ASSUME HarnessInv, NEW r \in HarnessRun, StartRun(r) PROVE HarnessInv'
<1>1. PICK n \in Iterations :
        runs' = [runs EXCEPT ![r] = [IdleRun EXCEPT !.state = "ready", !.n = n, !.at = StartAt]]
  BY DEF StartRun
<1> DEFINE new == [IdleRun EXCEPT !.state = "ready", !.n = n, !.at = StartAt]
<1>2. /\ n \in Nat /\ n > 0 /\ Targets(n)[2] \in Nat
  BY TargetSizes
<1>3. /\ new \in HarnessRunType /\ new.report = <<>> /\ new.state = "ready" /\ new.n = n
      /\ new.target = 1 /\ new.i = 1 /\ new.at = 0
  <2>1. new = [IdleRun EXCEPT !.state = "ready", !.n = n, !.at = StartAt]
    OBVIOUS
  <2> HIDE DEF new
  <2>2. new = [state |-> "ready", n |-> n, target |-> 1, i |-> 1, at |-> 0, report |-> <<>>]
    BY <2>1, StartedRun DEF StartAt
  <2> QED BY <1>2, <2>2 DEF HarnessRunType
<1>4. /\ scratch' = scratch /\ breaks' = breaks
      /\ disturbed' = disturbed \union (IF Others(r) = {} THEN {} ELSE {r} \union Others(r))
  BY DEF StartRun
<1>5. runs \in [HarnessRun -> HarnessRunType]
  BY DEF HarnessInv, HarnessTypeOK
<1> HIDE DEF new
<1>6. /\ runs'[r] = new /\ \A q \in HarnessRun : q # r => runs'[q] = runs[q]
      /\ runs' \in [HarnessRun -> HarnessRunType]
  BY <1>1, <1>3, <1>5 DEF new
<1>7. HarnessTypeOK'
  <2>1. \A q \in HarnessRun : runs'[q].state = "built" => runs'[q].target # 4
    BY <1>3, <1>6 DEF HarnessInv, HarnessTypeOK
  <2> QED BY <1>4, <1>6, <2>1 DEF HarnessInv, HarnessTypeOK
<1>8. Underway(runs[r])'
  <2>1. SoundBefore(n, 0)'
    BY DEF SoundBefore
  <2>2. TargetAt(n, 0) = 1 /\ FirstOf(n, 1) = 0 /\ 0 < Total(n)
    BY <1>2 DEF TargetAt, FirstOf, Total
  <2>3. runs'[r].n = n /\ runs'[r].at = 0 /\ runs'[r].target = 1 /\ runs'[r].i = 1
    BY <1>3, <1>6
  <2> QED BY <2>1, <2>2, <2>3 DEF Underway, TargetAt, FirstOf, Total, Targets
<1>9. ASSUME NEW q \in Undisturbed'
      PROVE  /\ q \in Undisturbed /\ (q = r => Others(r) = {}) /\ (q # r => q \notin Others(r))
  BY <1>4, <1>9 DEF Undisturbed
<1>10. ASSUME NEW q \in Undisturbed', Busy(q)'
       PROVE  Others(q)' = {} /\ Underway(runs[q])' /\ runs'[q].report = <<>>
  <2>1. CASE q = r
    <3>1. \A p \in HarnessRun \ {r} : ~Busy(p)'
      <4> SUFFICES ASSUME NEW p \in HarnessRun \ {r} PROVE ~Busy(p)'
        OBVIOUS
      <4>1. ~Busy(p)
        BY <1>9, <2>1, <1>10 DEF Others
      <4> QED BY <1>6, <4>1 DEF Busy
    <3> QED BY <1>3, <1>6, <1>8, <2>1, <3>1 DEF Others
  <2>2. CASE q # r
    <3>1. q \in HarnessRun /\ ~Busy(q)
      BY <1>9, <1>10, <2>2 DEF Others, Undisturbed
    <3> QED BY <1>6, <1>10, <2>2, <3>1 DEF Busy
  <2> QED BY <2>1, <2>2
<1>11. ASSUME NEW q \in Undisturbed' PROVE InPlace(q)'
  <2>1. CASE q = r
    BY <1>3, <1>6, <2>1 DEF InPlace
  <2>2. CASE q # r
    <3>1. InPlace(q) /\ q \in HarnessRun
      BY <1>9, <1>11 DEF HarnessInv, Undisturbed
    <3> QED BY <1>4, <1>6, <2>2, <3>1 DEF InPlace, ScratchOf
  <2> QED BY <2>1, <2>2
<1>12. ASSUME NEW q \in Undisturbed', runs'[q].state = "done" PROVE Over(runs[q])'
  <2>1. q # r
    BY <1>3, <1>6, <1>12
  <2>2. q \in HarnessRun /\ runs'[q] = runs[q] /\ Over(runs[q])
    BY <1>6, <1>9, <1>12, <2>1 DEF HarnessInv, Undisturbed
  <2> QED BY <1>4, <2>2, RunKept
<1> QED BY <1>7, <1>10, <1>11, <1>12 DEF HarnessInv

\* A step of a busy run concerns no undisturbed run but itself.
LEMMA MoveKeeps ==
    ASSUME HarnessInv, NEW r \in HarnessRun, Busy(r), NEW run \in HarnessRunType,
           runs' = [runs EXCEPT ![r] = run], breaks' = breaks, disturbed' = disturbed,
           \A place \in DOMAIN scratch' : scratch'[place] \subseteq Nat,
           run.state = "built" => run.target # 4,
           r \in Undisturbed =>
               /\ run.state \in {"ready", "built"} => Underway(run) /\ run.report = <<>>
               /\ run.state = "done" => Over(run)
               /\ InPlace(r)'
    PROVE  HarnessInv'
<1>1. /\ runs \in [HarnessRun -> HarnessRunType] /\ runs' \in [HarnessRun -> HarnessRunType]
      /\ runs'[r] = run /\ \A q \in HarnessRun : q # r => runs'[q] = runs[q]
      /\ Undisturbed' = Undisturbed /\ Undisturbed \subseteq HarnessRun
  BY DEF HarnessInv, HarnessTypeOK, Undisturbed
<1>2. \A q \in Undisturbed : q # r => ~Busy(q) /\ ~Busy(q)'
  BY <1>1, OthersInPlace DEF Busy
<1>3. ASSUME NEW q \in Undisturbed, Busy(q)'
      PROVE  Others(q)' = {} /\ Underway(runs[q])' /\ runs'[q].report = <<>>
  <2>1. q = r
    BY <1>2, <1>3
  <2>2. Others(r) = {}
    BY <1>3, <2>1 DEF HarnessInv
  <2>3. Others(r)' = {}
    BY <1>1, <2>2 DEF Others, Busy
  <2>4. Underway(run) /\ run.report = <<>>
    BY <1>1, <1>3, <2>1 DEF Busy
  <2>5. Underway(runs[r])'
    BY <1>1, <2>4 DEF Underway, SoundBefore, TargetAt, FirstOf, Total, Targets
  <2> QED BY <1>1, <2>1, <2>3, <2>4, <2>5
<1>4. ASSUME NEW q \in Undisturbed PROVE InPlace(q)'
  BY <1>2, <1>4 DEF InPlace, Busy
<1>5. ASSUME NEW q \in Undisturbed, runs'[q].state = "done" PROVE Over(runs[q])'
  <2>1. CASE q = r
    <3>1. Over(run)
      BY <1>1, <1>5, <2>1
    <3> QED BY <1>1, <2>1, <3>1 DEF Over, SoundBefore, TargetAt, Total, Targets
  <2>2. CASE q # r
    <3>1. runs'[q] = runs[q] /\ Over(runs[q]) /\ q \in HarnessRun
      BY <1>1, <1>5, <2>2 DEF HarnessInv
    <3> QED BY <3>1, RunKept
  <2> QED BY <2>1, <2>2
<1> QED BY <1>1, <1>3, <1>4, <1>5 DEF HarnessInv, HarnessTypeOK

LEMMA BuildKeeps ==
    ASSUME HarnessInv, NEW r \in HarnessRun, BuildInput(r) PROVE HarnessInv'
<1> DEFINE run == [runs[r] EXCEPT !.state = "built"]  place == ScratchOf(r)
<1>1. /\ runs[r] \in HarnessRunType /\ runs[r].state = "ready" /\ Busy(r)
      /\ runs \in [HarnessRun -> HarnessRunType]
  BY DEF HarnessInv, HarnessTypeOK, BuildInput, Busy
<1>2. /\ run \in HarnessRunType /\ run.state = "built" /\ run.n = runs[r].n /\ run.at = runs[r].at
      /\ run.target = runs[r].target /\ run.i = runs[r].i /\ run.report = runs[r].report
  BY <1>1 DEF HarnessRunType
<1>3. runs' = [runs EXCEPT ![r] = run] /\ breaks' = breaks /\ disturbed' = disturbed
  BY DEF BuildInput
<1>4. /\ DOMAIN scratch' = DOMAIN scratch \union {p \in {place} : p[1] \in OnDisk}
      /\ \A p \in DOMAIN scratch' :
            scratch'[p] = IF p = place THEN Cleared(place) \union {runs[r].at} ELSE scratch[p]
  BY DEF BuildInput
<1> HIDE DEF run, place
<1>5. \A p \in DOMAIN scratch' : scratch'[p] \subseteq Nat
  <2> SUFFICES ASSUME NEW p \in DOMAIN scratch' PROVE scratch'[p] \subseteq Nat
    OBVIOUS
  <2>1. CASE p = place
    <3>1. scratch'[p] = {runs[r].at}
      BY <1>4, <2>1 DEF Cleared
    <3> QED BY <1>1, <3>1 DEF HarnessRunType
  <2>2. CASE p # place
    BY <1>4, <2>2 DEF HarnessInv, HarnessTypeOK
  <2> QED BY <2>1, <2>2
<1>6. run.target # 4
  <2>1. Len(Targets(runs[r].n)) = 3
    BY DEF Targets
  <2> QED BY <1>1, <1>2, <2>1 DEF BuildInput, HarnessRunType
<1>7. ASSUME r \in Undisturbed PROVE Underway(run) /\ run.report = <<>> /\ InPlace(r)'
  <2>1. Underway(runs[r]) /\ runs[r].report = <<>>
    BY <1>1, <1>7 DEF HarnessInv
  <2>2. Underway(run) /\ run.report = <<>>
    BY <1>2, <2>1 DEF Underway
  <2>3. runs'[r] = run
    BY <1>1, <1>3
  <2>4. ScratchOf(r)' = place /\ place[1] = runs[r].target
    BY <1>2, <2>3 DEF ScratchOf, place
  <2>5. run.target \in OnDisk => place \in DOMAIN scratch' /\ scratch'[place] = {run.at}
    BY <1>2, <1>4, <2>4 DEF Cleared
  <2> QED BY <2>2, <2>3, <2>4, <2>5 DEF InPlace
<1> QED BY <1>1, <1>2, <1>3, <1>5, <1>6, <1>7, MoveKeeps

LEMMA FinishKeeps ==
    ASSUME HarnessInv, NEW r \in HarnessRun, Finish(r) PROVE HarnessInv'
<1> DEFINE run == [runs[r] EXCEPT !.state = "done"]
<1>1. /\ runs[r] \in HarnessRunType /\ runs[r].state = "ready" /\ Busy(r)
      /\ runs \in [HarnessRun -> HarnessRunType]
  BY DEF HarnessInv, HarnessTypeOK, Finish, Busy
<1>2. /\ run \in HarnessRunType /\ run.state = "done" /\ run.n = runs[r].n /\ run.at = runs[r].at
      /\ run.report = runs[r].report
  BY <1>1 DEF HarnessRunType
<1>3. runs' = [runs EXCEPT ![r] = run] /\ breaks' = breaks /\ disturbed' = disturbed /\ scratch' = <<>>
  BY DEF Finish
<1> HIDE DEF run
<1>4. ASSUME r \in Undisturbed PROVE Over(run) /\ InPlace(r)'
  <2>1. Underway(runs[r]) /\ runs[r].report = <<>>
    BY <1>1, <1>4 DEF HarnessInv
  <2>2. runs[r].target = 4
    <3>1. Len(Targets(runs[r].n)) = 3
      BY DEF Targets
    <3> QED BY <1>1, <3>1 DEF Finish, HarnessRunType
  <2>3. Over(run)
    BY <1>2, <2>1, <2>2 DEF Underway, Over
  <2>4. runs'[r].state = "done"
    BY <1>1, <1>2, <1>3
  <2> QED BY <2>3, <2>4 DEF InPlace
<1>5. \A p \in DOMAIN scratch' : scratch'[p] \subseteq Nat
  BY <1>3
<1> QED BY <1>1, <1>2, <1>3, <1>4, <1>5, MoveKeeps

LEMMA KillKeeps ==
    ASSUME HarnessInv, NEW r \in HarnessRun, KillRun(r) PROVE HarnessInv'
<1> DEFINE run == [runs[r] EXCEPT !.state = "killed"]
<1>1. runs[r] \in HarnessRunType /\ runs \in [HarnessRun -> HarnessRunType] /\ Busy(r)
  BY DEF HarnessInv, HarnessTypeOK, KillRun
<1>2. run \in HarnessRunType /\ run.state = "killed"
  BY <1>1 DEF HarnessRunType
<1>3. runs' = [runs EXCEPT ![r] = run] /\ breaks' = breaks /\ disturbed' = disturbed /\ scratch' = scratch
  BY DEF KillRun
<1> HIDE DEF run
<1>4. InPlace(r)'
  BY <1>1, <1>2, <1>3 DEF InPlace
<1>5. \A p \in DOMAIN scratch' : scratch'[p] \subseteq Nat
  BY <1>3 DEF HarnessInv, HarnessTypeOK
<1> QED BY <1>1, <1>2, <1>3, <1>4, <1>5, MoveKeeps

\* What a run that nobody is beside reads is what it has built.
LEMMA CheckKeeps ==
    ASSUME HarnessInv, NEW r \in HarnessRun, CheckInput(r) PROVE HarnessInv'
<1> DEFINE at == runs[r].at  target == runs[r].target
           read == IF target \notin OnDisk THEN {at}
                   ELSE IF ScratchOf(r) \in DOMAIN scratch THEN scratch[ScratchOf(r)] ELSE {}
           ok == read = {at} /\ <<target, at>> \notin breaks
           failed == [runs[r] EXCEPT !.state = "done", !.report = <<target, at, read>>]
<1>1. /\ runs[r] \in HarnessRunType /\ runs[r].state = "built" /\ Busy(r)
      /\ runs \in [HarnessRun -> HarnessRunType] /\ breaks' = breaks /\ disturbed' = disturbed
      /\ at \in Nat /\ target \in 1..4 /\ target # 4
  BY DEF HarnessInv, HarnessTypeOK, CheckInput, Busy, HarnessRunType
<1>2. read \subseteq Nat
  BY <1>1 DEF HarnessInv, HarnessTypeOK
<1>3. \/ /\ ok /\ runs' = [runs EXCEPT ![r] = NextInput(runs[r])]
         /\ scratch' = [place \in DOMAIN scratch \ {ScratchOf(r)} |-> scratch[place]]
      \/ ~ok /\ runs' = [runs EXCEPT ![r] = failed] /\ scratch' = <<>>
  BY DEF CheckInput
<1>4. /\ failed \in HarnessRunType /\ failed.state = "done" /\ failed.n = runs[r].n
      /\ failed.at = at /\ failed.report = <<target, at, read>>
  <2>1. <<target, at, read>> \in (1..4) \X Nat \X SUBSET Nat
    BY <1>1, <1>2
  <2> HIDE DEF read
  <2> QED BY <1>1, <2>1 DEF HarnessRunType
<1>5. \A p \in DOMAIN scratch' : scratch'[p] \subseteq Nat
  BY <1>3 DEF HarnessInv, HarnessTypeOK
<1>6. r \in Undisturbed =>
          Underway(runs[r]) /\ runs[r].report = <<>> /\ read = {at}
  BY <1>1 DEF HarnessInv, InPlace
<1> HIDE DEF read, failed
<1>7. CASE ok /\ runs' = [runs EXCEPT ![r] = NextInput(runs[r])]
  <2>1. NextInput(runs[r]) \in HarnessRunType /\ NextInput(runs[r]).state = "ready"
        /\ NextInput(runs[r]).report = runs[r].report
    <3> DEFINE next == NextInput(runs[r])
    <3>1. /\ DOMAIN next = DOMAIN runs[r]
          /\ next = [state |-> next.state, n |-> next.n, target |-> next.target, i |-> next.i,
                     at |-> next.at, report |-> next.report]
      BY <1>1 DEF NextInput, HarnessRunType
    <3>2. /\ next.state = "ready" /\ next.n = runs[r].n /\ next.at = at + 1
          /\ next.report = runs[r].report
          /\ \/ next.target = target /\ next.i = runs[r].i + 1
             \/ next.target = target + 1 /\ next.i = 1
      BY <1>1 DEF NextInput, HarnessRunType
    <3> HIDE DEF next
    <3>3. /\ runs[r].n \in Nat /\ runs[r].i \in Nat
          /\ runs[r].report \in {<<>>} \union (1..4) \X Nat \X SUBSET Nat
      BY <1>1 DEF HarnessRunType
    <3>4. next.target \in 1..4 /\ next.i \in Nat \ {0} /\ next.at \in Nat
      BY <1>1, <3>2, <3>3
    <3>5. next \in HarnessRunType
      BY <3>1, <3>2, <3>3, <3>4 DEF HarnessRunType
    <3> QED BY <3>2, <3>5 DEF next
  <2>2. InPlace(r)'
    BY <1>1, <1>7, <2>1 DEF InPlace
  <2>3. r \in Undisturbed => Underway(NextInput(runs[r])) /\ NextInput(runs[r]).report = <<>>
    BY <1>1, <1>6, <1>7, NextIsNext
  <2> QED BY <1>1, <1>5, <1>7, <2>1, <2>2, <2>3, MoveKeeps
<1>8. CASE ~ok /\ runs' = [runs EXCEPT ![r] = failed]
  <2>1. InPlace(r)'
    BY <1>1, <1>4, <1>8 DEF InPlace
  <2>2. r \in Undisturbed => Over(failed)
    <3> SUFFICES ASSUME r \in Undisturbed PROVE Over(failed)
      OBVIOUS
    <3>1. /\ runs[r].n \in Iterations /\ SoundBefore(runs[r].n, at) /\ at < Total(runs[r].n)
          /\ target = TargetAt(runs[r].n, at) /\ read = {at}
      BY <1>1, <1>6 DEF Underway
    <3>2. <<target, at>> \in breaks
      BY <1>8, <3>1
    <3> QED BY <1>4, <3>1, <3>2 DEF Over
  <2> QED BY <1>1, <1>4, <1>5, <1>8, <2>1, <2>2, MoveKeeps
<1> QED BY <1>3, <1>7, <1>8

LEMMA HarnessStutters ==
    ASSUME HarnessInv, UNCHANGED harnessVars PROVE HarnessInv'
<1>1. runs' = runs /\ scratch' = scratch /\ breaks' = breaks /\ disturbed' = disturbed
  BY DEF harnessVars
<1>2. HarnessTypeOK' /\ Undisturbed' = Undisturbed /\ Undisturbed \subseteq HarnessRun
  BY <1>1 DEF HarnessInv, HarnessTypeOK, Undisturbed
<1>3. ASSUME NEW r \in Undisturbed
      PROVE  /\ Others(r)' = Others(r) /\ InPlace(r)' = InPlace(r)
             /\ Underway(runs[r])' <=> Underway(runs[r])
             /\ Over(runs[r])' <=> Over(runs[r])
             /\ Busy(r)' <=> Busy(r)
  <2>1. Others(r)' = Others(r) /\ InPlace(r)' = InPlace(r)
    BY <1>1 DEF Others, Busy, InPlace, ScratchOf
  <2> QED BY <1>1, <1>2, <1>3, <2>1, RunKept
<1> QED BY <1>1, <1>2, <1>3 DEF HarnessInv

LEMMA HarnessInductive == HarnessSpec => []HarnessInv
<1>1. HarnessInv /\ [HarnessNext]_harnessVars => HarnessInv'
  BY StartKeeps, BuildKeeps, CheckKeeps, FinishKeeps, KillKeeps, HarnessStutters DEF HarnessNext
<1> QED BY HarnessStart, <1>1, PTL DEF HarnessSpec

-----------------------------------------------------------------------------
(* The directory of the evidence fuzzer. *)

RunDirInv == directory = handed /\ written = DOMAIN handed

LEMMA WriteRunKeeps ==
    ASSUME RunDirInv, WriteRun PROVE RunDirInv'
<1>1. PICK names \in SUBSET (SegmentFile \union {IndexFile}) : \E files \in [names -> Bytes] :
        /\ directory' = [name \in (DOMAIN directory \ (written \ names)) \union names |->
                            IF name \in names THEN files[name] ELSE directory[name]]
        /\ written' = Written(files)
        /\ handed' = files
  BY DEF WriteRun
<1>2. PICK files \in [names -> Bytes] :
        /\ directory' = [name \in (DOMAIN directory \ (written \ names)) \union names |->
                            IF name \in names THEN files[name] ELSE directory[name]]
        /\ written' = Written(files)
        /\ handed' = files
  BY <1>1
<1>3. (DOMAIN directory \ (written \ names)) \union names = names
  BY DEF RunDirInv
<1>4. directory' = files
  BY <1>2, <1>3
<1> QED BY <1>2, <1>4 DEF RunDirInv, Written

LEMMA RunDirInductive == RunDirSpec => []RunDirInv
<1>1. RunDirInit => RunDirInv
  BY DEF RunDirInit, RunDirInv
<1>2. RunDirInv /\ [RunDirNext]_runDirVars => RunDirInv'
  BY WriteRunKeeps DEF RunDirNext, runDirVars, RunDirInv
<1> QED BY <1>1, <1>2, PTL DEF RunDirSpec

(* "A failing seed replays exactly": whatever a killed run has left in the scratch    *)
(* directory, two runs that ran alone agree on the first input that breaks an         *)
(* invariant; and the directory of the evidence fuzzer holds its last input only.     *)
THEOREM FailuresReplay == HarnessSpec /\ RunDirSpec => []FuzzVerdict
<1>1. HarnessInv /\ RunDirInv => FuzzVerdict
  BY ReportsAgree DEF RunDirInv, InputStandsAlone, FuzzVerdict
<1> QED BY HarnessInductive, RunDirInductive, <1>1, PTL

-----------------------------------------------------------------------------
(* The config contract. *)

\* What is above a key that is above another is above that one.
LEMMA AboveTransitive ==
    ASSUME NEW S, NEW key \in Seq(S), NEW k \in Above(key), NEW j \in Above(k)
    PROVE  j \in Above(key)
<1>1. PICK n \in 1..(Len(key) - 1) : k = SubSeq(key, 1, n)
  BY DEF Above
<1>2. k \in Seq(S) /\ Len(k) = n /\ \A i \in 1..n : k[i] = key[i]
  BY <1>1
<1>3. PICK m \in 1..(n - 1) : j = SubSeq(k, 1, m)
  BY <1>2 DEF Above
<1>4. j \in Seq(S) /\ Len(j) = m /\ \A i \in 1..m : j[i] = k[i]
  BY <1>2, <1>3
<1>5. m \in 1..(Len(key) - 1) /\ SubSeq(key, 1, m) \in Seq(S) /\ Len(SubSeq(key, 1, m)) = m
      /\ \A i \in 1..m : SubSeq(key, 1, m)[i] = key[i]
  BY <1>1, <1>3
<1>6. j = SubSeq(key, 1, m)
  BY <1>2, <1>3, <1>4, <1>5
<1> QED BY <1>5, <1>6 DEF Above

\* What is above a key of the schema is in the schema, and is no value.
ContractInv ==
    /\ DOMAIN declared \subseteq ConfigKey
    /\ \A key \in DOMAIN declared :
          declared[key] \in [kind : {"value", "section", "patterns"}, default : BOOLEAN]
    /\ \A key \in DOMAIN declared : \A k \in Above(key) :
          k \in DOMAIN declared /\ declared[k].kind # "value"

LEMMA ContractStart == ContractInit => ContractInv
<1> SUFFICES ASSUME ContractInit PROVE ContractInv
  OBVIOUS
<1>1. CASE declared = ShippedSchema
  <2>1. ASSUME NEW key \in DOMAIN ShippedSchema, NEW k \in Above(key)
        PROVE  k \in DOMAIN ShippedSchema /\ ShippedSchema[k].kind # "value"
    <3>1. PICK n \in 1..(Len(key) - 1) : k = SubSeq(key, 1, n)
      BY Zenon DEF Above
    <3> QED BY <3>1, ContractAssumption, Zenon
  <2> QED BY <1>1, <2>1, ContractAssumption DEF ContractInv
<1>2. CASE declared = <<>>
  BY <1>2 DEF ContractInv
<1> QED BY <1>1, <1>2 DEF ContractInit

LEMMA DeclareKeyKeeps == ContractInv /\ DeclareKey => ContractInv'
<1> SUFFICES ASSUME ContractInv, DeclareKey PROVE ContractInv'
  OBVIOUS
<1>1. PICK key \in ConfigKey \ DOMAIN declared, default \in BOOLEAN, kind \in {"value", "section"} :
        /\ \A k \in Above(key) : k \in DOMAIN declared /\ declared[k].kind # "value"
        /\ declared' = [k \in DOMAIN declared \union {key} |->
                        IF k = key THEN [kind |-> kind, default |-> default] ELSE declared[k]]
  BY DEF DeclareKey
<1>2. /\ DOMAIN declared' = DOMAIN declared \union {key}
      /\ declared'[key] = [kind |-> kind, default |-> default]
      /\ \A k \in DOMAIN declared : declared'[k] = declared[k]
  BY <1>1
<1>3. declared'[key] \in [kind : {"value", "section", "patterns"}, default : BOOLEAN]
  BY <1>2
<1>4. \A k \in DOMAIN declared' :
          declared'[k] \in [kind : {"value", "section", "patterns"}, default : BOOLEAN]
  BY <1>2, <1>3 DEF ContractInv
<1>5. \A x \in DOMAIN declared' : \A k \in Above(x) :
          k \in DOMAIN declared' /\ declared'[k].kind # "value"
  BY <1>1, <1>2 DEF ContractInv
<1> QED BY <1>2, <1>4, <1>5 DEF ContractInv, Above

LEMMA DropKeyKeeps == ContractInv /\ DropKey => ContractInv'
<1> SUFFICES ASSUME ContractInv, DropKey PROVE ContractInv'
  OBVIOUS
<1>1. PICK key \in DOMAIN declared :
        declared' = [k \in {x \in DOMAIN declared : key \notin Above(x) \union {x}} |-> declared[k]]
  BY DEF DropKey
<1>2. /\ DOMAIN declared' = {x \in DOMAIN declared : key \notin Above(x) \union {x}}
      /\ \A k \in DOMAIN declared' : declared'[k] = declared[k]
  BY <1>1
<1>3. ASSUME NEW x \in DOMAIN declared', NEW k \in Above(x)
      PROVE  k \in DOMAIN declared' /\ declared'[k].kind # "value"
  <2>1. x \in ConfigKey /\ x \in DOMAIN declared /\ key \notin Above(x)
    BY <1>2, <1>3 DEF ContractInv
  <2>2. x \in Seq(STRING)
    BY <2>1, ContractAssumption
  <2>3. k \in DOMAIN declared /\ declared[k].kind # "value"
    BY <1>3, <2>1 DEF ContractInv
  <2>4. key \notin Above(k)
    BY <1>3, <2>1, <2>2, AboveTransitive
  <2>5. key # k
    BY <1>3, <2>1
  <2> QED BY <1>2, <2>3, <2>4, <2>5
<1> QED BY <1>2, <1>3 DEF ContractInv, Above

LEMMA EditKeyKeeps == ContractInv /\ EditKey => ContractInv'
<1> SUFFICES ASSUME ContractInv, EditKey PROVE ContractInv'
  OBVIOUS
<1>1. PICK key \in DOMAIN declared :
        \/ declared' = [declared EXCEPT ![key].default = ~@]
        \/ /\ declared[key].kind # "value"
           /\ declared' = [declared EXCEPT ![key].kind = IF @ = "section" THEN "patterns" ELSE "section"]
  BY DEF EditKey
<1>2. declared[key] \in [kind : {"value", "section", "patterns"}, default : BOOLEAN]
  BY DEF ContractInv
<1>3. /\ DOMAIN declared' = DOMAIN declared
      /\ \A k \in DOMAIN declared : k # key => declared'[k] = declared[k]
  BY <1>1
<1>4. /\ declared'[key] \in [kind : {"value", "section", "patterns"}, default : BOOLEAN]
      /\ declared[key].kind # "value" => declared'[key].kind # "value"
  <2>1. CASE declared' = [declared EXCEPT ![key].default = ~@]
    BY <1>2, <2>1
  <2>2. CASE /\ declared[key].kind # "value"
             /\ declared' = [declared EXCEPT ![key].kind = IF @ = "section" THEN "patterns" ELSE "section"]
    BY <1>2, <2>2
  <2> QED BY <1>1, <2>1, <2>2
<1>5. \A k \in DOMAIN declared' :
          declared'[k] \in [kind : {"value", "section", "patterns"}, default : BOOLEAN]
  BY <1>3, <1>4 DEF ContractInv
<1>6. \A x \in DOMAIN declared' : \A k \in Above(x) :
          k \in DOMAIN declared' /\ declared'[k].kind # "value"
  BY <1>3, <1>4 DEF ContractInv
<1> QED BY <1>3, <1>5, <1>6 DEF ContractInv, Above

LEMMA ContractInductive == ContractSpec => []ContractInv
<1>1. ContractInv /\ [ContractNext]_contractVars => ContractInv'
  <2> SUFFICES ASSUME ContractInv, [ContractNext]_contractVars PROVE ContractInv'
    OBVIOUS
  <2>1. ASSUME UNCHANGED declared PROVE ContractInv'
    BY <2>1 DEF ContractInv, Above
  <2>2. CASE DeclareKey
    BY <2>2, DeclareKeyKeeps
  <2>3. CASE DropKey
    BY <2>3, DropKeyKeeps
  <2>4. CASE EditKey
    BY <2>4, EditKeyKeeps
  <2>5. CASE EditSpelled
    BY <2>1, <2>5 DEF EditSpelled
  <2>6. CASE EditTable
    BY <2>1, <2>6 DEF EditTable
  <2>7. CASE UNCHANGED contractVars
    BY <2>1, <2>7 DEF contractVars
  <2> QED BY <2>2, <2>3, <2>4, <2>5, <2>6, <2>7 DEF ContractNext
<1> QED BY <1>1, ContractStart, PTL DEF ContractSpec

LEMMA LeavesAreFilled ==
    ContractInv => EveryKeyHasValue
<1> SUFFICES ASSUME ContractInv, ContractIssues \union ExampleIssues = {}, NoSectionDefault,
                    NEW key \in DOMAIN declared, declared[key].kind = "value", Walked(key)
             PROVE  HasValue(key) /\ Documented(key)
  BY DEF EveryKeyHasValue
<1>1. Below(key, DOMAIN declared) = {}
  BY DEF Below, ContractInv
<1>2. key \in Leaves
  BY <1>1 DEF Leaves
<1>3. /\ ~(\E k \in Leaves : ~Documented(k))
      /\ ~(\E k \in Leaves : ~declared[k].default /\ k \notin ExampleLeaves)
  <2> DEFINE found == [undocumented |-> \E k \in Leaves : ~Documented(k),
                       required |-> \E k \in Leaves : ~declared[k].default /\ k \notin ExampleLeaves]
  <2>1. Broken(found) = {}
    BY DEF ContractIssues
  <2>2. \A rule \in DOMAIN found : ~found[rule]
    BY <2>1 DEF Broken
  <2>3. "undocumented" \in DOMAIN found /\ "required" \in DOMAIN found
    OBVIOUS
  <2>4. ~found.undocumented /\ ~found.required
    BY Zenon, <2>2, <2>3
  <2> QED BY <2>4
<1>4. Documented(key)
  BY <1>2, <1>3
<1>5. CASE key \in ExampleLeaves
  BY <1>4, <1>5 DEF ExampleLeaves, HasValue
<1>6. CASE key \notin ExampleLeaves
  <2>1. declared[key].default
    BY <1>2, <1>3, <1>6
  <2>2. ASSUME NEW k \in Above(key) PROVE FilledSection(k)
    <3>1. k \in DOMAIN declared /\ declared[k].kind \notin {"value", "patterns"}
      BY DEF Walked, ContractInv
    <3>2. declared[k].kind = "section"
      BY <3>1 DEF ContractInv
    <3>3. key \in Below(k, DOMAIN declared)
      BY DEF Below
    <3>4. ~declared[k].default
      BY <3>1, <3>3 DEF NoSectionDefault
    <3> QED BY <3>2, <3>4 DEF FilledSection
  <2> QED BY <1>4, <2>1, <2>2 DEF HasValue
<1> QED BY <1>5, <1>6

(* Whatever is edited in the schema, the example and the table: in a tree the gate    *)
(* passes the example, or a default, gives every key it walks a value, and a row      *)
(* names it.                                                                          *)
THEOREM NoKeyWithoutValue == ContractSpec => []EveryKeyHasValue
BY ContractInductive, LeavesAreFilled, PTL

-----------------------------------------------------------------------------
(* The registries and the workflow. *)

Imported == {ImportName[d] : d \in Distribution}

ToolsType ==
    [fuzzers : SUBSET Fuzzer, selfTests : SUBSET SelfTesting,
     imports : SUBSET [place : Place, name : Imported],
     files : SUBSET [place : Place, stem : Imported]]

MakefileType ==
    [fuzzers : Seq(Fuzzer), recipe : Seq([name : Fuzzer, live : BOOLEAN]),
     selfTests : SUBSET SelfTesting, looped : BOOLEAN,
     exercise : SUBSET [name : Exercised, live : BOOLEAN],
     runLocked : BOOLEAN, setupLocked : BOOLEAN, seed : Seed \union {Unset},
     mentioned : SUBSET Imported, targets : SUBSET BackupTarget, ci : SUBSET TestTarget]

StepFields == {"action", "ref", "label", "version"}

\* One step installs uv.
WorkflowOK ==
    /\ DOMAIN workflow = {"steps", "runner", "seed", "runsCI"}
    /\ DOMAIN workflow.steps \subseteq Nat
    /\ \A i \in DOMAIN workflow.steps : DOMAIN workflow.steps[i] = StepFields
    /\ \A i, j \in UvSteps : i = j

RepoInv == tools \in ToolsType /\ makefile \in MakefileType /\ WorkflowOK

LEMMA RepoStart == RepoInit => RepoInv
<1> SUFFICES ASSUME RepoInit PROVE RepoInv
  OBVIOUS
<1>1. tools \in ToolsType /\ makefile \in MakefileType
  BY TreeAssumption DEF RepoInit, ToolsType, MakefileType, Imported
<1>2. WorkflowOK
  BY TreeAssumption DEF RepoInit, WorkflowOK, StepFields, UvSteps
<1> QED BY <1>1, <1>2 DEF RepoInv

LEMMA Inserted ==
    ASSUME NEW S, NEW s \in Seq(S), NEW i \in 0..Len(s), NEW e \in S
    PROVE  InsertAt(s, i + 1, e) \in Seq(S)
<1>1. SubSeq(s, 1, i) \in Seq(S) /\ SubSeq(s, i + 1, Len(s)) \in Seq(S) /\ <<e>> \in Seq(S)
  OBVIOUS
<1> QED BY <1>1 DEF InsertAt

LEMMA Removed ==
    ASSUME NEW S, NEW s \in Seq(S), NEW i \in DOMAIN s
    PROVE  RemoveAt(s, i) \in Seq(S)
<1>1. SubSeq(s, 1, i - 1) \in Seq(S) /\ SubSeq(s, i + 1, Len(s)) \in Seq(S)
  OBVIOUS
<1> QED BY <1>1 DEF RemoveAt

LEMMA Toggled ==
    ASSUME NEW S, NEW s \in SUBSET S, NEW e \in S
    PROVE  SymDiff(s, {e}) \in SUBSET S
BY DEF SymDiff

LEMMA ToolsKeep == ASSUME RepoInv, EditTools PROVE tools' \in ToolsType
<1>1. tools \in ToolsType
  BY DEF RepoInv
<1>2. CASE \E f \in Fuzzer : tools' = [tools EXCEPT !.fuzzers = SymDiff(@, {f})]
  <2>1. PICK f \in Fuzzer : tools' = [tools EXCEPT !.fuzzers = SymDiff(@, {f})]
    BY <1>2
  <2>2. SymDiff(tools.fuzzers, {f}) \in SUBSET Fuzzer
    BY <1>1, Toggled DEF ToolsType
  <2> QED BY <1>1, <2>1, <2>2 DEF ToolsType
<1>3. CASE \E t \in SelfTesting : tools' = [tools EXCEPT !.selfTests = SymDiff(@, {t})]
  <2>1. PICK t \in SelfTesting : tools' = [tools EXCEPT !.selfTests = SymDiff(@, {t})]
    BY <1>3
  <2>2. SymDiff(tools.selfTests, {t}) \in SUBSET SelfTesting
    BY <1>1, Toggled DEF ToolsType
  <2> QED BY <1>1, <2>1, <2>2 DEF ToolsType
<1> QED BY <1>2, <1>3 DEF EditTools

LEMMA ImportsKeep == ASSUME RepoInv, EditImports PROVE tools' \in ToolsType
<1>1. tools \in ToolsType
  BY DEF RepoInv
<1>2. PICK place \in Place, d \in Distribution \ Stub :
        \/ tools' = [tools EXCEPT
                !.imports = SymDiff(@, {[place |-> place, name |-> ImportName[d]]})]
        \/ tools' = [tools EXCEPT
                !.files = SymDiff(@, {[place |-> place, stem |-> ImportName[d]]})]
  BY DEF EditImports
<1>3. ImportName[d] \in Imported
  BY DEF Imported
<1> DEFINE imports == [place : Place, name : Imported]
<1> DEFINE files == [place : Place, stem : Imported]
<1> DEFINE import == [place |-> place, name |-> ImportName[d]]
<1> DEFINE file == [place |-> place, stem |-> ImportName[d]]
<1>4. tools.imports \in SUBSET imports /\ tools.files \in SUBSET files
  BY <1>1 DEF ToolsType
<1>5. import \in imports /\ file \in files
  BY <1>3
<1>6. SymDiff(tools.imports, {import}) \in SUBSET imports
  <2> HIDE DEF imports, import
  <2> QED BY <1>4, <1>5, Toggled
<1>7. SymDiff(tools.files, {file}) \in SUBSET files
  <2> HIDE DEF files, file
  <2> QED BY <1>4, <1>5, Toggled
<1> QED BY <1>1, <1>2, <1>6, <1>7 DEF ToolsType

LEMMA RegistriesKeep == ASSUME RepoInv, EditRegistries PROVE makefile' \in MakefileType
<1>1. makefile \in MakefileType
  BY DEF RepoInv
<1>2. CASE \E f \in Fuzzer, i \in 0..Len(makefile.fuzzers) :
            makefile' = [makefile EXCEPT !.fuzzers = InsertAt(@, i + 1, f)]
  <2>1. PICK f \in Fuzzer, i \in 0..Len(makefile.fuzzers) :
            makefile' = [makefile EXCEPT !.fuzzers = InsertAt(@, i + 1, f)]
    BY <1>2
  <2>2. InsertAt(makefile.fuzzers, i + 1, f) \in Seq(Fuzzer)
    BY <1>1, Inserted DEF MakefileType
  <2> QED BY <1>1, <2>1, <2>2 DEF MakefileType
<1>3. CASE \E i \in DOMAIN makefile.fuzzers : makefile' = [makefile EXCEPT !.fuzzers = RemoveAt(@, i)]
  <2>1. PICK i \in DOMAIN makefile.fuzzers : makefile' = [makefile EXCEPT !.fuzzers = RemoveAt(@, i)]
    BY <1>3
  <2>2. RemoveAt(makefile.fuzzers, i) \in Seq(Fuzzer)
    BY <1>1, Removed DEF MakefileType
  <2> QED BY <1>1, <2>1, <2>2 DEF MakefileType
<1>4. CASE \E t \in SelfTesting : makefile' = [makefile EXCEPT !.selfTests = SymDiff(@, {t})]
  <2>1. PICK t \in SelfTesting : makefile' = [makefile EXCEPT !.selfTests = SymDiff(@, {t})]
    BY <1>4
  <2>2. SymDiff(makefile.selfTests, {t}) \in SUBSET SelfTesting
    BY <1>1, Toggled DEF MakefileType
  <2> QED BY <1>1, <2>1, <2>2 DEF MakefileType
<1> QED BY <1>2, <1>3, <1>4 DEF EditRegistries

LEMMA RecipesKeep == ASSUME RepoInv, EditRecipes PROVE makefile' \in MakefileType
<1> DEFINE line == [name : Fuzzer, live : BOOLEAN]
<1>1. makefile \in MakefileType
  BY DEF RepoInv
<1>2. CASE \E f \in Fuzzer, i \in 0..Len(makefile.recipe) :
            makefile' = [makefile EXCEPT !.recipe = InsertAt(@, i + 1, [name |-> f, live |-> TRUE])]
  <2>1. PICK f \in Fuzzer, i \in 0..Len(makefile.recipe) :
            makefile' = [makefile EXCEPT !.recipe = InsertAt(@, i + 1, [name |-> f, live |-> TRUE])]
    BY <1>2
  <2>2. makefile.recipe \in Seq(line) /\ [name |-> f, live |-> TRUE] \in line
    BY <1>1 DEF MakefileType
  <2>3. InsertAt(makefile.recipe, i + 1, [name |-> f, live |-> TRUE]) \in Seq(line)
    BY <2>2, Inserted
  <2> QED BY <1>1, <2>1, <2>3 DEF MakefileType
<1>3. CASE \E i \in DOMAIN makefile.recipe : makefile' = [makefile EXCEPT !.recipe = RemoveAt(@, i)]
  <2>1. PICK i \in DOMAIN makefile.recipe : makefile' = [makefile EXCEPT !.recipe = RemoveAt(@, i)]
    BY <1>3
  <2>2. RemoveAt(makefile.recipe, i) \in Seq(line)
    BY <1>1, Removed DEF MakefileType
  <2> QED BY <1>1, <2>1, <2>2 DEF MakefileType
<1>4. CASE \E i \in DOMAIN makefile.recipe : makefile' = [makefile EXCEPT !.recipe[i].live = ~@]
  <2>1. PICK i \in DOMAIN makefile.recipe : makefile' = [makefile EXCEPT !.recipe[i].live = ~@]
    BY <1>4
  <2>2. makefile.recipe \in Seq(line) /\ makefile.recipe[i] \in line
    <3>1. makefile.recipe \in Seq(line)
      BY <1>1 DEF MakefileType
    <3> HIDE DEF line
    <3> QED BY <2>1, <3>1
  <2>3. [makefile.recipe[i] EXCEPT !.live = ~@] \in line
    BY <2>2
  <2>4. [makefile.recipe EXCEPT ![i].live = ~@] \in Seq(line)
    BY <2>2, <2>3
  <2> QED BY <1>1, <2>1, <2>4 DEF MakefileType
<1>5. CASE makefile' = [makefile EXCEPT !.looped = ~@]
  BY <1>1, <1>5 DEF MakefileType
<1>6. CASE \E t \in Exercised, live \in BOOLEAN :
            makefile' = [makefile EXCEPT !.exercise = SymDiff(@, {[name |-> t, live |-> live]})]
  <2>1. PICK t \in Exercised, live \in BOOLEAN :
            makefile' = [makefile EXCEPT !.exercise = SymDiff(@, {[name |-> t, live |-> live]})]
    BY <1>6
  <2> DEFINE marks == [name : Exercised, live : BOOLEAN]
  <2> DEFINE new == [name |-> t, live |-> live]
  <2>2. makefile.exercise \in SUBSET marks
    BY <1>1 DEF MakefileType
  <2>3. new \in marks
    OBVIOUS
  <2>4. SymDiff(makefile.exercise, {new}) \in SUBSET marks
    <3> HIDE DEF marks, new
    <3> QED BY <2>2, <2>3, Toggled
  <2> QED BY <1>1, <2>1, <2>4 DEF MakefileType
<1> QED BY <1>2, <1>3, <1>4, <1>5, <1>6 DEF EditRecipes

LEMMA MakefileKeeps == ASSUME RepoInv, EditMakefile PROVE makefile' \in MakefileType
<1>1. makefile \in MakefileType
  BY DEF RepoInv
<1>2. CASE makefile' = [makefile EXCEPT !.runLocked = ~@]
  BY <1>1, <1>2 DEF MakefileType
<1>3. CASE makefile' = [makefile EXCEPT !.setupLocked = ~@]
  BY <1>1, <1>3 DEF MakefileType
<1>4. CASE \E s \in Seed \union {Unset} : makefile' = [makefile EXCEPT !.seed = s]
  BY <1>1, <1>4 DEF MakefileType
<1>5. CASE \E d \in Distribution : makefile' = [makefile EXCEPT !.mentioned = SymDiff(@, {ImportName[d]})]
  <2>1. PICK d \in Distribution : makefile' = [makefile EXCEPT !.mentioned = SymDiff(@, {ImportName[d]})]
    BY <1>5
  <2>2. ImportName[d] \in Imported
    BY DEF Imported
  <2>3. SymDiff(makefile.mentioned, {ImportName[d]}) \in SUBSET Imported
    BY <1>1, <2>2, Toggled DEF MakefileType
  <2> QED BY <1>1, <2>1, <2>3 DEF MakefileType
<1>6. CASE \E t \in BackupTarget : makefile' = [makefile EXCEPT !.targets = SymDiff(@, {t})]
  <2>1. PICK t \in BackupTarget : makefile' = [makefile EXCEPT !.targets = SymDiff(@, {t})]
    BY <1>6
  <2>2. SymDiff(makefile.targets, {t}) \in SUBSET BackupTarget
    BY <1>1, Toggled DEF MakefileType
  <2> QED BY <1>1, <2>1, <2>2 DEF MakefileType
<1>7. CASE \E t \in TestTarget : makefile' = [makefile EXCEPT !.ci = SymDiff(@, {t})]
  <2>1. PICK t \in TestTarget : makefile' = [makefile EXCEPT !.ci = SymDiff(@, {t})]
    BY <1>7
  <2>2. SymDiff(makefile.ci, {t}) \in SUBSET TestTarget
    BY <1>1, Toggled DEF MakefileType
  <2> QED BY <1>1, <2>1, <2>2 DEF MakefileType
<1> QED BY <1>2, <1>3, <1>4, <1>5, <1>6, <1>7 DEF EditMakefile

\* An edit of the workflow leaves its steps, and the actions they use.
LEMMA WorkflowKeeps == ASSUME RepoInv, EditWorkflow PROVE WorkflowOK'
<1>1. WorkflowOK
  BY DEF RepoInv
<1> DEFINE steps == workflow.steps
<1>2. /\ DOMAIN workflow' = DOMAIN workflow
      /\ DOMAIN workflow'.steps = DOMAIN steps
      /\ \A i \in DOMAIN steps : /\ DOMAIN workflow'.steps[i] = DOMAIN steps[i]
                                 /\ workflow'.steps[i].action = steps[i].action
  <2>1. CASE \E i \in DOMAIN steps, r \in Ref : workflow' = [workflow EXCEPT !.steps[i].ref = r]
    BY <1>1, <2>1 DEF WorkflowOK, StepFields
  <2>2. CASE \E i \in DOMAIN steps, v \in UvRelease \union {Unset} :
                workflow' = [workflow EXCEPT !.steps[i].version = v]
    BY <1>1, <2>2 DEF WorkflowOK, StepFields
  <2>3. CASE \E i \in DOMAIN steps : workflow' = [workflow EXCEPT !.steps[i].label = Unset]
    BY <1>1, <2>3 DEF WorkflowOK, StepFields
  <2>4. CASE workflow' = [workflow EXCEPT !.runner = "latest"]
    BY <1>1, <2>4 DEF WorkflowOK, StepFields
  <2>5. CASE \E s \in Seed \union {Unset} : workflow' = [workflow EXCEPT !.seed = s]
    BY <1>1, <2>5 DEF WorkflowOK, StepFields
  <2>6. CASE workflow' = [workflow EXCEPT !.runsCI = ~@]
    BY <1>1, <2>6 DEF WorkflowOK, StepFields
  <2> QED BY <2>1, <2>2, <2>3, <2>4, <2>5, <2>6 DEF EditWorkflow
<1> QED BY <1>1, <1>2 DEF WorkflowOK, UvSteps

LEMMA RepoInductive == RepoSpec => []RepoInv
<1>1. RepoInv /\ [RepoNext]_repoVars => RepoInv'
  <2> SUFFICES ASSUME RepoInv, [RepoNext]_repoVars PROVE RepoInv'
    OBVIOUS
  <2>1. tools' = tools => tools' \in ToolsType
    BY DEF RepoInv
  <2>2. makefile' = makefile => makefile' \in MakefileType
    BY DEF RepoInv
  <2>3. workflow' = workflow => WorkflowOK'
    BY DEF RepoInv, WorkflowOK, UvSteps
  <2>4. CASE EditTools
    BY <2>2, <2>3, <2>4, ToolsKeep DEF EditTools, RepoInv
  <2>5. CASE EditImports
    BY <2>2, <2>3, <2>5, ImportsKeep DEF EditImports, RepoInv
  <2>6. CASE EditRegistries
    BY <2>1, <2>3, <2>6, RegistriesKeep DEF EditRegistries, RepoInv
  <2>7. CASE EditRecipes
    BY <2>1, <2>3, <2>7, RecipesKeep DEF EditRecipes, RepoInv
  <2>8. CASE EditMakefile
    BY <2>1, <2>3, <2>8, MakefileKeeps DEF EditMakefile, RepoInv
  <2>9. CASE EditWorkflow
    BY <2>1, <2>2, <2>9, WorkflowKeeps DEF EditWorkflow, RepoInv
  <2>10. CASE EditProject \/ EditRunbook \/ Publish \/ UNCHANGED repoVars
    BY <2>1, <2>2, <2>3, <2>10 DEF EditProject, EditRunbook, Publish, repoVars, tree, RepoInv
  <2> QED BY <2>4, <2>5, <2>6, <2>7, <2>8, <2>9, <2>10 DEF RepoNext
<1> QED BY <1>1, RepoStart, PTL DEF RepoSpec

LEMMA NoIssues ==
    ASSUME RepositoryIssues = {}
    PROVE  /\ tools.fuzzers = ToSet(makefile.fuzzers)
           /\ HarnessNames(makefile.recipe) = makefile.fuzzers
           /\ \A t \in tools.selfTests : RunsSelfTest(t) \/ t \in {line.name : line \in makefile.exercise}
           /\ ThirdParty \subseteq {ImportName[d] : d \in Declared}
<1> DEFINE harness == [
        unregistered |-> ~(tools.fuzzers \subseteq ToSet(makefile.fuzzers)),
        missing |-> ~(ToSet(makefile.fuzzers) \subseteq tools.fuzzers),
        order |-> HarnessNames(makefile.recipe) # makefile.fuzzers,
        selfTest |-> \E t \in tools.selfTests :
            ~RunsSelfTest(t) /\ t \notin {line.name : line \in makefile.exercise}]
<1> DEFINE dependency == [
        unused |-> \E d \in Declared \ Stub :
            ImportName[d] \notin ThirdParty /\ ImportName[d] \notin makefile.mentioned,
        undeclared |-> ~(ThirdParty \subseteq {ImportName[d] : d \in Declared})]
<1>1. Broken(harness) = {} /\ Broken(dependency) = {}
  BY DEF RepositoryIssues, HarnessIssues, DependencyIssues
<1>2. /\ \A rule \in DOMAIN harness : ~harness[rule]
      /\ \A rule \in DOMAIN dependency : ~dependency[rule]
  BY <1>1 DEF Broken
<1>3. /\ "unregistered" \in DOMAIN harness /\ "missing" \in DOMAIN harness
      /\ "order" \in DOMAIN harness /\ "selfTest" \in DOMAIN harness
      /\ "undeclared" \in DOMAIN dependency
  OBVIOUS
<1>4. ~harness.unregistered /\ ~harness.missing /\ ~harness.order /\ ~harness.selfTest
      /\ ~dependency.undeclared
  <2> HIDE DEF harness, dependency
  <2> QED BY Zenon, <1>2, <1>3
<1> QED BY <1>4

LEMMA Pinned ==
    ASSUME RepositoryIssues = {}
    PROVE  /\ pyproject.uv # Unset /\ FirstVersion = pyproject.uv
           /\ \A s \in Steps : s.ref \in Commit
           /\ workflow.runner # "latest"
           /\ makefile.runLocked /\ makefile.setupLocked
<1> DEFINE rules == [
            uv |-> FirstVersion # pyproject.uv,
            action |-> \E s \in Steps : s.ref \notin Commit,
            runner |-> workflow.runner = "latest",
            locked |-> ~(makefile.runLocked /\ makefile.setupLocked),
            seed |-> \/ makefile.seed = Unset
                     \/ workflow.seed \notin {Unset, makefile.seed}]
<1>1. ToolchainIssues = {}
  BY DEF RepositoryIssues
<1>2. pyproject.uv # Unset
  BY <1>1 DEF ToolchainIssues
<1>3. Broken(rules) = {}
  BY <1>1, <1>2 DEF ToolchainIssues
<1>4. \A rule \in DOMAIN rules : ~rules[rule]
  BY <1>3 DEF Broken
<1>5. "uv" \in DOMAIN rules /\ "action" \in DOMAIN rules
      /\ "runner" \in DOMAIN rules /\ "locked" \in DOMAIN rules
  OBVIOUS
<1>6. ~rules.uv /\ ~rules.action /\ ~rules.runner /\ ~rules.locked
  <2> HIDE DEF rules
  <2> QED BY Zenon, <1>4, <1>5
<1> QED BY <1>2, <1>6

LEMMA LiveLine ==
    ASSUME NEW l, NEW S, NEW W, S \subseteq W,
           l \in [name : S, live : BOOLEAN], l \notin [name : W, live : {FALSE}]
    PROVE  l.live
<1>1. l.name \in S /\ l.live \in BOOLEAN /\ l = [name |-> l.name, live |-> l.live]
  OBVIOUS
<1>2. l.live # FALSE
  BY <1>1
<1> QED BY Zenon, <1>1, <1>2

LEMMA TestsRun == ASSUME RepoInv, RepositoryIssues = {}, RecipesRun PROVE EveryTestRuns
<1> SUFFICES /\ tools.fuzzers = HarnessesRun
             /\ tools.selfTests \subseteq SelfTestsRun
             /\ HarnessesRun = ToSet(makefile.fuzzers)
  BY DEF EveryTestRuns
<1> DEFINE line == [name : Fuzzer, live : BOOLEAN]
<1>1. makefile.recipe \in Seq(line) /\ makefile.exercise \subseteq [name : Exercised, live : BOOLEAN]
  BY DEF RepoInv, MakefileType
<1>2. \A i \in DOMAIN makefile.recipe : makefile.recipe[i] \in line
  <2> HIDE DEF line
  <2> QED BY <1>1
<1>3. \A l \in ToSet(makefile.recipe) \union makefile.exercise :
          l \notin [name : Fuzzer \union Exercised, live : {FALSE}]
  BY DEF CommentedOut, RecipesRun
<1>4. \A i \in DOMAIN makefile.recipe : makefile.recipe[i].live
  <2> SUFFICES ASSUME NEW i \in DOMAIN makefile.recipe PROVE makefile.recipe[i].live
    OBVIOUS
  <2>1. makefile.recipe[i] \in line /\ makefile.recipe[i] \in ToSet(makefile.recipe)
    BY <1>2 DEF ToSet
  <2>2. makefile.recipe[i] \notin [name : Fuzzer \union Exercised, live : {FALSE}]
    BY Zenon, <1>3, <2>1
  <2> QED BY <2>1, <2>2, LiveLine
<1>5. \A l \in makefile.exercise : l.live
  <2> SUFFICES ASSUME NEW l \in makefile.exercise PROVE l.live
    OBVIOUS
  <2>1. l \in [name : Exercised, live : BOOLEAN]
    BY <1>1
  <2>2. l \notin [name : Fuzzer \union Exercised, live : {FALSE}]
    BY Zenon, <1>3
  <2> QED BY <2>1, <2>2, LiveLine
<1>6. HarnessesRun = {makefile.recipe[i].name : i \in DOMAIN makefile.recipe}
  BY <1>4 DEF HarnessesRun, ToSet, RecipesRun, TestTarget
<1>7. ToSet(makefile.fuzzers) = {makefile.recipe[i].name : i \in DOMAIN makefile.recipe}
  BY NoIssues DEF HarnessNames, ToSet
<1>8. tools.selfTests \subseteq SelfTestsRun
  BY <1>5, NoIssues DEF SelfTestsRun, RunsSelfTest, RecipesRun, TestTarget
<1> QED BY <1>6, <1>7, <1>8, NoIssues

LEMMA ImportsInstalled ==
    ASSUME RepoInv, RepositoryIssues = {}, NoFileShadows, Declared = Installed
    PROVE  EveryImportInstalled
<1> SUFFICES ASSUME NEW i \in tools.imports PROVE Importable(i)
  BY DEF EveryImportInstalled
<1>1. CASE i.name \in ThirdParty
  BY <1>1, NoIssues DEF Importable
<1>2. CASE i.name \notin ThirdParty
  <2>1. PICK file \in tools.files : file.stem = i.name
    BY <1>2 DEF ThirdParty
  <2>2. file.place = i.place
    BY <2>1 DEF NoFileShadows
  <2>3. file \in [place : Place, stem : Imported]
    BY DEF RepoInv, ToolsType
  <2>4. file = [place |-> i.place, stem |-> i.name]
    BY <2>1, <2>2, <2>3
  <2> QED BY <2>4 DEF Importable
<1> QED BY <1>1, <1>2

(* Whatever is edited in the tree: if the gate passes it, CI runs every test on disk, *)
(* as long as it still gets to the recipes the gate reads and no line of them is      *)
(* commented out; and what is imported is beside the importer or installed, as long   *)
(* as no dependency is only in a group CI does not install.                           *)
THEOREM GateMeansTested == RepoSpec => []RepositoryVerdict
<1>1. RepoInv => RepositoryVerdict
  BY TestsRun, ImportsInstalled DEF RepositoryVerdict
<1> QED BY <1>1, RepoInductive, PTL

\* The steps that install uv say which.
LEMMA UvIsPinned ==
    ASSUME WorkflowOK, RepositoryIssues = {}, OnlyUvHasVersion, NEW i \in UvSteps
    PROVE  workflow.steps[i].version # Unset
<1> DEFINE named == {j \in DOMAIN workflow.steps : workflow.steps[j].version # Unset}
<1>1. FirstVersion # Unset
  BY Pinned
<1>2. PICK j \in named : TRUE
  BY <1>1 DEF FirstVersion
<1>3. workflow.steps[j] \in Steps /\ workflow.steps[j].version # Unset
  BY DEF Steps, ToSet
<1>4. j \in UvSteps
  BY <1>3 DEF OnlyUvHasVersion, UvSteps
<1>5. i = j
  BY <1>4 DEF WorkflowOK
<1> QED BY <1>3, <1>5

(* A tree the gate passes runs the same actions, uv, image and packages in CI,        *)
(* whatever is published after it.                                                    *)
THEOREM NothingMoves == RepoSpec => PublishingMovesNothing
<1>1. ASSUME RepoInv, published' # published, UNCHANGED tree, RepositoryIssues = {}, OnlyUvHasVersion
      PROVE  CIExecutes' = CIExecutes
  <2>1. /\ workflow' = workflow /\ makefile' = makefile /\ pyproject' = pyproject
        /\ UvSteps' = UvSteps /\ Installed' = Installed
    BY <1>1 DEF tree, UvSteps, Installed
  <2>2. /\ \A i \in DOMAIN workflow.steps : workflow.steps[i].ref \in Commit
        /\ workflow.runner # "latest" /\ makefile.runLocked /\ makefile.setupLocked
    BY <1>1, Pinned DEF Steps, ToSet
  <2>3. \A i \in UvSteps : workflow.steps[i].version # Unset
    BY <1>1, UvIsPinned DEF RepoInv
  <2> DEFINE Told(w, m, u, d) ==
          [actions |-> [i \in DOMAIN w.steps |-> <<w.steps[i].ref>>],
           uv |-> {<<w.steps[i].version>> : i \in u},
           runner |-> <<w.runner>>, packages |-> <<d>>]
  <2>4. CIExecutes = Told(workflow, makefile, UvSteps, Installed)
    BY <2>2, <2>3 DEF CIExecutes, Moving
  <2>5. CIExecutes' = Told(workflow', makefile', UvSteps', Installed')
    BY <2>1, <2>2, <2>3 DEF CIExecutes, Moving
  <2> QED BY <2>1, <2>4, <2>5
<1>2. RepoInv => [published' # published /\ UNCHANGED tree /\ RepositoryIssues = {} /\ OnlyUvHasVersion
                    => CIExecutes' = CIExecutes]_repoVars
  BY <1>1
<1> QED BY <1>2, RepoInductive, PTL DEF PublishingMovesNothing

-----------------------------------------------------------------------------
-----------------------------------------------------------------------------
(* Releases: the order of versions. *)

SemVer == Nat \X Nat \X Nat

LEMMA OlderIsOrder ==
    ASSUME NEW v \in SemVer, NEW w \in SemVer, NEW x \in SemVer
    PROVE  /\ ~Older(v, v)
           /\ Older(v, w) => ~Older(w, v)
           /\ Older(v, w) /\ Older(w, x) => Older(v, x)
BY DEF Older, SemVer

\* A version between two of one line is of that line.
LEMMA LineIsConvex ==
    ASSUME NEW v \in SemVer, NEW w \in SemVer, NEW x \in SemVer,
           Older(v, w), Older(w, x), SameLine(x, v)
    PROVE  SameLine(x, w)
BY DEF Older, SameLine, SemVer

-----------------------------------------------------------------------------
(* What is edited stays a list of sections. *)

SectionType == [title : Version \union {Unreleased}, dated : BOOLEAN, headings : Seq(Heading)]

ReleaseInv == sections \in Seq(SectionType)

LEMMA Fresh ==
    ASSUME NEW v \in Version \union {Unreleased}, NEW d \in BOOLEAN
    PROVE  [title |-> v, dated |-> d, headings |-> <<>>] \in SectionType
BY DEF SectionType

LEMMA ReleaseStart == ReleaseInit => ReleaseInv
<1> SUFFICES ASSUME ReleaseInit PROVE ReleaseInv
  OBVIOUS
<1> DEFINE unreleased == [title |-> Unreleased, dated |-> FALSE, headings |-> <<>>]
           first(v) == [title |-> v, dated |-> TRUE, headings |-> <<>>]
<1>1. PICK v \in Version : sections \in {<<>>, <<unreleased, first(v)>>}
  BY DEF ReleaseInit
<1>2. unreleased \in SectionType /\ first(v) \in SectionType
  BY Fresh
<1> HIDE DEF SectionType, unreleased, first
<1>3. <<>> \in Seq(SectionType) /\ <<unreleased, first(v)>> \in Seq(SectionType)
  BY <1>2
<1> QED BY <1>1, <1>3 DEF ReleaseInv

LEMMA Rewritten ==
    ASSUME ReleaseInv, NEW i \in DOMAIN sections, NEW s \in SectionType
    PROVE  [sections EXCEPT ![i] = s] \in Seq(SectionType)
BY DEF ReleaseInv

LEMMA SectionAt ==
    ASSUME ReleaseInv, NEW i \in DOMAIN sections
    PROVE  sections[i] \in SectionType
BY DEF ReleaseInv

LEMMA SectionFields ==
    ASSUME NEW s \in SectionType
    PROVE  /\ s = [title |-> s.title, dated |-> s.dated, headings |-> s.headings]
           /\ s.title \in Version \union {Unreleased} /\ s.dated \in BOOLEAN
           /\ s.headings \in Seq(Heading)
           /\ \A h \in Heading : [s EXCEPT !.headings = Append(@, h)] \in SectionType
           /\ [s EXCEPT !.dated = ~@] \in SectionType
           /\ \A v \in Version, d \in BOOLEAN :
                [s EXCEPT !.title = v, !.dated = d] \in SectionType
<1>1. s.headings \in Seq(Heading) /\ s.dated \in BOOLEAN /\ s.title \in Version \union {Unreleased}
      /\ s = [title |-> s.title, dated |-> s.dated, headings |-> s.headings]
  BY DEF SectionType
<1>2. ASSUME NEW h \in Heading PROVE [s EXCEPT !.headings = Append(@, h)] \in SectionType
  <2>1. Append(s.headings, h) \in Seq(Heading)
    BY <1>1
  <2> QED BY <1>1, <2>1 DEF SectionType
<1>3. [s EXCEPT !.dated = ~@] \in SectionType
  BY <1>1 DEF SectionType
<1>4. ASSUME NEW v \in Version, NEW d \in BOOLEAN
      PROVE  [s EXCEPT !.title = v, !.dated = d] \in SectionType
  BY <1>1 DEF SectionType
<1> QED BY <1>1, <1>2, <1>3, <1>4

LEMMA WriteEntryKeeps == ReleaseInv /\ WriteEntry => ReleaseInv'
<1> SUFFICES ASSUME ReleaseInv, NEW i \in DOMAIN sections, NEW h \in Heading,
                    sections' = [sections EXCEPT ![i].headings = Append(@, h)]
             PROVE  ReleaseInv'
  BY DEF WriteEntry
<1>1. [sections[i] EXCEPT !.headings = Append(@, h)] \in SectionType
  BY SectionAt, SectionFields
<1>2. sections' = [sections EXCEPT ![i] = [sections[i] EXCEPT !.headings = Append(@, h)]]
  OBVIOUS
<1> QED BY <1>1, <1>2, Rewritten DEF ReleaseInv

LEMMA DateSectionKeeps == ReleaseInv /\ DateSection => ReleaseInv'
<1> SUFFICES ASSUME ReleaseInv, NEW i \in DOMAIN sections,
                    sections' = [sections EXCEPT ![i].dated = ~@]
             PROVE  ReleaseInv'
  BY DEF DateSection
<1>1. [sections[i] EXCEPT !.dated = ~@] \in SectionType
  BY SectionAt, SectionFields
<1>2. sections' = [sections EXCEPT ![i] = [sections[i] EXCEPT !.dated = ~@]]
  OBVIOUS
<1> QED BY <1>1, <1>2, Rewritten DEF ReleaseInv

LEMMA CutSectionKeeps == ReleaseInv /\ CutSection => ReleaseInv'
<1> DEFINE new == [title |-> Unreleased, dated |-> FALSE, headings |-> <<>>]
<1> SUFFICES ASSUME ReleaseInv, NEW i \in DOMAIN sections, NEW v \in Version, NEW dated \in BOOLEAN,
                    sections' = InsertAt([sections EXCEPT ![i].title = v, ![i].dated = dated], i, new)
             PROVE  ReleaseInv'
  BY DEF CutSection
<1> DEFINE cut == [sections EXCEPT ![i].title = v, ![i].dated = dated]
           section == [sections[i] EXCEPT !.title = v, !.dated = dated]
<1>1. section \in SectionType
  BY SectionAt, SectionFields
<1>2. cut = [sections EXCEPT ![i] = section]
  BY DEF ReleaseInv
<1>3. cut \in Seq(SectionType) /\ DOMAIN cut = DOMAIN sections
  <2> HIDE DEF section
  <2> QED BY <1>1, <1>2, Rewritten
<1>4. new \in SectionType
  BY Fresh
<1>5. InsertAt(cut, i, new) \in Seq(SectionType)
  <2> HIDE DEF cut, new
  <2>1. i - 1 \in 0..Len(cut) /\ (i - 1) + 1 = i
    BY <1>3
  <2> QED BY <1>3, <1>4, <2>1, Inserted
<1> QED BY <1>5 DEF ReleaseInv

LEMMA MergeSectionsKeeps == ReleaseInv /\ MergeSections => ReleaseInv'
<1> SUFFICES ASSUME ReleaseInv, MergeSections PROVE ReleaseInv'
  OBVIOUS
<1>1. CASE \E i \in 1..(Len(sections) - 1) :
            sections' = [sections EXCEPT ![i] = sections[i + 1], ![i + 1] = sections[i]]
  <2>1. PICK i \in 1..(Len(sections) - 1) :
            sections' = [sections EXCEPT ![i] = sections[i + 1], ![i + 1] = sections[i]]
    BY <1>1
  <2>2. i \in DOMAIN sections /\ i + 1 \in DOMAIN sections
    BY DEF ReleaseInv
  <2>3. sections[i] \in SectionType /\ sections[i + 1] \in SectionType
    BY <2>2, SectionAt
  <2> QED BY <2>1, <2>2, <2>3 DEF ReleaseInv
<1>2. CASE \E i \in DOMAIN sections : sections' = RemoveAt(sections, i)
  BY <1>2, Removed DEF ReleaseInv
<1> QED BY <1>1, <1>2 DEF MergeSections

LEMMA ReleaseInductive == ReleaseSpec => []ReleaseInv
<1>1. ReleaseInv /\ [ReleaseNext]_releaseVars => ReleaseInv'
  <2> SUFFICES ASSUME ReleaseInv, [ReleaseNext]_releaseVars PROVE ReleaseInv'
    OBVIOUS
  <2>1. CASE WriteGuide \/ BumpVersion \/ UNCHANGED releaseVars
    BY <2>1 DEF WriteGuide, BumpVersion, releaseVars, ReleaseInv
  <2> QED BY <2>1, WriteEntryKeeps, CutSectionKeeps, DateSectionKeeps, MergeSectionsKeeps DEF ReleaseNext
<1> QED BY <1>1, ReleaseStart, PTL DEF ReleaseSpec

-----------------------------------------------------------------------------
(* What a gate that passes has looked at. *)

LEMMA ReleasePassed ==
    ASSUME ReleaseGate = {}
    PROVE  /\ \A p \in Adjacent(Versioned) :
                ~(Breaks(sections[p[1]]) /\ SameLine(Title(p[1]), Title(p[2])))
           /\ \A p \in Adjacent(Released) :
                (\E i \in Versioned : Title(i) = Title(p[1]) /\ Breaks(sections[i]))
                    => <<Title(p[2]), Title(p[1])>> \in guide
           /\ Released # {}
           /\ \A i \in Released : (\A j \in Released : i <= j) => version = Title(i)
           /\ \A p \in Adjacent(Released) : Older(Title(p[2]), Title(p[1]))
<1> DEFINE format == [
        type |-> \E i \in DOMAIN sections : ~(Range(sections[i].headings) \subseteq ChangeType),
        repeated |-> \E i \in DOMAIN sections : Repeated(sections[i].headings),
        patch |-> \E p \in Adjacent(Versioned) :
            Breaks(sections[p[1]]) /\ SameLine(Title(p[1]), Title(p[2]))]
<1> DEFINE upgrade == [upgrade |-> \E p \in Adjacent(Released) :
        /\ \E i \in Versioned : Title(i) = Title(p[1]) /\ Breaks(sections[i])
        /\ <<Title(p[2]), Title(p[1])>> \notin guide]
<1> DEFINE release == [
            version |-> \E i \in Released :
                version # Title(i) /\ \A j \in Released : i <= j,
            order |-> \E p \in Adjacent(Released) : ~Older(Title(p[2]), Title(p[1]))]
<1>1. ChangelogFormat = {} /\ UpgradeGuide = {} /\ ReleaseVersion = {}
  BY DEF ReleaseGate
<1>2. Released # {}
  BY <1>1 DEF ReleaseVersion
<1>3. Broken(format) = {} /\ Broken(upgrade) = {} /\ Broken(release) = {}
  BY <1>1, <1>2 DEF ChangelogFormat, UpgradeGuide, ReleaseVersion
<1>4. /\ \A rule \in DOMAIN format : ~format[rule]
      /\ \A rule \in DOMAIN upgrade : ~upgrade[rule]
      /\ \A rule \in DOMAIN release : ~release[rule]
  BY <1>3 DEF Broken
<1>5. /\ "patch" \in DOMAIN format /\ "upgrade" \in DOMAIN upgrade
      /\ "version" \in DOMAIN release /\ "order" \in DOMAIN release
  OBVIOUS
<1>6. ~format.patch /\ ~upgrade.upgrade /\ ~release.version /\ ~release.order
  <2> HIDE DEF format, upgrade, release
  <2> QED BY Zenon, <1>4, <1>5
<1> QED BY <1>2, <1>6

LEMMA ReleasedPlaces ==
    ASSUME ReleaseInv
    PROVE  /\ Versioned \in SUBSET Nat /\ Released \in SUBSET Versioned
           /\ \A i \in Versioned : Title(i) \in SemVer
<1>1. DOMAIN sections \subseteq Nat
  BY DEF ReleaseInv
<1> QED BY <1>1, VersionAssumption DEF Versioned, Released, Title, SemVer

\* Below a place that is not the first there is a neighbour.
LEMMA Neighbour ==
    ASSUME NEW F \in SUBSET Nat, NEW i \in F, NEW j \in F, i < j
    PROVE  /\ \E k \in F : <<k, j>> \in Adjacent(F) /\ i <= k
           /\ \E k \in F : <<i, k>> \in Adjacent(F) /\ k <= j
<1>1. \E k \in F : <<k, j>> \in Adjacent(F) /\ i <= k
  <2> DEFINE before == {k \in F : k < j}
  <2>1. before \in SUBSET (0..j) /\ i \in before /\ j \in Nat
    <3>1. \A k \in F : k \in Nat
      OBVIOUS
    <3>2. \A k \in before : k \in 0..j
      BY <3>1
    <3> QED BY <3>1, <3>2
  <2>2. PICK k \in before : \A x \in before : x <= k
    <3> HIDE DEF before
    <3> QED BY <2>1, LargestOf
  <2> QED BY <2>1, <2>2 DEF Adjacent
<1>2. \E k \in F : <<i, k>> \in Adjacent(F) /\ k <= j
  <2> DEFINE after == {k \in F : i < k}
  <2>1. after \in SUBSET Nat /\ j \in after
    OBVIOUS
  <2>2. PICK k \in after : \A x \in after : k <= x
    <3> HIDE DEF after
    <3> QED BY <2>1, LeastOf
  <2> QED BY <2>1, <2>2 DEF Adjacent
<1> QED BY <1>1, <1>2

\* Neighbours that descend make all of them descend: the least place that does not,
\* seen from i, would have a neighbour that does.
LEMMA AllDescend ==
    ASSUME ReleaseInv, ReleaseGate = {}, NEW i \in Released, NEW j \in Released, i < j
    PROVE  Older(Title(j), Title(i))
<1> DEFINE wrong == {k \in Released : i < k /\ ~Older(Title(k), Title(i))}
<1>1. Released \in SUBSET Nat /\ \A k \in Released : Title(k) \in SemVer
  BY ReleasedPlaces
<1>2. SUFFICES ASSUME wrong # {} PROVE FALSE
  BY <1>1
<1>3. wrong \in SUBSET Nat
  BY <1>1
<1>4. PICK k \in wrong : \A x \in wrong : k <= x
  <2> HIDE DEF wrong
  <2> QED BY <1>2, <1>3, LeastOf
<1>5. k \in Released /\ i < k /\ ~Older(Title(k), Title(i))
  OBVIOUS
<1>6. PICK m \in Released : <<m, k>> \in Adjacent(Released) /\ i <= m
  BY <1>1, <1>5, Neighbour
<1>7. m < k
  BY <1>6 DEF Adjacent
<1>8. Older(Title(k), Title(m))
  BY <1>6, ReleasePassed
<1>9. CASE m = i
  BY <1>5, <1>8, <1>9
<1>10. CASE m # i
  <2>1. Older(Title(m), Title(i))
    BY <1>1, <1>4, <1>6, <1>7, <1>10
  <2> QED BY <1>1, <1>5, <1>8, <2>1, OlderIsOrder
<1> QED BY <1>9, <1>10

LEMMA OlderIsBelow ==
    ASSUME ReleaseInv, ReleaseGate = {}, NEW i \in Released, NEW j \in Released,
           Older(Title(j), Title(i))
    PROVE  i < j
<1>1. Released \in SUBSET Nat /\ \A k \in Released : Title(k) \in SemVer
  BY ReleasedPlaces
<1>2. i # j
  BY <1>1, OlderIsOrder
<1>3. ~(j < i)
  BY <1>1, AllDescend, OlderIsOrder
<1> QED BY <1>1, <1>2, <1>3

LEMMA NewestInstalled == ASSUME ReleaseInv PROVE NewestIsInstalled
<1> SUFFICES ASSUME ReleaseGate = {}
             PROVE  /\ \A r \in Releases : ~Older(version, r.title)
                    /\ \A i, j \in Released : Title(i) = Title(j) => i = j
  BY DEF NewestIsInstalled
<1>1. Released \in SUBSET Nat /\ \A k \in Released : Title(k) \in SemVer
  BY ReleasedPlaces
<1>2. PICK first \in Released : \A j \in Released : first <= j
  BY <1>1, ReleasePassed, LeastOf
<1>3. version = Title(first)
  BY <1>2, ReleasePassed
<1>4. ASSUME NEW i \in Released PROVE ~Older(version, Title(i))
  <2>1. CASE i = first
    BY <1>1, <1>3, <2>1, OlderIsOrder
  <2>2. CASE i # first
    <3>1. first < i
      BY <1>1, <1>2, <2>2
    <3> QED BY <1>1, <1>3, <3>1, AllDescend, OlderIsOrder
  <2> QED BY <2>1, <2>2
<1>5. ASSUME NEW i \in Released, NEW j \in Released, Title(i) = Title(j) PROVE i = j
  <2>1. ~(i < j) /\ ~(j < i)
    BY <1>1, <1>5, AllDescend, OlderIsOrder
  <2> QED BY <1>1, <2>1
<1> QED BY <1>4, <1>5 DEF Releases, Title

LEMMA BreaksAreTold == ASSUME ReleaseInv PROVE NoSilentBreak
<1> SUFFICES ASSUME ReleaseGate = {}, AllDated
             PROVE  /\ \A older, newer \in Releases :
                         Older(older.title, newer.title) /\ SameLine(newer.title, older.title)
                             => ~Breaks(newer)
                    /\ \A r \in Releases : \A o \in Before(r) : Breaks(r) => <<o.title, r.title>> \in guide
  BY DEF NoSilentBreak
<1>1. Released \in SUBSET Nat /\ \A k \in Released : Title(k) \in SemVer
  BY ReleasedPlaces
<1>2. Versioned = Released
  BY VersionAssumption DEF AllDated, Versioned, Released
<1>3. ASSUME NEW j \in Released, NEW i \in Released,
             Older(Title(j), Title(i)), SameLine(Title(i), Title(j))
      PROVE  ~Breaks(sections[i])
  <2>1. i < j
    BY <1>3, OlderIsBelow
  <2>2. PICK k \in Released : <<i, k>> \in Adjacent(Released) /\ k <= j
    BY <1>1, <2>1, Neighbour
  <2>3. Older(Title(k), Title(i))
    BY <2>2, ReleasePassed
  <2>4. SameLine(Title(i), Title(k))
    <3>1. CASE k = j
      BY <1>3, <3>1
    <3>2. CASE k # j
      <4>1. Older(Title(j), Title(k))
        BY <1>1, <2>2, <3>2, AllDescend
      <4> QED BY <1>1, <1>3, <2>3, <4>1, LineIsConvex
    <3> QED BY <3>1, <3>2
  <2>5. <<i, k>> \in Adjacent(Versioned)
    BY <1>2, <2>2
  <2> QED BY <2>4, <2>5, ReleasePassed
<1>4. ASSUME NEW i \in Released, NEW o \in Before(sections[i]), Breaks(sections[i])
      PROVE  <<o.title, Title(i)>> \in guide
  <2>1. PICK j \in Released : o = sections[j]
    BY DEF Before, Releases
  <2>2. Older(Title(j), Title(i)) /\ \A x \in Released : Older(Title(x), Title(i)) => ~Older(Title(j), Title(x))
    BY <2>1 DEF Before, Releases, Title
  <2>3. i < j
    BY <2>2, OlderIsBelow
  <2>4. PICK k \in Released : <<i, k>> \in Adjacent(Released) /\ k <= j
    BY <1>1, <2>3, Neighbour
  <2>5. k = j
    <3>1. Older(Title(k), Title(i))
      BY <2>4, ReleasePassed
    <3>2. ~(k < j)
      BY <2>2, <3>1, AllDescend
    <3> QED BY <1>1, <2>4, <3>2
  <2>6. \E x \in Versioned : Title(x) = Title(i) /\ Breaks(sections[x])
    BY <1>2, <1>4
  <2>7. <<Title(k), Title(i)>> \in guide
    BY <2>4, <2>6, ReleasePassed
  <2> QED BY <2>1, <2>5, <2>7 DEF Title
<1> QED BY <1>3, <1>4 DEF Releases, Title

(* However sections are cut, dated, merged and lost: a tree the gate passes installs  *)
(* the newest release, breaks nothing inside a minor line, and has a step in the      *)
(* guide to every release that breaks something from the one before it.               *)
THEOREM ReleasesAreTold == ReleaseSpec => []ReleaseVerdict
<1>1. ReleaseInv => ReleaseVerdict
  BY BreaksAreTold, NewestInstalled DEF ReleaseVerdict
<1> QED BY <1>1, ReleaseInductive, PTL

-----------------------------------------------------------------------------
(* What a detector gate that passes has looked at. *)

LEMMA SpecPassed ==
    ASSUME CheckSpec = {}, ValidateSpec(spec) = {}
    PROVE  /\ \A i \in DOMAIN spec : spec[i] # Ill /\ Text(spec[i].id)
                                     /\ ThresholdListErrors(spec[i]) = {}
           /\ \A i, j \in DOMAIN spec : spec[i].id = spec[j].id => i = j
<1>1. ASSUME NEW i \in DOMAIN spec
      PROVE  RecordErrors(spec[i]) = {} /\ DetectorErrors(spec[i]) = {}
  <2>1. spec[i] \in Range(spec)
    BY DEF Range
  <2> QED BY <2>1 DEF CheckSpec, ValidateSpec
<1>2. ASSUME NEW i \in DOMAIN spec
      PROVE  spec[i] # Ill /\ Text(spec[i].id) /\ ThresholdListErrors(spec[i]) = {}
  <2>1. spec[i] # Ill
    BY <1>1 DEF RecordErrors
  <2>2. Text(spec[i].id)
    BY <1>1, <2>1 DEF DetectorErrors
  <2> QED BY <1>1, <2>1, <2>2 DEF DetectorErrors
<1>3. Identified(spec) = DOMAIN spec
  BY <1>2 DEF Identified
<1> DEFINE rules == [duplicates |-> \E i, j \in Identified(spec) : i # j /\ spec[i].id = spec[j].id]
<1>4. Broken(rules) = {}
  BY DEF CheckSpec
<1>5. (\A rule \in DOMAIN rules : ~rules[rule]) /\ "duplicates" \in DOMAIN rules
  BY <1>4 DEF Broken
<1>6. ~rules.duplicates
  <2> HIDE DEF rules
  <2> QED BY <1>5, Zenon
<1> QED BY <1>2, <1>3, <1>6

LEMMA RegistryPassed ==
    ASSUME RegistrySync = {}
    PROVE  ValidateSpec(spec) = {} /\ manifest = RenderManifest(spec)
<1> DEFINE rules == [renderable |-> ValidateSpec(spec) # {},
                     stale |-> ValidateSpec(spec) = {} /\ manifest # RenderManifest(spec)]
<1>1. /\ \A rule \in DOMAIN rules : ~rules[rule]
      /\ "renderable" \in DOMAIN rules /\ "stale" \in DOMAIN rules
  BY DEF Broken, RegistrySync
<1>2. ~rules.renderable /\ ~rules.stale
  <2> HIDE DEF rules
  <2> QED BY <1>1, Zenon
<1> QED BY <1>2

LEMMA DetectorIdsPassed ==
    ASSUME CheckDetectorIds = {}
    PROVE  /\ DOMAIN example.modes = SpecIds
           /\ \A d \in DOMAIN example.modes \intersect SpecIds :
                example.modes[d] \in Mode /\ SpecOf(d).mode \in Mode
                    => ~(ModeRank[example.modes[d]] > ModeRank[SpecOf(d).mode])
           /\ \A d \in DOMAIN example.thresholds :
                DOMAIN example.thresholds[d]
                    \subseteq (IF d \in ManifestIds THEN DOMAIN Manifest[d].thresholds ELSE {})
           /\ ThresholdErrors(ShippedRelease, example) = {}
<1> DEFINE modes == [modes |-> DOMAIN example.modes # SpecIds]
           raise == [raised |-> \E d \in DOMAIN example.modes \intersect SpecIds :
                        example.modes[d] \in Mode /\ SpecOf(d).mode \in Mode
                        /\ ModeRank[example.modes[d]] > ModeRank[SpecOf(d).mode]]
           rules == [
        unknown |-> ~(ManifestIds \subseteq SpecIds),
        detector |-> ~(SpecIds \subseteq ManifestIds),
        drift |-> \E e \in Range(manifest) : e.id \in SpecIds /\
                    (e.ceiling # SpecOf(e.id).ceiling \/ e.mode # SpecOf(e.id).mode),
        keys |-> \E e \in Range(manifest) : e.id \in SpecIds /\
                    DOMAIN ByKey(e.thresholds) # DOMAIN ByKey(SpecOf(e.id).thresholds),
        undeclared |-> \E d \in DOMAIN example.thresholds : ~(DOMAIN example.thresholds[d]
                    \subseteq (IF d \in ManifestIds THEN DOMAIN Manifest[d].thresholds ELSE {})),
        value |-> ThresholdErrors(ShippedRelease, example) # {}]
<1>1. Broken(modes) = {} /\ ExampleModeErrors = {} /\ ManifestErrors = {}
  BY DEF CheckDetectorIds
<1>2. Broken(raise) = {} /\ Broken(rules) = {}
  BY <1>1 DEF ExampleModeErrors, ManifestErrors
<1>3. /\ \A rule \in DOMAIN modes : ~modes[rule]
      /\ \A rule \in DOMAIN raise : ~raise[rule]
      /\ \A rule \in DOMAIN rules : ~rules[rule]
  <2> HIDE DEF modes, raise, rules
  <2> QED BY <1>1, <1>2 DEF Broken
<1>4. /\ "modes" \in DOMAIN modes /\ "raised" \in DOMAIN raise
      /\ "undeclared" \in DOMAIN rules /\ "value" \in DOMAIN rules
  OBVIOUS
<1>5. ~modes.modes /\ ~raise.raised /\ ~rules.undeclared /\ ~rules.value
  <2> HIDE DEF modes, raise, rules
  <2> QED BY <1>3, <1>4, Zenon
<1> QED BY <1>5

LEMMA SchemasPassed ==
    ASSUME CheckSchemas = {}
    PROVE  /\ \A e \in Range(manifest) :
                /\ e.mode \in Mode
                /\ \A t \in Range(e.thresholds) :
                        Text(t.key) /\ Text(t.range) /\ Text(t.type) /\ Len(t.range) = 2
           /\ \A d \in DOMAIN example.modes : example.modes[d] \in Mode
<1> DEFINE rules == [
        manifest |-> \E e \in Range(manifest) :
            \/ e.ceiling \notin Ceiling \/ e.mode \notin Mode
            \/ \E t \in Range(e.thresholds) :
                \/ \E f \in ThresholdField : ~Text(t[f])
                \/ Len(t.range) # 2,
        example |-> \E d \in DOMAIN example.modes : example.modes[d] \notin Mode]
<1>1. /\ \A rule \in DOMAIN rules : ~rules[rule]
      /\ "manifest" \in DOMAIN rules /\ "example" \in DOMAIN rules
  BY DEF Broken, CheckSchemas
<1>2. ~rules.manifest /\ ~rules.example
  <2> HIDE DEF rules
  <2> QED BY <1>1, Zenon
<1> QED BY <1>2 DEF ThresholdField

LEMMA GatePassed ==
    ASSUME Gate = {}
    PROVE  /\ CheckSpec = {} /\ RegistrySync = {} /\ CheckDetectorIds = {} /\ CheckSchemas = {}
BY DEF Gate

LEMMA ThresholdsPassed ==
    ASSUME NEW d, ThresholdListErrors(d) = {}
    PROVE  LET told == ListOf(d.thresholds)
           IN  /\ \A i \in DOMAIN told : told[i] # Ill /\ Text(told[i].key)
               /\ \A i, j \in DOMAIN told : told[i].key = told[j].key => i = j
               /\ \A i \in DOMAIN told : /\ told[i].type \in Numeric \union {"string"}
                                         /\ RangeDefaultOK(told[i])
<1> DEFINE told == ListOf(d.thresholds)
           keyed == {i \in DOMAIN told : told[i] # Ill /\ Text(told[i].key)}
           rules == [
            thresholds |-> d.thresholds = Ill,
            entry |-> Ill \in Range(told),
            key |-> keyed # DOMAIN told,
            duplicate |-> \E i, j \in keyed : i # j /\ told[i].key = told[j].key,
            type |-> \E t \in Mappings(told) : t.type \notin Numeric \union {"string"},
            range |-> \E t \in Mappings(told) : ~RangeDefaultOK(t)]
<1>1. Broken(rules) = {}
  BY DEF ThresholdListErrors
<1>2. \A rule \in DOMAIN rules : ~rules[rule]
  <2> HIDE DEF rules
  <2> QED BY <1>1 DEF Broken
<1>3. /\ "key" \in DOMAIN rules /\ "duplicate" \in DOMAIN rules
      /\ "type" \in DOMAIN rules /\ "range" \in DOMAIN rules
  OBVIOUS
<1>4. ~rules.key /\ ~rules.duplicate /\ ~rules.type /\ ~rules.range
  <2> HIDE DEF rules
  <2> QED BY <1>2, <1>3, Zenon
<1>5. keyed = DOMAIN told
  BY <1>4
<1>6. ASSUME NEW i \in DOMAIN told PROVE told[i] \in Mappings(told)
  <2>1. told[i] \in Range(told) /\ told[i] # Ill
    BY <1>5 DEF Range
  <2>2. d.thresholds \notin {Ill, NoValue}
    <3> SUFFICES ASSUME d.thresholds \in {Ill, NoValue} PROVE FALSE
      OBVIOUS
    <3>1. told = <<>>
      BY DEF ListOf
    <3> HIDE DEF told
    <3> QED BY <3>1
  <2>3. told = d.thresholds
    BY <2>2 DEF ListOf
  <2> HIDE DEF told
  <2> QED BY <2>1, <2>2, <2>3 DEF Mappings, ListOf
<1> QED BY <1>4, <1>5, <1>6

LEMMA OnlyPlace ==
    ASSUME NEW F, NEW i, F = {i} PROVE LastOf(F) = i
BY DEF LastOf

\* In a tree the gate passes each id has its one place in spec and manifest alike.
LEMMA Placed ==
    ASSUME Gate = {}
    PROVE  /\ DOMAIN manifest = DOMAIN spec
           /\ SpecIds = {spec[i].id : i \in DOMAIN spec} /\ ManifestIds = SpecIds
           /\ \A i \in DOMAIN spec :
                /\ SpecOf(spec[i].id) = spec[i] /\ EntryOf(spec[i].id) = manifest[i]
                /\ manifest[i] \in Range(manifest)
                /\ manifest[i].id = spec[i].id /\ manifest[i].mode = spec[i].mode
                /\ manifest[i].thresholds = ListOf(spec[i].thresholds)
<1>1. /\ manifest = RenderManifest(spec)
      /\ \A i \in DOMAIN spec : spec[i] # Ill /\ Text(spec[i].id)
      /\ \A i, j \in DOMAIN spec : spec[i].id = spec[j].id => i = j
  BY GatePassed, RegistryPassed, SpecPassed
<1>2. DOMAIN manifest = DOMAIN spec
  BY <1>1 DEF RenderManifest
<1>3. Identified(spec) = DOMAIN spec
  BY <1>1 DEF Identified
<1>4. ASSUME NEW i \in DOMAIN spec
      PROVE  /\ manifest[i].id = spec[i].id /\ manifest[i].mode = spec[i].mode
             /\ manifest[i].thresholds = ListOf(spec[i].thresholds)
             /\ manifest[i] \in Range(manifest)
  <2>1. manifest[i] = [id |-> spec[i].id, ceiling |-> spec[i].ceiling, mode |-> spec[i].mode,
                       thresholds |-> ListOf(spec[i].thresholds)]
    BY <1>1 DEF RenderManifest
  <2> QED BY <1>2, <2>1 DEF Range
<1>5. ASSUME NEW i \in DOMAIN spec
      PROVE  SpecOf(spec[i].id) = spec[i] /\ EntryOf(spec[i].id) = manifest[i]
  <2>1. /\ {j \in Identified(spec) : spec[j].id = spec[i].id} = {i}
        /\ {j \in DOMAIN manifest : manifest[j].id = spec[i].id} = {i}
    BY <1>1, <1>2, <1>3, <1>4
  <2> QED BY <2>1, OnlyPlace DEF SpecOf, EntryOf
<1>6. SpecIds = {spec[i].id : i \in DOMAIN spec}
  BY <1>3 DEF SpecIds
<1>7. ManifestIds = SpecIds
  <2>1. ManifestIds = {manifest[i].id : i \in DOMAIN manifest}
    BY DEF ManifestIds, Range
  <2> QED BY <1>2, <1>4, <1>6, <2>1
<1> QED BY <1>2, <1>4, <1>5, <1>6, <1>7

LEMMA ReleaseFields ==
    /\ ShippedRelease.spec = SpecIds /\ ShippedRelease.manifest = Manifest
    /\ DOMAIN Manifest = ManifestIds
    /\ \A id \in ManifestIds :
            /\ Manifest[id].mode = EntryOf(id).mode
            /\ DOMAIN Manifest[id].thresholds = DOMAIN ByKey(EntryOf(id).thresholds)
BY DEF ShippedRelease, Manifest

LEMMA DefaultIsTheSpecs ==
    ASSUME Gate = {}
    PROVE  /\ DefaultMode(ShippedRelease) = [d \in SpecIds |-> SpecOf(d).mode]
           /\ \A d \in SpecIds : SpecOf(d).mode \in Mode
<1>1. ASSUME NEW d \in SpecIds
      PROVE  d \in ManifestIds /\ EntryOf(d).mode = SpecOf(d).mode /\ SpecOf(d).mode \in Mode
  <2>1. PICK i \in DOMAIN spec : d = spec[i].id
    BY Placed
  <2>2. manifest[i].mode \in Mode
    BY Placed, GatePassed, SchemasPassed
  <2> QED BY <2>1, <2>2, Placed
<1>2. Manifested(ShippedRelease) = ManifestIds
  BY ReleaseFields DEF Manifested
<1>3. DefaultMode(ShippedRelease) =
        [d \in SpecIds |-> IF d \in ManifestIds THEN Manifest[d].mode ELSE "observe"]
  BY <1>2, ReleaseFields DEF DefaultMode
<1>4. \A d \in SpecIds : (IF d \in ManifestIds THEN Manifest[d].mode ELSE "observe") = SpecOf(d).mode
  BY <1>1, ReleaseFields
<1> QED BY <1>1, <1>3, <1>4

\* A default that is spelled out is the one its key has, and within its range.
LEMMA DefaultsAreInRange ==
    ASSUME Gate = {}, NEW d \in ManifestIds, NEW t \in Range(EntryOf(d).thresholds),
           t.type # "string"
    PROVE  ThresholdOK(Manifest[d].thresholds[t.key], t.default)
<1>1. PICK i \in DOMAIN spec : d = spec[i].id
  BY Placed
<1> DEFINE told == ListOf(spec[i].thresholds)
<1>2. EntryOf(d) = manifest[i] /\ EntryOf(d).thresholds = told
  BY <1>1, Placed
<1>3. /\ \A k \in DOMAIN told : told[k] # Ill /\ Text(told[k].key)
      /\ \A k, m \in DOMAIN told : told[k].key = told[m].key => k = m
      /\ \A k \in DOMAIN told : /\ told[k].type \in Numeric \union {"string"}
                                /\ RangeDefaultOK(told[k])
  BY GatePassed, RegistryPassed, SpecPassed, ThresholdsPassed
<1>4. PICK k \in DOMAIN told : t = told[k]
  BY <1>2 DEF Range
<1>5. t # Ill /\ Text(t.key) /\ t.type \in Numeric /\ RangeDefaultOK(t)
  BY <1>3, <1>4
<1>6. Text(t.range) /\ Len(t.range) = 2
  BY <1>1, <1>2, Placed, GatePassed, SchemasPassed
<1> DEFINE keyed == {u \in Mappings(told) : Text(u.key)}
<1>7. t \in keyed /\ \A u \in keyed : u.key = t.key => u = t
  <2>1. ListOf(told) = told
    <3> SUFFICES ASSUME told \in {Ill, NoValue} PROVE told = <<>>
      BY DEF ListOf
    <3> QED BY DEF ListOf
  <2>2. Mappings(told) = Range(told) \ {Ill}
    <3> HIDE DEF told
    <3> QED BY <2>1 DEF Mappings
  <2>3. t \in keyed
    <3> HIDE DEF told
    <3> QED BY <1>4, <1>5, <2>2 DEF Range
  <2>4. ASSUME NEW u \in keyed, u.key = t.key PROVE u = t
    <3>1. PICK m \in DOMAIN told : u = told[m]
      <4> HIDE DEF told
      <4> QED BY <2>2 DEF Range
    <3> QED BY <1>3, <1>4, <2>4, <3>1
  <2> QED BY <2>3, <2>4
<1>8. ByKey(told)[t.key] = t /\ t.key \in DOMAIN ByKey(told)
  <2>1. t.key \in {u.key : u \in keyed}
    BY <1>7
  <2>2. (CHOOSE u \in keyed : u.key = t.key) = t
    <3> HIDE DEF keyed
    <3> QED BY <1>7
  <2> QED BY <2>1, <2>2 DEF ByKey
<1> DEFINE bounds == IF Text(t.range) /\ Len(t.range) = 2 /\ Finite(t.range[1]) /\ Finite(t.range[2])
                     THEN <<t.range[1].size, t.range[2].size>> ELSE NoValue
<1>9. Manifest[d].thresholds[t.key] = [type |-> t.type, default |-> t.default, range |-> bounds]
  <2>1. Manifest[d].thresholds =
          [k1 \in DOMAIN ByKey(told) |->
                LET u == ByKey(told)[k1]
                IN  [type |-> u.type, default |-> u.default,
                     range |-> IF Text(u.range) /\ Len(u.range) = 2 /\ Finite(u.range[1])
                                  /\ Finite(u.range[2])
                               THEN <<u.range[1].size, u.range[2].size>> ELSE NoValue]]
    <3> HIDE DEF told
    <3> QED BY <1>2 DEF Manifest
  <2> HIDE DEF told
  <2> QED BY <1>8, <2>1
<1>10. RightKind(t.type, t.default)
  BY <1>5, <1>6 DEF RightKind, RangeDefaultOK, Finite, Whole, Numeric
<1>11. InRange(bounds, t.default)
  <2>1. t.default.size \in t.range[1].size..t.range[2].size
    BY <1>5, <1>6 DEF RangeDefaultOK
  <2>2. CASE bounds = NoValue
    BY <2>2 DEF InRange
  <2>3. CASE bounds = <<t.range[1].size, t.range[2].size>>
    <3> HIDE DEF bounds
    <3>1. bounds[1] = t.range[1].size /\ bounds[2] = t.range[2].size
      BY <2>3
    <3> QED BY <2>1, <3>1 DEF InRange
  <2> QED BY <2>2, <2>3
<1> HIDE DEF bounds
<1> QED BY <1>9, <1>10, <1>11 DEF ThresholdOK

LEMMA ExampleAccepted ==
    ASSUME Gate = {}
    PROVE  RegistryErrors(ShippedRelease, example) \subseteq {<<"block", d>> : d \in EmptyBlocks}
<1> DEFINE modes == {<<"mode", d>> : d \in DOMAIN example.modes \ SpecIds}
           blocks == {<<"block", d>> : d \in DOMAIN example.thresholds \ SpecIds}
           strange(d) == {<<d, k>> : k \in DOMAIN Block(example, d)
                            \ (IF d \in Manifested(ShippedRelease)
                               THEN DOMAIN ShippedRelease.manifest[d].thresholds ELSE {})}
           keys == UNION {strange(d) : d \in DOMAIN example.thresholds \intersect SpecIds}
<1>1. RegistryErrors(ShippedRelease, example) = modes \union blocks \union keys
  BY Zenon, ReleaseFields DEF RegistryErrors
<1>2. /\ DOMAIN example.modes = SpecIds /\ ManifestIds = SpecIds
      /\ \A d \in DOMAIN example.thresholds :
            DOMAIN example.thresholds[d]
                \subseteq (IF d \in ManifestIds THEN DOMAIN Manifest[d].thresholds ELSE {})
  BY GatePassed, DetectorIdsPassed, Placed
<1>3. modes = {}
  BY <1>2
<1>4. blocks \subseteq {<<"block", d>> : d \in EmptyBlocks}
  BY <1>2 DEF EmptyBlocks
<1>5. ASSUME NEW d \in DOMAIN example.thresholds \intersect SpecIds PROVE strange(d) = {}
  <2>1. Block(example, d) = example.thresholds[d]
    BY DEF Block
  <2>2. d \in Manifested(ShippedRelease) /\ ShippedRelease.manifest[d] = Manifest[d]
    BY <1>2, ReleaseFields DEF Manifested
  <2> QED BY <1>2, <2>1, <2>2
<1>6. keys = {}
  <2> HIDE DEF strange
  <2> QED BY <1>5
<1> QED BY <1>1, <1>3, <1>4, <1>6

LEMMA ExampleBelow == ExampleNeverRaises
<1> DEFINE modes == Effective(ShippedRelease, example).modes
           default == DefaultMode(ShippedRelease)
<1> SUFFICES ASSUME Gate = {}, NEW d \in DOMAIN modes
             PROVE  ModeRank[modes[d]] <= ModeRank[default[d]]
  BY DEF ExampleNeverRaises
<1>1. default = [x \in SpecIds |-> SpecOf(x).mode] /\ \A x \in SpecIds : SpecOf(x).mode \in Mode
  BY DefaultIsTheSpecs
<1>2. modes = Filled(example.modes, default)
  BY DEF Effective
<1>3. /\ DOMAIN example.modes = SpecIds
      /\ \A x \in DOMAIN example.modes \intersect SpecIds :
            example.modes[x] \in Mode /\ SpecOf(x).mode \in Mode
                => ~(ModeRank[example.modes[x]] > ModeRank[SpecOf(x).mode])
      /\ \A x \in DOMAIN example.modes : example.modes[x] \in Mode
  BY GatePassed, DetectorIdsPassed, SchemasPassed
<1> HIDE DEF modes, default
<1>4. d \in SpecIds /\ modes[d] = example.modes[d]
  BY <1>1, <1>2, <1>3 DEF Filled
<1>5. /\ modes[d] \in Mode /\ default[d] \in Mode
      /\ ~(ModeRank[modes[d]] > ModeRank[default[d]])
  BY <1>1, <1>3, <1>4
<1>6. \A m \in Mode : ModeRank[m] \in Int
  BY ModeAssumption DEF ModeRank
<1> QED BY <1>5, <1>6

(* However spec, manifest and example are edited, and in whatever order: a tree the   *)
(* gate passes ships a manifest that is the spec's, defaults within their ranges, and *)
(* an example that config_check.py takes and that raises no mode.                     *)
THEOREM ShippedTreesFit == DetectorSpec => []DetectorVerdict
<1>1. DetectorVerdict
  <2>1. ShippedIsAccepted
    BY ExampleAccepted, DefaultIsTheSpecs, DefaultsAreInRange, GatePassed, DetectorIdsPassed
    DEF ShippedIsAccepted
  <2> QED BY <2>1, ExampleBelow DEF DetectorVerdict
<1> QED BY <1>1, PTL

-----------------------------------------------------------------------------
(* Links between the documents. *)

DocInv ==
    /\ lines \in Seq(Line)
    /\ links \subseteq [path : LinkPath, anchor : LinkAnchor]

LEMMA DocInductive == DocSpec => []DocInv
<1>1. DocInit => DocInv
  <2> SUFFICES ASSUME DocInit PROVE DocInv
    OBVIOUS
  <2>1. [path |-> Page, anchor |-> NoAnchor] \in [path : LinkPath, anchor : LinkAnchor]
    BY DocAssumption
  <2>2. lines \in Seq(Line)
    BY DEF DocInit
  <2> QED BY <2>1, <2>2 DEF DocInit, DocInv
<1>2. DocInv /\ [DocNext]_docVars => DocInv'
  <2> SUFFICES ASSUME DocInv, [DocNext]_docVars PROVE DocInv'
    OBVIOUS
  <2>1. CASE RenameEntry
    BY <2>1 DEF RenameEntry, DocInv
  <2>2. CASE RemoveEntry
    BY <2>2 DEF RemoveEntry, DocInv
  <2>3. CASE EditLine
    <3>1. PICK line \in Line : lines' = Append(lines, line)
      BY <2>3 DEF EditLine
    <3>2. lines' \in Seq(Line)
      <4> DEFINE marks == Line
      <4> HIDE DEF marks
      <4>1. lines \in Seq(marks) /\ line \in marks
        BY DEF DocInv, marks
      <4>2. lines' \in Seq(marks)
        BY <3>1, <4>1
      <4> QED BY <4>2 DEF marks
    <3> QED BY <2>3, <3>2 DEF EditLine, DocInv
  <2>4. CASE EditLink
    <3> DEFINE link == [path : LinkPath, anchor : LinkAnchor]
    <3>1. links' \in {links \union {l} : l \in link} /\ lines' = lines
      BY <2>4 DEF EditLink
    <3>2. links \subseteq link
      BY DEF DocInv
    <3>3. links' \subseteq link
      <4> HIDE DEF link
      <4> QED BY <3>1, <3>2
    <3> QED BY <3>1, <3>3 DEF DocInv
  <2>5. CASE UNCHANGED docVars
    BY <2>5 DEF docVars, DocInv
  <2> QED BY <2>1, <2>2, <2>3, <2>4, <2>5 DEF DocNext
<1> QED BY <1>1, <1>2, PTL DEF DocSpec

\* A path is the last of the paths that lead to it.
LEMMA LinksAreOpen == DocInv => LinksOpen
<1> SUFFICES ASSUME DocInv, NEW folds \in BOOLEAN, LinkIssues(folds) = {}, NEW l \in links
             PROVE  l.path \in paths
  BY DEF LinksOpen
<1>1. ~Missing(folds, l.path)
  <2> DEFINE rules == [
        broken |-> \E k \in links : Missing(folds, k.path),
        anchor |-> \E k \in links :
            /\ ~Missing(folds, k.path) /\ k.anchor # NoAnchor
            /\ k.path = Page /\ k.anchor \notin HeadingSlugs(lines)]
  <2>1. Broken(rules) = {}
    BY DEF LinkIssues
  <2>2. "broken" \in DOMAIN rules
    OBVIOUS
  <2>3. ~rules["broken"]
    <3> HIDE DEF rules
    <3> QED BY <2>1, <2>2, Zenon DEF Broken
  <2>4. ~\E k \in links : Missing(folds, k.path)
    BY <2>3, Zenon
  <2> QED BY <2>4
<1>2. l.path \in Seq(Name) /\ l.path # <<>>
  BY DocAssumption DEF DocInv
<1> DEFINE path == l.path
<1> HIDE DEF path
<1>3. path \in Seq(Name) /\ Len(path) \in DOMAIN path
  BY <1>2 DEF path
<1>4. SubSeq(path, 1, Len(path)) = path
  BY <1>3
<1>5. NamedThere(folds, SubSeq(path, 1, Len(path)))
  BY <1>1, <1>3 DEF Missing, path
<1> QED BY <1>4, <1>5 DEF NamedThere, path

---------------------------------------------------------------------------
(* Fenced blocks.  What the gate and a reader take each line to be in is a *)
(* recursion from line to line; what satisfies it up to a line can be      *)
(* continued by the next.                                                  *)

\* A function on the lines up to the n-th.
UpTo(n, f) == f = [k \in 0..n |-> f[k]]

\* An induction over the lines of a page: what holds at its top, and after a line when it
\* holds before, holds at its end.
Inductive(most, ok) ==
    /\ 0 \in ok
    /\ \A n \in 1..most : n - 1 \in ok => n \in ok

LEMMA LineByLine ==
    ASSUME NEW most \in Nat, NEW ok, Inductive(most, ok)
    PROVE  0..most \subseteq ok
<1> DEFINE Odd == (0..most) \ ok
<1>1. SUFFICES ASSUME Odd # {} PROVE FALSE
  OBVIOUS
<1>2. PICK n \in Odd : \A j \in Odd : n <= j
  <2>1. Odd \in SUBSET Nat
    OBVIOUS
  <2> HIDE DEF Odd
  <2> QED BY <1>1, <2>1, LeastOf
<1>3. n # 0
  BY DEF Inductive
<1>4. n - 1 \in 0..most /\ n - 1 \notin Odd
  BY <1>2, <1>3
<1>5. n \in 1..most /\ n - 1 \in ok
  BY <1>3, <1>4
<1> QED BY <1>5 DEF Inductive

\* What the gate takes the first n lines of a page to be in, and the equation it solves.
GateReads(text, n, fence) ==
    /\ UpTo(n, fence)
    /\ fence[0] = NoAnchor
    /\ \A k \in 1..n : fence[k] = FenceAfter(text[k], fence[k - 1])

GateRecursion(text, fence) ==
    fence = [n \in 0..Len(text) |->
                IF n = 0 THEN NoAnchor ELSE FenceAfter(text[n], fence[n - 1])]

LEMMA GateReading ==
    ASSUME NEW text \in Seq(Line)
    PROVE  GateReads(text, Len(text), Fenced(text))
<1> DEFINE most == Len(text)
           able == {n \in 0..most : \E fence : GateReads(text, n, fence)}
<1>1. Inductive(most, able)
  <2>1. 0 \in able
    <3>1. GateReads(text, 0, [k \in 0..0 |-> NoAnchor])
      BY DEF GateReads, UpTo
    <3> QED BY <3>1
  <2>2. ASSUME NEW n \in 1..most, n - 1 \in able PROVE n \in able
    <3>1. PICK fence : GateReads(text, n - 1, fence)
      BY <2>2
    <3> DEFINE next == FenceAfter(text[n], fence[n - 1])
               more == [k \in 0..n |-> IF k = n THEN next ELSE fence[k]]
    <3>2. fence[0] = NoAnchor /\ \A k \in 1..(n - 1) : fence[k] = FenceAfter(text[k], fence[k - 1])
      BY <3>1 DEF GateReads
    <3>3. next = FenceAfter(text[n], fence[n - 1])
      OBVIOUS
    <3> HIDE DEF next
    <3>4. UpTo(n, more) /\ more[0] = NoAnchor
      BY <3>2 DEF UpTo
    <3>5. ASSUME NEW k \in 1..n PROVE more[k] = FenceAfter(text[k], more[k - 1])
      <4>1. more[k - 1] = fence[k - 1]
        OBVIOUS
      <4>2. CASE k = n
        BY <3>3, <4>1, <4>2
      <4>3. CASE k # n
        <5>1. k \in 1..(n - 1) /\ more[k] = fence[k]
          BY <4>3
        <5> QED BY <3>2, <4>1, <5>1
      <4> QED BY <4>2, <4>3
    <3>6. GateReads(text, n, more)
      <4> HIDE DEF more
      <4> QED BY <3>4, <3>5 DEF GateReads
    <3> QED BY <3>6
  <2> QED BY <2>1, <2>2 DEF Inductive
<1>2. PICK fence : GateReads(text, most, fence)
  <2>1. 0..most \subseteq able
    <3> HIDE DEF able
    <3> QED BY <1>1, LineByLine
  <2> QED BY <2>1
<1>3. GateRecursion(text, fence)
  <2>1. fence[0] = NoAnchor /\ \A n \in 1..most : fence[n] = FenceAfter(text[n], fence[n - 1])
    BY <1>2, Zenon DEF GateReads
  <2>2. \A n \in 0..most : n = 0 \/ (n # 0 /\ n \in 1..most)
    OBVIOUS
  <2>3. \A n \in 0..most : fence[n] = IF n = 0 THEN NoAnchor ELSE FenceAfter(text[n], fence[n - 1])
    BY <2>1, <2>2, Zenon
  <2>4. UpTo(most, fence)
    BY <1>2, Zenon DEF GateReads
  <2> QED BY <2>3, <2>4, Zenon DEF GateRecursion, UpTo
<1> DEFINE all == Fenced(text)
<1>4. GateRecursion(text, all)
  BY <1>3, Zenon DEF Fenced, GateRecursion
<1> HIDE DEF all
<1>5. \A n \in 0..most : all[n] = IF n = 0 THEN NoAnchor ELSE FenceAfter(text[n], all[n - 1])
  BY <1>4, Zenon DEF GateRecursion
<1>6. UpTo(most, all)
  BY <1>4, Zenon DEF GateRecursion, UpTo
<1>7. 0 \in 0..most /\ \A n \in 1..most : n \in 0..most /\ n # 0
  OBVIOUS
<1>8. all[0] = NoAnchor /\ \A n \in 1..most : all[n] = FenceAfter(text[n], all[n - 1])
  BY <1>5, <1>7, Zenon
<1> QED BY <1>6, <1>8 DEF GateReads, all

\* What a reader takes them to be in.
ReaderReads(text, n, fence) ==
    /\ UpTo(n, fence)
    /\ fence[0] = NoAnchor
    /\ \A k \in 1..n : fence[k] = RenderedAfter(text[k], fence[k - 1])

ReaderRecursion(text, fence) ==
    fence = [n \in 0..Len(text) |->
                IF n = 0 THEN NoAnchor ELSE RenderedAfter(text[n], fence[n - 1])]

LEMMA ReaderReading ==
    ASSUME NEW text \in Seq(Line)
    PROVE  ReaderReads(text, Len(text), RenderedFences(text))
<1> DEFINE most == Len(text)
           able == {n \in 0..most : \E fence : ReaderReads(text, n, fence)}
<1>1. Inductive(most, able)
  <2>1. 0 \in able
    <3>1. ReaderReads(text, 0, [k \in 0..0 |-> NoAnchor])
      BY DEF ReaderReads, UpTo
    <3> QED BY <3>1
  <2>2. ASSUME NEW n \in 1..most, n - 1 \in able PROVE n \in able
    <3>1. PICK fence : ReaderReads(text, n - 1, fence)
      BY <2>2
    <3> DEFINE next == RenderedAfter(text[n], fence[n - 1])
               more == [k \in 0..n |-> IF k = n THEN next ELSE fence[k]]
    <3>2. fence[0] = NoAnchor /\ \A k \in 1..(n - 1) : fence[k] = RenderedAfter(text[k], fence[k - 1])
      BY <3>1 DEF ReaderReads
    <3>3. next = RenderedAfter(text[n], fence[n - 1])
      OBVIOUS
    <3> HIDE DEF next
    <3>4. UpTo(n, more) /\ more[0] = NoAnchor
      BY <3>2 DEF UpTo
    <3>5. ASSUME NEW k \in 1..n PROVE more[k] = RenderedAfter(text[k], more[k - 1])
      <4>1. more[k - 1] = fence[k - 1]
        OBVIOUS
      <4>2. CASE k = n
        BY <3>3, <4>1, <4>2
      <4>3. CASE k # n
        <5>1. k \in 1..(n - 1) /\ more[k] = fence[k]
          BY <4>3
        <5> QED BY <3>2, <4>1, <5>1
      <4> QED BY <4>2, <4>3
    <3>6. ReaderReads(text, n, more)
      <4> HIDE DEF more
      <4> QED BY <3>4, <3>5 DEF ReaderReads
    <3> QED BY <3>6
  <2> QED BY <2>1, <2>2 DEF Inductive
<1>2. PICK fence : ReaderReads(text, most, fence)
  <2>1. 0..most \subseteq able
    <3> HIDE DEF able
    <3> QED BY <1>1, LineByLine
  <2> QED BY <2>1
<1>3. ReaderRecursion(text, fence)
  <2>1. fence[0] = NoAnchor /\ \A n \in 1..most : fence[n] = RenderedAfter(text[n], fence[n - 1])
    BY <1>2, Zenon DEF ReaderReads
  <2>2. \A n \in 0..most : n = 0 \/ (n # 0 /\ n \in 1..most)
    OBVIOUS
  <2>3. \A n \in 0..most : fence[n] = IF n = 0 THEN NoAnchor ELSE RenderedAfter(text[n], fence[n - 1])
    BY <2>1, <2>2, Zenon
  <2>4. UpTo(most, fence)
    BY <1>2, Zenon DEF ReaderReads
  <2> QED BY <2>3, <2>4, Zenon DEF ReaderRecursion, UpTo
<1> DEFINE all == RenderedFences(text)
<1>4. ReaderRecursion(text, all)
  BY <1>3, Zenon DEF RenderedFences, ReaderRecursion
<1> HIDE DEF all
<1>5. \A n \in 0..most : all[n] = IF n = 0 THEN NoAnchor ELSE RenderedAfter(text[n], all[n - 1])
  BY <1>4, Zenon DEF ReaderRecursion
<1>6. UpTo(most, all)
  BY <1>4, Zenon DEF ReaderRecursion, UpTo
<1>7. 0 \in 0..most /\ \A n \in 1..most : n \in 0..most /\ n # 0
  OBVIOUS
<1>8. all[0] = NoAnchor /\ \A n \in 1..most : all[n] = RenderedAfter(text[n], all[n - 1])
  BY <1>5, <1>7, Zenon
<1> QED BY <1>6, <1>8 DEF ReaderReads, all

\* The anchors they offer.
OfferReads(text, n, taken) ==
    /\ UpTo(n, taken)
    /\ taken[0] = {}
    /\ \A k \in 1..n : taken[k] = OfferedAfter(text, k, taken[k - 1])

OfferRecursion(text, taken) ==
    taken = [n \in 0..Len(text) |->
                IF n = 0 THEN {} ELSE OfferedAfter(text, n, taken[n - 1])]

LEMMA OfferReading ==
    ASSUME NEW text \in Seq(Line)
    PROVE  OfferReads(text, Len(text), Offered(text))
<1> DEFINE most == Len(text)
           able == {n \in 0..most : \E taken : OfferReads(text, n, taken)}
<1>1. Inductive(most, able)
  <2>1. 0 \in able
    <3>1. OfferReads(text, 0, [k \in 0..0 |-> {}])
      BY DEF OfferReads, UpTo
    <3> QED BY <3>1
  <2>2. ASSUME NEW n \in 1..most, n - 1 \in able PROVE n \in able
    <3>1. PICK taken : OfferReads(text, n - 1, taken)
      BY <2>2
    <3> DEFINE next == OfferedAfter(text, n, taken[n - 1])
               more == [k \in 0..n |-> IF k = n THEN next ELSE taken[k]]
    <3>2. taken[0] = {} /\ \A k \in 1..(n - 1) : taken[k] = OfferedAfter(text, k, taken[k - 1])
      BY <3>1 DEF OfferReads
    <3>3. next = OfferedAfter(text, n, taken[n - 1])
      OBVIOUS
    <3> HIDE DEF next
    <3>4. UpTo(n, more) /\ more[0] = {}
      BY <3>2 DEF UpTo
    <3>5. ASSUME NEW k \in 1..n PROVE more[k] = OfferedAfter(text, k, more[k - 1])
      <4>1. more[k - 1] = taken[k - 1]
        OBVIOUS
      <4>2. CASE k = n
        BY <3>3, <4>1, <4>2
      <4>3. CASE k # n
        <5>1. k \in 1..(n - 1) /\ more[k] = taken[k]
          BY <4>3
        <5> QED BY <3>2, <4>1, <5>1
      <4> QED BY <4>2, <4>3
    <3>6. OfferReads(text, n, more)
      <4> HIDE DEF more
      <4> QED BY <3>4, <3>5 DEF OfferReads
    <3> QED BY <3>6
  <2> QED BY <2>1, <2>2 DEF Inductive
<1>2. PICK taken : OfferReads(text, most, taken)
  <2>1. 0..most \subseteq able
    <3> HIDE DEF able
    <3> QED BY <1>1, LineByLine
  <2> QED BY <2>1
<1>3. OfferRecursion(text, taken)
  <2>1. taken[0] = {} /\ \A n \in 1..most : taken[n] = OfferedAfter(text, n, taken[n - 1])
    BY <1>2, Zenon DEF OfferReads
  <2>2. \A n \in 0..most : n = 0 \/ (n # 0 /\ n \in 1..most)
    OBVIOUS
  <2>3. \A n \in 0..most : taken[n] = IF n = 0 THEN {} ELSE OfferedAfter(text, n, taken[n - 1])
    BY <2>1, <2>2, Zenon
  <2>4. UpTo(most, taken)
    BY <1>2, Zenon DEF OfferReads
  <2> QED BY <2>3, <2>4, Zenon DEF OfferRecursion, UpTo
<1> DEFINE all == Offered(text)
<1>4. OfferRecursion(text, all)
  BY <1>3, Zenon DEF Offered, OfferRecursion
<1> HIDE DEF all
<1>5. \A n \in 0..most : all[n] = IF n = 0 THEN {} ELSE OfferedAfter(text, n, all[n - 1])
  BY <1>4, Zenon DEF OfferRecursion
<1>6. UpTo(most, all)
  BY <1>4, Zenon DEF OfferRecursion, UpTo
<1>7. 0 \in 0..most /\ \A n \in 1..most : n \in 0..most /\ n # 0
  OBVIOUS
<1>8. all[0] = {} /\ \A n \in 1..most : all[n] = OfferedAfter(text, n, all[n - 1])
  BY <1>5, <1>7, Zenon
<1> QED BY <1>6, <1>8 DEF OfferReads, all


---------------------------------------------------------------------------

\* On a page that quotes no marker the gate is where a reader is, after every line.
LEMMA SameFences ==
    ASSUME NEW text \in Seq(Line), ~QuotesFence(text), NEW n \in 0..Len(text)
    PROVE  Fenced(text)[n] = RenderedFences(text)[n]
<1> DEFINE most == Len(text)
           gate == Fenced(text)
           reader == RenderedFences(text)
           same == {k \in 0..most : gate[k] = reader[k]}
<1>1. /\ gate[0] = NoAnchor /\ \A k \in 1..most : gate[k] = FenceAfter(text[k], gate[k - 1])
      /\ reader[0] = NoAnchor /\ \A k \in 1..most : reader[k] = RenderedAfter(text[k], reader[k - 1])
  BY GateReading, ReaderReading, Zenon DEF GateReads, ReaderReads
<1>2. \A k \in 1..most : text[k].kind = "fence" => reader[k - 1] \in {NoAnchor, text[k].of}
  BY DEF QuotesFence
<1>3. \A k \in 1..most : text[k].kind = "fence" => text[k].of # NoAnchor
  <2> TAKE k \in 1..most
  <2>1. text[k] \in Line
    OBVIOUS
  <2> QED BY <2>1, DocAssumption DEF Line
<1> HIDE DEF gate, reader
<1>4. Inductive(most, same)
  <2>1. 0 \in same
    BY <1>1
  <2>2. ASSUME NEW k \in 1..most, k - 1 \in same PROVE k \in same
    <3> DEFINE g == gate[k - 1]  r == reader[k - 1]
    <3>1. g = r /\ gate[k] = FenceAfter(text[k], g) /\ reader[k] = RenderedAfter(text[k], r)
      BY <1>1, <2>2
    <3>2. /\ text[k].kind = "fence" => r \in {NoAnchor, text[k].of}
          /\ text[k].kind = "fence" => text[k].of # NoAnchor
      BY <1>2, <1>3
    <3> HIDE DEF g, r
    <3>3. gate[k] = reader[k]
      BY <3>1, <3>2 DEF FenceAfter, RenderedAfter
    <3> QED BY <3>3
  <2> QED BY <2>1, <2>2 DEF Inductive
<1>5. n \in same
  <2> HIDE DEF same
  <2> QED BY <1>4, LineByLine
<1> QED BY <1>5 DEF gate, reader

LEMMA SameLines ==
    ASSUME NEW text \in Seq(Line), ~QuotesFence(text)
    PROVE  RenderedLines(text) = Unfenced(text)
<1>1. \A n \in DOMAIN text : Fenced(text)[n] = RenderedFences(text)[n]
  BY SameFences
<1> QED BY <1>1, Zenon DEF RenderedLines, Unfenced

---------------------------------------------------------------------------
(* Anchors. *)

\* The headings of the first n lines that ask for an anchor.
Asking(text, head, n) == {j \in Headings(text) : j <= n /\ text[j].of = head}

LEMMA AskingFinite ==
    ASSUME NEW text \in Seq(Line), NEW head, NEW n
    PROVE  IsFiniteSet(Asking(text, head, n))
<1>1. Asking(text, head, n) \subseteq 1..Len(text)
  BY DEF Asking, Headings, Unfenced
<1> QED BY <1>1, FS_Interval, FS_Subset

\* A line changes how many ask for an anchor by one, if it is a heading that does.
LEMMA OneMoreAsks ==
    ASSUME NEW text \in Seq(Line), NEW head, NEW n \in 1..Len(text)
    PROVE  LET before == Cardinality(Asking(text, head, n - 1))
               after == Cardinality(Asking(text, head, n))
           IN  /\ before \in Nat
               /\ after = IF n \in Headings(text) /\ text[n].of = head THEN before + 1 ELSE before
<1> DEFINE before == Asking(text, head, n - 1)
           after == Asking(text, head, n)
<1>1. IsFiniteSet(before) /\ Cardinality(before) \in Nat
  BY AskingFinite, FS_CardinalityType
<1>2. Headings(text) \subseteq Int
  BY DEF Headings, Unfenced
<1>3. CASE n \in Headings(text) /\ text[n].of = head
  <2>1. after = before \union {n} /\ n \notin before
    BY <1>2, <1>3 DEF Asking
  <2> HIDE DEF before, after
  <2>2. Cardinality(after) = Cardinality(before) + 1
    BY <1>1, <2>1, FS_AddElement
  <2> QED BY <1>1, <1>3, <2>2 DEF before, after
<1>4. CASE ~(n \in Headings(text) /\ text[n].of = head)
  <2>1. after = before
    BY <1>2, <1>4 DEF Asking
  <2> HIDE DEF before, after
  <2> QED BY <1>1, <1>4, <2>1 DEF before, after
<1> QED BY <1>3, <1>4

\* The first number free is the one that follows numbers that are all taken.
LEMMA FirstFree ==
    ASSUME NEW head, NEW taken, NEW most \in Nat, NEW k \in 0..most,
           \A m \in 0..(k - 1) : Slug(head, m) \in taken
    PROVE  Slug(head, k) \in taken \union {FreeAnchor(head, taken, most)}
<1> DEFINE Free(j) == /\ Slug(head, j) \notin taken
                      /\ \A m \in 0..(j - 1) : Slug(head, m) \in taken
<1>1. SUFFICES ASSUME Slug(head, k) \notin taken PROVE Slug(head, k) = FreeAnchor(head, taken, most)
  OBVIOUS
<1>2. Free(k)
  BY <1>1
<1> DEFINE first == CHOOSE j \in 0..most : Free(j)
<1>3. first \in 0..most /\ Free(first)
  <2> HIDE DEF Free
  <2> QED BY <1>2
<1> HIDE DEF first
<1>4. first = k
  <2>1. ~(first < k)
    BY <1>3
  <2>2. ~(k < first)
    BY <1>1, <1>3
  <2> QED BY <1>3, <2>1, <2>2
<1>5. FreeAnchor(head, taken, most) = Slug(head, first)
  BY DEF FreeAnchor, first
<1> QED BY <1>4, <1>5

\* On a page that quotes no marker each heading finds its anchor offered: the repeat the
\* gate counts is the number a reader's page gives it, unless that was taken before.
LEMMA AnchorsOffered ==
    ASSUME NEW text \in Seq(Line), ~QuotesFence(text)
    PROVE  HeadingSlugs(text) \subseteq Offered(text)[Len(text)]
<1> DEFINE most == Len(text)
           taken == Offered(text)
           Numbered(n) == \A head : \A m \in 0..(Cardinality(Asking(text, head, n)) - 1) :
                                Slug(head, m) \in taken[n]
           ok == {n \in 0..most : Numbered(n)}
<1>1. taken[0] = {} /\ \A n \in 1..most : taken[n] = OfferedAfter(text, n, taken[n - 1])
  BY OfferReading, Zenon DEF OfferReads
<1>2. RenderedLines(text) = Unfenced(text)
  BY SameLines
<1> HIDE DEF taken
<1>3. Inductive(most, ok)
  <2>1. Numbered(0)
    <3> SUFFICES ASSUME NEW head, NEW m \in 0..(Cardinality(Asking(text, head, 0)) - 1)
                 PROVE  FALSE
      OBVIOUS
    <3>1. Asking(text, head, 0) = {}
      BY DEF Asking, Headings, Unfenced
    <3>2. Cardinality(Asking(text, head, 0)) = 0
      BY <3>1, FS_EmptySet
    <3> QED BY <3>2
  <2>2. ASSUME NEW n \in 1..most, Numbered(n - 1) PROVE Numbered(n)
    <3> SUFFICES ASSUME NEW head, NEW m \in 0..(Cardinality(Asking(text, head, n)) - 1)
                 PROVE  Slug(head, m) \in taken[n]
      OBVIOUS
    <3> DEFINE before == Cardinality(Asking(text, head, n - 1))
               after == Cardinality(Asking(text, head, n))
               heading == n \in Headings(text) /\ text[n].of = head
    <3>1. before \in Nat /\ after = IF heading THEN before + 1 ELSE before
      BY OneMoreAsks
    <3>2. taken[n - 1] \subseteq taken[n]
      BY <1>1 DEF OfferedAfter
    <3>3. \A j \in 0..(before - 1) : Slug(head, j) \in taken[n - 1]
      BY <2>2
    <3> HIDE DEF before, after
    <3>4. CASE m < before
      <4>1. m \in 0..(before - 1)
        BY <3>1, <3>4
      <4> QED BY <3>2, <3>3, <4>1
    <3>5. CASE ~(m < before)
      <4>1. heading /\ m = before
        BY <3>1, <3>5 DEF after
      <4>2. taken[n] = taken[n - 1] \union {FreeAnchor(head, taken[n - 1], n)}
        BY <1>1, <1>2, <4>1 DEF OfferedAfter, Headings
      <4>3. before <= n
        <5>1. Asking(text, head, n - 1) \subseteq 1..n
          BY DEF Asking, Headings, Unfenced
        <5> DEFINE asking == Asking(text, head, n - 1)
        <5>2. IsFiniteSet(1..n) /\ Cardinality(1..n) = n
          BY FS_Interval
        <5>3. Cardinality(asking) <= Cardinality(1..n)
          <6> HIDE DEF asking
          <6> QED BY <5>1, <5>2, FS_Subset DEF asking
        <5> QED BY <5>2, <5>3 DEF before
      <4>4. before \in 0..n
        BY <3>1, <4>3
      <4>5. Slug(head, before) \in taken[n - 1] \union {FreeAnchor(head, taken[n - 1], n)}
        BY <3>3, <4>4, FirstFree
      <4> QED BY <4>1, <4>2, <4>5
    <3> QED BY <3>4, <3>5
  <2> HIDE DEF Numbered
  <2> QED BY <2>1, <2>2 DEF Inductive
<1>4. Numbered(most)
  <2>1. 0..most \subseteq ok
    <3> HIDE DEF ok
    <3> QED BY <1>3, LineByLine
  <2> QED BY <2>1
<1>5. ASSUME NEW i \in Headings(text)
      PROVE  Slug(text[i].of, Repeats(text, i)) \in taken[most]
  <2> DEFINE head == text[i].of
             repeats == Repeats(text, i)
  <2>1. i \in 1..most
    BY DEF Headings, Unfenced
  <2>2. {j \in Headings(text) : j < i /\ text[j].of = head} = Asking(text, head, i - 1)
    BY <2>1 DEF Asking, Headings, Unfenced
  <2>3. repeats = Cardinality(Asking(text, head, i - 1))
    BY <2>2 DEF Repeats
  <2>4. Cardinality(Asking(text, head, i)) = repeats + 1 /\ repeats \in Nat
    BY <2>1, <2>3, OneMoreAsks
  <2>5. Asking(text, head, i) \subseteq Asking(text, head, most)
    BY <2>1 DEF Asking, Headings, Unfenced
  <2>6. repeats + 1 <= Cardinality(Asking(text, head, most)) /\ Cardinality(Asking(text, head, most)) \in Nat
    BY <2>4, <2>5, AskingFinite, FS_Subset, FS_CardinalityType
  <2> HIDE DEF repeats, head
  <2>7. repeats \in 0..(Cardinality(Asking(text, head, most)) - 1)
    BY <2>4, <2>6
  <2>8. Slug(head, repeats) \in taken[most]
    BY <1>4, <2>7
  <2> QED BY <2>8 DEF head, repeats
<1> QED BY <1>5 DEF HeadingSlugs, taken

\* No malformed marker is rendered on a page without one that the gate reads.
LEMMA NoBoxEscapes ==
    ASSUME lines \in Seq(Line), ~QuotesFence(lines), TodoIssues = {}
    PROVE  \A i \in RenderedLines(lines) : lines[i].kind # "badBox"
<1> DEFINE rules == [box |-> \E i \in Unfenced(lines) : lines[i].kind = "badBox"]
<1>1. Broken(rules) = {}
  BY DEF TodoIssues
<1>2. "box" \in DOMAIN rules
  OBVIOUS
<1>3. ~rules["box"]
  <2> HIDE DEF rules
  <2> QED BY <1>1, <1>2, Zenon DEF Broken
<1>4. ~\E i \in Unfenced(lines) : lines[i].kind = "badBox"
  BY <1>3, Zenon
<1> QED BY <1>4, SameLines

\* However the documents are edited and renamed: a link the gate passes opens on a host
\* that minds case, and a page without a quoted marker offers every anchor the gate
\* accepts and shows no marker that it would refuse.
THEOREM DocumentsAreRead == DocSpec => []DocumentVerdict
<1>1. DocInv => DocumentVerdict
  BY LinksAreOpen, AnchorsOffered, NoBoxEscapes DEF DocInv, PageReadAsRendered, DocumentVerdict
<1> QED BY <1>1, DocInductive, PTL

-----------------------------------------------------------------------------
(* The schema validator and its gate.  Walks, parts and calls are made     *)
(* level by level, each level from the one before.                         *)

\* What a walk has met after n steps.
WalkReads(root, walk, n, f) ==
    /\ UpTo(n, f)
    /\ f[0] = {root}
    /\ \A k \in 1..n : f[k] = Further(f[k - 1], root, walk)

WalkRecursion(root, walk, f) ==
    f = [n \in 0..MaxWalk |-> IF n = 0 THEN {root} ELSE Further(f[n - 1], root, walk)]

LEMMA Walking ==
    ASSUME NEW root, NEW walk
    PROVE  WalkReads(root, walk, MaxWalk, WalkedFrom(root, walk))
<1> DEFINE able == {n \in 0..MaxWalk : \E f : WalkReads(root, walk, n, f)}
<1>0. MaxWalk \in Nat
  BY WalkAssumption
<1>1. Inductive(MaxWalk, able)
  <2>1. 0 \in able
    <3>1. WalkReads(root, walk, 0, [k \in 0..0 |-> {root}])
      BY DEF WalkReads, UpTo
    <3> QED BY <1>0, <3>1
  <2>2. ASSUME NEW n \in 1..MaxWalk, n - 1 \in able PROVE n \in able
    <3>1. PICK f : WalkReads(root, walk, n - 1, f)
      BY <2>2
    <3> DEFINE next == Further(f[n - 1], root, walk)
               more == [k \in 0..n |-> IF k = n THEN next ELSE f[k]]
    <3>2. f[0] = {root} /\ \A k \in 1..(n - 1) : f[k] = Further(f[k - 1], root, walk)
      BY <3>1, Zenon DEF WalkReads
    <3>3. next = Further(f[n - 1], root, walk)
      OBVIOUS
    <3> HIDE DEF next
    <3>4. UpTo(n, more) /\ more[0] = {root}
      BY <1>0, <3>2 DEF UpTo
    <3>5. ASSUME NEW k \in 1..n PROVE more[k] = Further(more[k - 1], root, walk)
      <4>1. more[k - 1] = f[k - 1]
        BY <1>0
      <4>2. CASE k = n
        <5>1. more[k] = next
          BY <4>2
        <5> HIDE DEF more
        <5> QED BY <3>3, <4>1, <4>2, <5>1, Zenon
      <4>3. CASE k # n
        <5>1. k \in 1..(n - 1) /\ more[k] = f[k]
          BY <1>0, <4>3
        <5> HIDE DEF more
        <5> QED BY <3>2, <4>1, <5>1, Zenon
      <4> QED BY <4>2, <4>3
    <3>6. WalkReads(root, walk, n, more)
      <4> HIDE DEF more
      <4> QED BY <3>4, <3>5, Zenon DEF WalkReads
    <3> QED BY <3>6, <1>0
  <2> QED BY <2>1, <2>2 DEF Inductive
<1>2. PICK f : WalkReads(root, walk, MaxWalk, f)
  <2>1. 0..MaxWalk \subseteq able
    <3> HIDE DEF able
    <3> QED BY <1>0, <1>1, LineByLine
  <2> QED BY <1>0, <2>1
<1>3. WalkRecursion(root, walk, f)
  <2>1. f[0] = {root} /\ \A n \in 1..MaxWalk : f[n] = Further(f[n - 1], root, walk)
    BY <1>2, Zenon DEF WalkReads
  <2>2. \A n \in 0..MaxWalk : n = 0 \/ (n # 0 /\ n \in 1..MaxWalk)
    BY <1>0
  <2>3. \A n \in 0..MaxWalk : f[n] = IF n = 0 THEN {root} ELSE Further(f[n - 1], root, walk)
    BY <2>1, <2>2, Zenon
  <2>4. UpTo(MaxWalk, f)
    BY <1>2, Zenon DEF WalkReads
  <2> QED BY <2>3, <2>4, Zenon DEF WalkRecursion, UpTo
<1> DEFINE all == WalkedFrom(root, walk)
<1>4. WalkRecursion(root, walk, all)
  BY <1>3, Zenon DEF WalkedFrom, WalkRecursion
<1> HIDE DEF all
<1>5. \A n \in 0..MaxWalk : all[n] = IF n = 0 THEN {root} ELSE Further(all[n - 1], root, walk)
  BY <1>4, Zenon DEF WalkRecursion
<1>6. UpTo(MaxWalk, all)
  BY <1>4, Zenon DEF WalkRecursion, UpTo
<1>7. 0 \in 0..MaxWalk /\ \A n \in 1..MaxWalk : n \in 0..MaxWalk /\ n # 0
  BY <1>0
<1>8. all[0] = {root} /\ \A n \in 1..MaxWalk : all[n] = Further(all[n - 1], root, walk)
  BY <1>5, <1>7, Zenon
<1> QED BY <1>6, <1>8, Zenon DEF WalkReads, all

\* What stands n levels down in a value.
LevelReads(v, n, f) ==
    /\ UpTo(n, f)
    /\ f[0] = {v}
    /\ \A k \in 1..n : f[k] = UNION {Nested(part) : part \in f[k - 1]}

LevelRecursion(v, most, f) ==
    f = [n \in 0..most |-> IF n = 0 THEN {v} ELSE UNION {Nested(part) : part \in f[n - 1]}]

LEMMA Nesting ==
    ASSUME NEW v, NEW most \in Nat
    PROVE  LevelReads(v, most, Levels(v, most))
<1> DEFINE able == {n \in 0..most : \E f : LevelReads(v, n, f)}
<1>0. most \in Nat
  OBVIOUS
<1>1. Inductive(most, able)
  <2>1. 0 \in able
    <3>1. LevelReads(v, 0, [k \in 0..0 |-> {v}])
      BY DEF LevelReads, UpTo
    <3> QED BY <1>0, <3>1
  <2>2. ASSUME NEW n \in 1..most, n - 1 \in able PROVE n \in able
    <3>1. PICK f : LevelReads(v, n - 1, f)
      BY <2>2
    <3> DEFINE next == UNION {Nested(part) : part \in f[n - 1]}
               more == [k \in 0..n |-> IF k = n THEN next ELSE f[k]]
    <3>2. f[0] = {v} /\ \A k \in 1..(n - 1) : f[k] = UNION {Nested(part) : part \in f[k - 1]}
      BY <3>1, Zenon DEF LevelReads
    <3>3. next = UNION {Nested(part) : part \in f[n - 1]}
      OBVIOUS
    <3> HIDE DEF next
    <3>4. UpTo(n, more) /\ more[0] = {v}
      BY <1>0, <3>2 DEF UpTo
    <3>5. ASSUME NEW k \in 1..n PROVE more[k] = UNION {Nested(part) : part \in more[k - 1]}
      <4>1. more[k - 1] = f[k - 1]
        BY <1>0
      <4>2. CASE k = n
        <5>1. more[k] = next
          BY <4>2
        <5> HIDE DEF more
        <5> QED BY <3>3, <4>1, <4>2, <5>1, Zenon
      <4>3. CASE k # n
        <5>1. k \in 1..(n - 1) /\ more[k] = f[k]
          BY <1>0, <4>3
        <5> HIDE DEF more
        <5> QED BY <3>2, <4>1, <5>1, Zenon
      <4> QED BY <4>2, <4>3
    <3>6. LevelReads(v, n, more)
      <4> HIDE DEF more
      <4> QED BY <3>4, <3>5, Zenon DEF LevelReads
    <3> QED BY <3>6, <1>0
  <2> QED BY <2>1, <2>2 DEF Inductive
<1>2. PICK f : LevelReads(v, most, f)
  <2>1. 0..most \subseteq able
    <3> HIDE DEF able
    <3> QED BY <1>0, <1>1, LineByLine
  <2> QED BY <1>0, <2>1
<1>3. LevelRecursion(v, most, f)
  <2>1. f[0] = {v} /\ \A n \in 1..most : f[n] = UNION {Nested(part) : part \in f[n - 1]}
    BY <1>2, Zenon DEF LevelReads
  <2>2. \A n \in 0..most : n = 0 \/ (n # 0 /\ n \in 1..most)
    BY <1>0
  <2>3. \A n \in 0..most : f[n] = IF n = 0 THEN {v} ELSE UNION {Nested(part) : part \in f[n - 1]}
    BY <2>1, <2>2, Zenon
  <2>4. UpTo(most, f)
    BY <1>2, Zenon DEF LevelReads
  <2> QED BY <2>3, <2>4, Zenon DEF LevelRecursion, UpTo
<1> DEFINE all == Levels(v, most)
<1>4. LevelRecursion(v, most, all)
  BY <1>3, Zenon DEF Levels, LevelRecursion
<1> HIDE DEF all
<1>5. \A n \in 0..most : all[n] = IF n = 0 THEN {v} ELSE UNION {Nested(part) : part \in all[n - 1]}
  BY <1>4, Zenon DEF LevelRecursion
<1>6. UpTo(most, all)
  BY <1>4, Zenon DEF LevelRecursion, UpTo
<1>7. 0 \in 0..most /\ \A n \in 1..most : n \in 0..most /\ n # 0
  BY <1>0
<1>8. all[0] = {v} /\ \A n \in 1..most : all[n] = UNION {Nested(part) : part \in all[n - 1]}
  BY <1>5, <1>7, Zenon
<1> QED BY <1>6, <1>8, Zenon DEF LevelReads, all

\* What validate() may call itself with.
CallReads(v, root, n, f) ==
    /\ UpTo(n, f)
    /\ f[0] = {<<v, root>>}
    /\ \A k \in 1..n : f[k] = UNION {Applied(call[1], call[2], root) : call \in f[k - 1]}

CallRecursion(v, root, f) ==
    f = [n \in 0..(MaxSchemaDepth + 1) |->
            IF n = 0 THEN {<<v, root>>}
            ELSE UNION {Applied(call[1], call[2], root) : call \in f[n - 1]}]

LEMMA Calling ==
    ASSUME NEW v, NEW root
    PROVE  CallReads(v, root, MaxSchemaDepth + 1, Calls(v, root))
<1> DEFINE able == {n \in 0..(MaxSchemaDepth + 1) : \E f : CallReads(v, root, n, f)}
<1>0. MaxSchemaDepth + 1 \in Nat
  BY DepthAssumption
<1>1. Inductive(MaxSchemaDepth + 1, able)
  <2>1. 0 \in able
    <3>1. CallReads(v, root, 0, [k \in 0..0 |-> {<<v, root>>}])
      BY DEF CallReads, UpTo
    <3> QED BY <1>0, <3>1
  <2>2. ASSUME NEW n \in 1..(MaxSchemaDepth + 1), n - 1 \in able PROVE n \in able
    <3>1. PICK f : CallReads(v, root, n - 1, f)
      BY <2>2
    <3> DEFINE next == UNION {Applied(call[1], call[2], root) : call \in f[n - 1]}
               more == [k \in 0..n |-> IF k = n THEN next ELSE f[k]]
    <3>2. /\ f[0] = {<<v, root>>}
          /\ \A k \in 1..(n - 1) :
                f[k] = UNION {Applied(call[1], call[2], root) : call \in f[k - 1]}
      BY <3>1, Zenon DEF CallReads
    <3>3. next = UNION {Applied(call[1], call[2], root) : call \in f[n - 1]}
      OBVIOUS
    <3> HIDE DEF next
    <3>4. UpTo(n, more) /\ more[0] = {<<v, root>>}
      BY <1>0, <3>2 DEF UpTo
    <3>5. ASSUME NEW k \in 1..n
          PROVE  more[k] = UNION {Applied(call[1], call[2], root) : call \in more[k - 1]}
      <4>1. more[k - 1] = f[k - 1]
        BY <1>0
      <4>2. CASE k = n
        <5>1. more[k] = next
          BY <4>2
        <5> HIDE DEF more
        <5> QED BY <3>3, <4>1, <4>2, <5>1, Zenon
      <4>3. CASE k # n
        <5>1. k \in 1..(n - 1) /\ more[k] = f[k]
          BY <1>0, <4>3
        <5> HIDE DEF more
        <5> QED BY <3>2, <4>1, <5>1, Zenon
      <4> QED BY <4>2, <4>3
    <3>6. CallReads(v, root, n, more)
      <4> HIDE DEF more
      <4> QED BY <3>4, <3>5, Zenon DEF CallReads
    <3> QED BY <3>6, <1>0
  <2> QED BY <2>1, <2>2 DEF Inductive
<1>2. PICK f : CallReads(v, root, MaxSchemaDepth + 1, f)
  <2>1. 0..(MaxSchemaDepth + 1) \subseteq able
    <3> HIDE DEF able
    <3> QED BY <1>0, <1>1, LineByLine
  <2> QED BY <1>0, <2>1
<1>3. CallRecursion(v, root, f)
  <2>1. /\ f[0] = {<<v, root>>}
        /\ \A n \in 1..(MaxSchemaDepth + 1) :
              f[n] = UNION {Applied(call[1], call[2], root) : call \in f[n - 1]}
    BY <1>2, Zenon DEF CallReads
  <2>2. \A n \in 0..(MaxSchemaDepth + 1) : n = 0 \/ (n # 0 /\ n \in 1..(MaxSchemaDepth + 1))
    BY <1>0
  <2>3. \A n \in 0..(MaxSchemaDepth + 1) : f[n] =
          IF n = 0 THEN {<<v, root>>}
          ELSE UNION {Applied(call[1], call[2], root) : call \in f[n - 1]}
    BY <2>1, <2>2, Zenon
  <2>4. UpTo(MaxSchemaDepth + 1, f)
    BY <1>2, Zenon DEF CallReads
  <2> QED BY <2>3, <2>4, Zenon DEF CallRecursion, UpTo
<1> DEFINE all == Calls(v, root)
<1>4. CallRecursion(v, root, all)
  BY <1>3, Zenon DEF Calls, CallRecursion
<1> HIDE DEF all
<1>5. \A n \in 0..(MaxSchemaDepth + 1) : all[n] =
        IF n = 0 THEN {<<v, root>>}
        ELSE UNION {Applied(call[1], call[2], root) : call \in all[n - 1]}
  BY <1>4, Zenon DEF CallRecursion
<1>6. UpTo(MaxSchemaDepth + 1, all)
  BY <1>4, Zenon DEF CallRecursion, UpTo
<1>7. /\ 0 \in 0..(MaxSchemaDepth + 1)
      /\ \A n \in 1..(MaxSchemaDepth + 1) : n \in 0..(MaxSchemaDepth + 1) /\ n # 0
  BY <1>0
<1>8. /\ all[0] = {<<v, root>>}
      /\ \A n \in 1..(MaxSchemaDepth + 1) :
            all[n] = UNION {Applied(call[1], call[2], root) : call \in all[n - 1]}
  BY <1>5, <1>7, Zenon
<1> QED BY <1>6, <1>8, Zenon DEF CallReads, all

\* One depth more than the code goes to.
Deepest == MaxSchemaDepth + 1

\* What the calls at one depth find.
FoundAt(v, root, depth, below) ==
    [call \in Calls(v, root)[depth] |->
        IF depth > MaxSchemaDepth THEN {"deep"} ELSE Errors(call[1], call[2], below, root)]

\* At the last depth nothing is asked of the calls below.
LEMMA DeepestFound ==
    ASSUME NEW v, NEW root, NEW below, NEW other
    PROVE  FoundAt(v, root, Deepest, below) = FoundAt(v, root, Deepest, other)
<1>1. Deepest > MaxSchemaDepth
  BY DepthAssumption DEF Deepest
<1> QED BY <1>1, Zenon DEF FoundAt

FoundReads(v, root, n, f) ==
    /\ f = [depth \in (Deepest - n)..Deepest |-> f[depth]]
    /\ \A depth \in (Deepest - n)..Deepest : f[depth] = FoundAt(v, root, depth, f[depth + 1])

FoundRecursion(v, root, f) ==
    f = [depth \in 0..(MaxSchemaDepth + 1) |->
            [call \in Calls(v, root)[depth] |->
                IF depth > MaxSchemaDepth THEN {"deep"} ELSE Errors(call[1], call[2], f[depth + 1], root)]]

LEMMA Finding ==
    ASSUME NEW v, NEW root
    PROVE  /\ \A depth \in 0..MaxSchemaDepth :
                Validate(v, root)[depth] = FoundAt(v, root, depth, Validate(v, root)[depth + 1])
           /\ \A below : Validate(v, root)[Deepest] = FoundAt(v, root, Deepest, below)
<1> DEFINE able == {n \in 0..Deepest : \E f : FoundReads(v, root, n, f)}
<1>0. Deepest \in Nat /\ Deepest = MaxSchemaDepth + 1
  BY DepthAssumption DEF Deepest
<1>1. Inductive(Deepest, able)
  <2>1. 0 \in able
    <3> DEFINE last == FoundAt(v, root, Deepest, {})
               f == [depth \in (Deepest - 0)..Deepest |-> last]
    <3>1. f = [depth \in (Deepest - 0)..Deepest |-> f[depth]]
      OBVIOUS
    <3>2. ASSUME NEW depth \in (Deepest - 0)..Deepest
          PROVE  f[depth] = FoundAt(v, root, depth, f[depth + 1])
      <4>1. depth = Deepest /\ f[depth] = last
        BY <1>0
      <4>2. last = FoundAt(v, root, Deepest, f[depth + 1])
        BY DeepestFound
      <4> HIDE DEF f, last
      <4> QED BY <4>1, <4>2, Zenon
    <3>3. FoundReads(v, root, 0, f)
      <4> HIDE DEF f
      <4> QED BY <3>1, <3>2, Zenon DEF FoundReads
    <3> QED BY <1>0, <3>3
  <2>2. ASSUME NEW n \in 1..Deepest, n - 1 \in able PROVE n \in able
    <3>1. PICK f : FoundReads(v, root, n - 1, f)
      BY <2>2
    <3> DEFINE here == Deepest - n
               next == FoundAt(v, root, here, f[here + 1])
               more == [depth \in here..Deepest |-> IF depth = here THEN next ELSE f[depth]]
    <3>2. here \in 0..Deepest /\ here # Deepest /\ here + 1 = Deepest - (n - 1)
      BY <1>0
    <3>3. \A depth \in (here + 1)..Deepest : f[depth] = FoundAt(v, root, depth, f[depth + 1])
      BY <3>1, <3>2, Zenon DEF FoundReads
    <3>4. more[here] = next /\ \A depth \in (here + 1)..Deepest : more[depth] = f[depth]
      <4> HIDE DEF next
      <4> QED BY <1>0, <3>2
    <3>5. next = FoundAt(v, root, here, f[here + 1])
      OBVIOUS
    <3>6. more = [depth \in here..Deepest |-> more[depth]]
      OBVIOUS
    <3> HIDE DEF next, more, here
    <3>7. ASSUME NEW depth \in here..Deepest
          PROVE  more[depth] = FoundAt(v, root, depth, more[depth + 1])
      <4>1. CASE depth = here
        <5>1. more[here + 1] = f[here + 1]
          BY <1>0, <3>2, <3>4
        <5> QED BY <3>4, <3>5, <4>1, <5>1, Zenon
      <4>2. CASE depth = Deepest
        <5>1. more[Deepest] = f[Deepest] /\ f[Deepest] = FoundAt(v, root, Deepest, f[Deepest + 1])
          BY <1>0, <3>2, <3>3, <3>4
        <5>2. FoundAt(v, root, Deepest, f[Deepest + 1]) = FoundAt(v, root, Deepest, more[Deepest + 1])
          BY DeepestFound
        <5> QED BY <4>2, <5>1, <5>2, Zenon
      <4>3. CASE depth # here /\ depth # Deepest
        <5>1. depth \in (here + 1)..Deepest /\ depth + 1 \in (here + 1)..Deepest
          BY <1>0, <3>2, <4>3
        <5> QED BY <3>3, <3>4, <5>1, Zenon
      <4> QED BY <4>1, <4>2, <4>3
    <3>8. FoundReads(v, root, n, more)
      BY <3>6, <3>7, Zenon DEF FoundReads, here
    <3> QED BY <1>0, <3>8
  <2> QED BY <2>1, <2>2 DEF Inductive
<1>2. PICK f : FoundReads(v, root, Deepest, f)
  <2>1. 0..Deepest \subseteq able
    <3> HIDE DEF able
    <3> QED BY <1>0, <1>1, LineByLine
  <2> QED BY <1>0, <2>1
<1>3. FoundRecursion(v, root, f)
  <2>1. Deepest - Deepest = 0
    BY <1>0
  <2>2. /\ f = [depth \in 0..(MaxSchemaDepth + 1) |-> f[depth]]
        /\ \A depth \in 0..(MaxSchemaDepth + 1) : f[depth] = FoundAt(v, root, depth, f[depth + 1])
    BY <1>2, <2>1, Zenon DEF FoundReads, Deepest
  <2> QED BY <2>2, Zenon DEF FoundRecursion, FoundAt
<1> DEFINE all == Validate(v, root)
<1>4. FoundRecursion(v, root, all)
  BY <1>3, Zenon DEF Validate, FoundRecursion
<1> HIDE DEF all
<1>5. \A depth \in 0..(MaxSchemaDepth + 1) : all[depth] = FoundAt(v, root, depth, all[depth + 1])
  BY <1>4, Zenon DEF FoundRecursion, FoundAt
<1>6. \A depth \in 0..MaxSchemaDepth : depth \in 0..(MaxSchemaDepth + 1)
  BY DepthAssumption
<1>7. Deepest \in 0..(MaxSchemaDepth + 1)
  BY DepthAssumption DEF Deepest
<1>8. ASSUME NEW below PROVE all[Deepest] = FoundAt(v, root, Deepest, below)
  <2>1. all[Deepest] = FoundAt(v, root, Deepest, all[Deepest + 1])
    BY <1>5, <1>7, Zenon
  <2>2. FoundAt(v, root, Deepest, all[Deepest + 1]) = FoundAt(v, root, Deepest, below)
    BY DeepestFound
  <2> QED BY <2>1, <2>2, Zenon
<1>9. /\ \A depth \in 0..MaxSchemaDepth : all[depth] = FoundAt(v, root, depth, all[depth + 1])
      /\ \A below : all[Deepest] = FoundAt(v, root, Deepest, below)
  BY <1>5, <1>6, <1>8, Zenon
<1> QED BY <1>9, Zenon DEF all

\* What holds at one depth.
HoldsAt(v, root, depth, below) ==
    [call \in Calls(v, root)[depth] |->
        /\ depth <= MaxSchemaDepth
        /\ ConformsHere(call[1], call[2], below, root)]

\* At the last depth nothing is asked of the calls below.
LEMMA DeepestHolds ==
    ASSUME NEW v, NEW root, NEW below, NEW other
    PROVE  HoldsAt(v, root, Deepest, below) = HoldsAt(v, root, Deepest, other)
<1>1. ~(Deepest <= MaxSchemaDepth)
  BY DepthAssumption DEF Deepest
<1> QED BY <1>1, Zenon DEF HoldsAt

HoldsReads(v, root, n, f) ==
    /\ f = [depth \in (Deepest - n)..Deepest |-> f[depth]]
    /\ \A depth \in (Deepest - n)..Deepest : f[depth] = HoldsAt(v, root, depth, f[depth + 1])

HoldsRecursion(v, root, f) ==
    f = [depth \in 0..(MaxSchemaDepth + 1) |->
            [call \in Calls(v, root)[depth] |->
                /\ depth <= MaxSchemaDepth
                /\ ConformsHere(call[1], call[2], f[depth + 1], root)]]

LEMMA Holding ==
    ASSUME NEW v, NEW root
    PROVE  /\ \A depth \in 0..MaxSchemaDepth :
                Judged(v, root)[depth] = HoldsAt(v, root, depth, Judged(v, root)[depth + 1])
           /\ \A below : Judged(v, root)[Deepest] = HoldsAt(v, root, Deepest, below)
<1> DEFINE able == {n \in 0..Deepest : \E f : HoldsReads(v, root, n, f)}
<1>0. Deepest \in Nat /\ Deepest = MaxSchemaDepth + 1
  BY DepthAssumption DEF Deepest
<1>1. Inductive(Deepest, able)
  <2>1. 0 \in able
    <3> DEFINE last == HoldsAt(v, root, Deepest, {})
               f == [depth \in (Deepest - 0)..Deepest |-> last]
    <3>1. f = [depth \in (Deepest - 0)..Deepest |-> f[depth]]
      OBVIOUS
    <3>2. ASSUME NEW depth \in (Deepest - 0)..Deepest
          PROVE  f[depth] = HoldsAt(v, root, depth, f[depth + 1])
      <4>1. depth = Deepest /\ f[depth] = last
        BY <1>0
      <4>2. last = HoldsAt(v, root, Deepest, f[depth + 1])
        BY DeepestHolds
      <4> HIDE DEF f, last
      <4> QED BY <4>1, <4>2, Zenon
    <3>3. HoldsReads(v, root, 0, f)
      <4> HIDE DEF f
      <4> QED BY <3>1, <3>2, Zenon DEF HoldsReads
    <3> QED BY <1>0, <3>3
  <2>2. ASSUME NEW n \in 1..Deepest, n - 1 \in able PROVE n \in able
    <3>1. PICK f : HoldsReads(v, root, n - 1, f)
      BY <2>2
    <3> DEFINE here == Deepest - n
               next == HoldsAt(v, root, here, f[here + 1])
               more == [depth \in here..Deepest |-> IF depth = here THEN next ELSE f[depth]]
    <3>2. here \in 0..Deepest /\ here # Deepest /\ here + 1 = Deepest - (n - 1)
      BY <1>0
    <3>3. \A depth \in (here + 1)..Deepest : f[depth] = HoldsAt(v, root, depth, f[depth + 1])
      BY <3>1, <3>2, Zenon DEF HoldsReads
    <3>4. more[here] = next /\ \A depth \in (here + 1)..Deepest : more[depth] = f[depth]
      <4> HIDE DEF next
      <4> QED BY <1>0, <3>2
    <3>5. next = HoldsAt(v, root, here, f[here + 1])
      OBVIOUS
    <3>6. more = [depth \in here..Deepest |-> more[depth]]
      OBVIOUS
    <3> HIDE DEF next, more, here
    <3>7. ASSUME NEW depth \in here..Deepest
          PROVE  more[depth] = HoldsAt(v, root, depth, more[depth + 1])
      <4>1. CASE depth = here
        <5>1. more[here + 1] = f[here + 1]
          BY <1>0, <3>2, <3>4
        <5> QED BY <3>4, <3>5, <4>1, <5>1, Zenon
      <4>2. CASE depth = Deepest
        <5>1. more[Deepest] = f[Deepest] /\ f[Deepest] = HoldsAt(v, root, Deepest, f[Deepest + 1])
          BY <1>0, <3>2, <3>3, <3>4
        <5>2. HoldsAt(v, root, Deepest, f[Deepest + 1]) = HoldsAt(v, root, Deepest, more[Deepest + 1])
          BY DeepestHolds
        <5> QED BY <4>2, <5>1, <5>2, Zenon
      <4>3. CASE depth # here /\ depth # Deepest
        <5>1. depth \in (here + 1)..Deepest /\ depth + 1 \in (here + 1)..Deepest
          BY <1>0, <3>2, <4>3
        <5> QED BY <3>3, <3>4, <5>1, Zenon
      <4> QED BY <4>1, <4>2, <4>3
    <3>8. HoldsReads(v, root, n, more)
      BY <3>6, <3>7, Zenon DEF HoldsReads, here
    <3> QED BY <1>0, <3>8
  <2> QED BY <2>1, <2>2 DEF Inductive
<1>2. PICK f : HoldsReads(v, root, Deepest, f)
  <2>1. 0..Deepest \subseteq able
    <3> HIDE DEF able
    <3> QED BY <1>0, <1>1, LineByLine
  <2> QED BY <1>0, <2>1
<1>3. HoldsRecursion(v, root, f)
  <2>1. Deepest - Deepest = 0
    BY <1>0
  <2>2. /\ f = [depth \in 0..(MaxSchemaDepth + 1) |-> f[depth]]
        /\ \A depth \in 0..(MaxSchemaDepth + 1) : f[depth] = HoldsAt(v, root, depth, f[depth + 1])
    BY <1>2, <2>1, Zenon DEF HoldsReads, Deepest
  <2> QED BY <2>2, Zenon DEF HoldsRecursion, HoldsAt
<1> DEFINE all == Judged(v, root)
<1>4. HoldsRecursion(v, root, all)
  BY <1>3, Zenon DEF Judged, HoldsRecursion
<1> HIDE DEF all
<1>5. \A depth \in 0..(MaxSchemaDepth + 1) : all[depth] = HoldsAt(v, root, depth, all[depth + 1])
  BY <1>4, Zenon DEF HoldsRecursion, HoldsAt
<1>6. \A depth \in 0..MaxSchemaDepth : depth \in 0..(MaxSchemaDepth + 1)
  BY DepthAssumption
<1>7. Deepest \in 0..(MaxSchemaDepth + 1)
  BY DepthAssumption DEF Deepest
<1>8. ASSUME NEW below PROVE all[Deepest] = HoldsAt(v, root, Deepest, below)
  <2>1. all[Deepest] = HoldsAt(v, root, Deepest, all[Deepest + 1])
    BY <1>5, <1>7, Zenon
  <2>2. HoldsAt(v, root, Deepest, all[Deepest + 1]) = HoldsAt(v, root, Deepest, below)
    BY DeepestHolds
  <2> QED BY <2>1, <2>2, Zenon
<1>9. /\ \A depth \in 0..MaxSchemaDepth : all[depth] = HoldsAt(v, root, depth, all[depth + 1])
      /\ \A below : all[Deepest] = HoldsAt(v, root, Deepest, below)
  BY <1>5, <1>6, <1>8, Zenon
<1> QED BY <1>9, Zenon DEF all

---------------------------------------------------------------------------

LEMMA NothingBroken ==
    ASSUME NEW rules
    PROVE  Broken(rules) = {} <=> \A rule \in DOMAIN rules : ~rules[rule]
BY Zenon DEF Broken

LEMMA CallsLead ==
    ASSUME NEW v, NEW root
    PROVE  /\ Calls(v, root)[0] = {<<v, root>>}
           /\ \A depth \in 0..MaxSchemaDepth :
                Calls(v, root)[depth + 1]
                    = UNION {Applied(call[1], call[2], root) : call \in Calls(v, root)[depth]}
<1> DEFINE calls == Calls(v, root)
<1>1. /\ calls[0] = {<<v, root>>}
      /\ \A n \in 1..(MaxSchemaDepth + 1) :
            calls[n] = UNION {Applied(call[1], call[2], root) : call \in calls[n - 1]}
  <2>1. CallReads(v, root, MaxSchemaDepth + 1, calls)
    BY Calling, Zenon
  <2> HIDE DEF calls
  <2> QED BY <2>1, Zenon DEF CallReads
<1> HIDE DEF calls
<1>2. ASSUME NEW depth \in 0..MaxSchemaDepth
      PROVE  calls[depth + 1] = UNION {Applied(call[1], call[2], root) : call \in calls[depth]}
  <2>1. depth + 1 \in 1..(MaxSchemaDepth + 1) /\ depth + 1 - 1 = depth
    BY DepthAssumption
  <2> DEFINE next == depth + 1
  <2>2. next \in 1..(MaxSchemaDepth + 1) /\ next - 1 = depth
    BY <2>1
  <2> HIDE DEF next
  <2>3. calls[next] = UNION {Applied(call[1], call[2], root) : call \in calls[next - 1]}
    BY <1>1, <2>2
  <2>4. calls[next] = UNION {Applied(call[1], call[2], root) : call \in calls[depth]}
    BY <2>2, <2>3
  <2> QED BY <2>4 DEF next
<1> QED BY <1>1, <1>2 DEF calls

\* The calls a value and a subschema lead to.
LEMMA AppliedIs ==
    ASSUME NEW v, NEW s, NEW root, NEW call \in Applied(v, s, root)
    PROVE  \/ Has(s, "ref") /\ \E target \in RefTarget(root, s.ref) : call = <<v, target>>
           \/ /\ ~Has(s, "ref")
              /\ \/ \E branch \in AllOf(s) \union OneOf(s) : call = <<v, branch>>
                 \/ /\ Has(s, "propertyNames")
                    /\ \E k \in Keys(v) : call = <<KeyValue(k), s.propertyNames>>
                 \/ \E k \in Keys(v) : \E sub \in KeySchema(s, k) : call = <<v.fields[k], sub>>
                 \/ Has(s, "items") /\ \E i \in Places(v) : call = <<v.items[i], s.items>>
<1>1. CASE Has(s, "ref")
  <2>1. call \in {<<v, target>> : target \in RefTarget(root, s.ref)}
    BY <1>1 DEF Applied
  <2> QED BY <1>1, <2>1
<1>2. CASE ~Has(s, "ref")
  <2> DEFINE branches == {<<v, branch>> : branch \in AllOf(s) \union OneOf(s)}
             names == {<<KeyValue(k), s.propertyNames>>
                        : k \in IF Has(s, "propertyNames") THEN Keys(v) ELSE {}}
             values == {{<<v.fields[k], sub>> : sub \in KeySchema(s, k)} : k \in Keys(v)}
             held == {<<v.items[i], s.items>> : i \in IF Has(s, "items") THEN Places(v) ELSE {}}
  <2>1. call \in branches \/ call \in names \/ call \in UNION values \/ call \in held
    <3>1. Applied(v, s, root) = branches \union names \union (UNION values) \union held
      BY <1>2 DEF Applied
    <3>2. call \in Applied(v, s, root)
      OBVIOUS
    <3> HIDE DEF branches, names, values, held
    <3> QED BY <3>1, <3>2
  <2>2. call \in branches => \E branch \in AllOf(s) \union OneOf(s) : call = <<v, branch>>
    OBVIOUS
  <2>3. call \in names =>
            Has(s, "propertyNames") /\ \E k \in Keys(v) : call = <<KeyValue(k), s.propertyNames>>
    OBVIOUS
  <2>4. call \in UNION values => \E k \in Keys(v) : \E sub \in KeySchema(s, k) : call = <<v.fields[k], sub>>
    BY Zenon
  <2>5. call \in held => Has(s, "items") /\ \E i \in Places(v) : call = <<v.items[i], s.items>>
    OBVIOUS
  <2> HIDE DEF branches, names, values, held
  <2> QED BY <1>2, <2>1, <2>2, <2>3, <2>4, <2>5
<1> QED BY <1>1, <1>2

LEMMA CallsArePairs ==
    ASSUME NEW v, NEW s, NEW root, NEW call \in Applied(v, s, root)
    PROVE  \E w, t : call = <<w, t>>
BY AppliedIs

\* What a call is made of leads to the calls below it.
LEMMA CallsBelow ==
    ASSUME NEW v, NEW root, NEW depth \in 0..MaxSchemaDepth, NEW w, NEW s,
           <<w, s>> \in Calls(v, root)[depth]
    PROVE  Applied(w, s, root) \subseteq Calls(v, root)[depth + 1]
<1> DEFINE calls == Calls(v, root)[depth]
           below == Calls(v, root)[depth + 1]
<1>1. below = UNION {Applied(call[1], call[2], root) : call \in calls} /\ <<w, s>> \in calls
  BY CallsLead
<1> HIDE DEF calls, below
<1>2. Applied(<<w, s>>[1], <<w, s>>[2], root) \subseteq below
  BY <1>1
<1> QED BY <1>2 DEF below

LEMMA CallsAbove ==
    ASSUME NEW v, NEW root, NEW depth \in 0..MaxSchemaDepth,
           NEW call \in Calls(v, root)[depth + 1]
    PROVE  \E above \in Calls(v, root)[depth] : call \in Applied(above[1], above[2], root)
<1> DEFINE calls == Calls(v, root)[depth]
           below == Calls(v, root)[depth + 1]
<1>1. below = UNION {Applied(above[1], above[2], root) : above \in calls} /\ call \in below
  BY CallsLead
<1> HIDE DEF calls, below
<1>2. \E above \in calls : call \in Applied(above[1], above[2], root)
  BY <1>1
<1> QED BY <1>2 DEF calls

LEMMA FoundHere ==
    ASSUME NEW v, NEW root, NEW depth \in 0..MaxSchemaDepth, NEW w, NEW s,
           <<w, s>> \in Calls(v, root)[depth]
    PROVE  Validate(v, root)[depth][<<w, s>>] = Errors(w, s, Validate(v, root)[depth + 1], root)
<1> DEFINE found == Validate(v, root)
           calls == Calls(v, root)[depth]
           call == <<w, s>>
<1>1. found[depth] = FoundAt(v, root, depth, found[depth + 1]) /\ call \in calls
  BY Finding
<1>2. ~(depth > MaxSchemaDepth)
  BY DepthAssumption
<1>3. call[1] = w /\ call[2] = s
  OBVIOUS
<1> HIDE DEF found, calls, call
<1>4. found[depth][call] = Errors(call[1], call[2], found[depth + 1], root)
  BY <1>1, <1>2, Zenon DEF FoundAt, calls
<1> QED BY <1>3, <1>4, Zenon DEF found, call

LEMMA FoundDeepest ==
    ASSUME NEW v, NEW root, NEW call \in Calls(v, root)[Deepest]
    PROVE  Validate(v, root)[Deepest][call] = {"deep"}
<1>1. Validate(v, root)[Deepest] = FoundAt(v, root, Deepest, {})
  BY Finding
<1>2. Deepest > MaxSchemaDepth
  BY DepthAssumption DEF Deepest
<1> QED BY <1>1, <1>2, Zenon DEF FoundAt

LEMMA HoldsHere ==
    ASSUME NEW v, NEW root, NEW depth \in 0..MaxSchemaDepth, NEW w, NEW s,
           <<w, s>> \in Calls(v, root)[depth]
    PROVE  Judged(v, root)[depth][<<w, s>>] <=> ConformsHere(w, s, Judged(v, root)[depth + 1], root)
<1> DEFINE judged == Judged(v, root)
           calls == Calls(v, root)[depth]
           call == <<w, s>>
<1>1. judged[depth] = HoldsAt(v, root, depth, judged[depth + 1]) /\ call \in calls
  BY Holding
<1>2. depth <= MaxSchemaDepth
  BY DepthAssumption
<1>3. call[1] = w /\ call[2] = s
  OBVIOUS
<1> HIDE DEF judged, calls, call
<1>4. judged[depth][call] <=> ConformsHere(call[1], call[2], judged[depth + 1], root)
  BY <1>1, <1>2, Zenon DEF HoldsAt, calls
<1> QED BY <1>3, <1>4, Zenon DEF judged, call

---------------------------------------------------------------------------
(* One call: where the calls below find nothing exactly when what they ask *)
(* for holds, so does this one.                                            *)

Agree(v, s, root, found, holds) ==
    \A call \in Applied(v, s, root) : holds[call] <=> found[call] = {}

LEMMA AppliedHas ==
    ASSUME NEW v, NEW s, NEW root, ~Has(s, "ref")
    PROVE  /\ \A branch \in AllOf(s) \union OneOf(s) : <<v, branch>> \in Applied(v, s, root)
           /\ Has(s, "propertyNames") =>
                \A k \in Keys(v) : <<KeyValue(k), s.propertyNames>> \in Applied(v, s, root)
           /\ \A k \in Keys(v) : \A sub \in KeySchema(s, k) :
                <<v.fields[k], sub>> \in Applied(v, s, root)
           /\ Has(s, "items") => \A i \in Places(v) : <<v.items[i], s.items>> \in Applied(v, s, root)
<1> DEFINE branches == {<<v, branch>> : branch \in AllOf(s) \union OneOf(s)}
           names == {<<KeyValue(k), s.propertyNames>>
                        : k \in IF Has(s, "propertyNames") THEN Keys(v) ELSE {}}
           values == {{<<v.fields[k], sub>> : sub \in KeySchema(s, k)} : k \in Keys(v)}
           held == {<<v.items[i], s.items>> : i \in IF Has(s, "items") THEN Places(v) ELSE {}}
<1>1. Applied(v, s, root) = branches \union names \union (UNION values) \union held
  BY DEF Applied
<1>2. \A branch \in AllOf(s) \union OneOf(s) : <<v, branch>> \in branches
  OBVIOUS
<1>3. Has(s, "propertyNames") => \A k \in Keys(v) : <<KeyValue(k), s.propertyNames>> \in names
  OBVIOUS
<1>4. ASSUME NEW k \in Keys(v), NEW sub \in KeySchema(s, k)
      PROVE  <<v.fields[k], sub>> \in UNION values
  <2>1. {<<v.fields[k], t>> : t \in KeySchema(s, k)} \in values
    OBVIOUS
  <2>2. <<v.fields[k], sub>> \in {<<v.fields[k], t>> : t \in KeySchema(s, k)}
    OBVIOUS
  <2> HIDE DEF values
  <2> QED BY <2>1, <2>2
<1>5. Has(s, "items") => \A i \in Places(v) : <<v.items[i], s.items>> \in held
  OBVIOUS
<1> HIDE DEF branches, names, values, held
<1>6. /\ \A branch \in AllOf(s) \union OneOf(s) : <<v, branch>> \in Applied(v, s, root)
      /\ Has(s, "propertyNames") =>
            \A k \in Keys(v) : <<KeyValue(k), s.propertyNames>> \in Applied(v, s, root)
  BY <1>1, <1>2, <1>3
<1>7. \A k \in Keys(v) : \A sub \in KeySchema(s, k) : <<v.fields[k], sub>> \in Applied(v, s, root)
  BY <1>1, <1>4
<1>8. Has(s, "items") => \A i \in Places(v) : <<v.items[i], s.items>> \in Applied(v, s, root)
  <2>1. held \subseteq Applied(v, s, root)
    BY <1>1
  <2> QED BY <1>5, <2>1, Zenon
<1> QED BY <1>6, <1>7, <1>8

LEMMA UnionOfNothing ==
    ASSUME NEW sets
    PROVE  UNION sets = {} <=> \A x \in sets : x = {}
OBVIOUS

LEMMA ObjectAgrees ==
    ASSUME NEW v, NEW s, NEW root, NEW found, NEW holds, ~Has(s, "ref"),
           Agree(v, s, root, found, holds)
    PROVE  ObjectErrors(v, s, found) = {} <=> ObjectConforms(v, s, holds)
<1> DEFINE rules == [
        maxProperties |-> Has(s, "maxProperties") /\ Cardinality(Keys(v)) > s.maxProperties,
        minProperties |-> Has(s, "minProperties") /\ Cardinality(Keys(v)) < s.minProperties,
        propertyNames |-> Has(s, "propertyNames")
                            /\ \E k \in Keys(v) : found[<<KeyValue(k), s.propertyNames>>] # {},
        unexpected |-> \E k \in Keys(v) : Unexpected(s, k),
        required |-> Has(s, "required") /\ ~(s.required \subseteq Keys(v))]
           values == UNION {UNION {found[<<v.fields[k], sub>>] : sub \in KeySchema(s, k)}
                            : k \in Keys(v)}
<1>1. ObjectErrors(v, s, found) = Broken(rules) \union values
  BY DEF ObjectErrors
<1>2. Broken(rules) = {} <=>
        /\ ~rules["maxProperties"] /\ ~rules["minProperties"] /\ ~rules["propertyNames"]
        /\ ~rules["unexpected"] /\ ~rules["required"]
  <2>1. DOMAIN rules = {"maxProperties", "minProperties", "propertyNames", "unexpected", "required"}
    OBVIOUS
  <2> HIDE DEF rules
  <2>2. Broken(rules) = {} <=> \A rule \in DOMAIN rules : ~rules[rule]
    BY NothingBroken
  <2> QED BY <2>1, <2>2
<1>3. values = {} <=> \A k \in Keys(v) : \A sub \in KeySchema(s, k) : found[<<v.fields[k], sub>>] = {}
  <2> DEFINE Inner(k) == {found[<<v.fields[k], sub>>] : sub \in KeySchema(s, k)}
             outer == {UNION Inner(k) : k \in Keys(v)}
  <2>1. values = UNION outer
    OBVIOUS
  <2>2. \A k : UNION Inner(k) = {} <=> \A x \in Inner(k) : x = {}
    BY UnionOfNothing
  <2>3. \A k : (\A x \in Inner(k) : x = {})
                <=> \A sub \in KeySchema(s, k) : found[<<v.fields[k], sub>>] = {}
    OBVIOUS
  <2> HIDE DEF Inner
  <2>4. (\A x \in outer : x = {}) <=> \A k \in Keys(v) : UNION Inner(k) = {}
    OBVIOUS
  <2>5. UNION outer = {} <=> \A x \in outer : x = {}
    BY UnionOfNothing
  <2> HIDE DEF outer
  <2> QED BY <2>1, <2>2, <2>3, <2>4, <2>5
<1>4. \A k \in Keys(v) : \A sub \in KeySchema(s, k) :
        holds[<<v.fields[k], sub>>] <=> found[<<v.fields[k], sub>>] = {}
  BY AppliedHas, Zenon DEF Agree
<1>5. Has(s, "propertyNames") => \A k \in Keys(v) :
        holds[<<KeyValue(k), s.propertyNames>>] <=> found[<<KeyValue(k), s.propertyNames>>] = {}
  BY AppliedHas, Zenon DEF Agree
<1>6. /\ rules["maxProperties"] <=> Has(s, "maxProperties") /\ Cardinality(Keys(v)) > s.maxProperties
      /\ rules["minProperties"] <=> Has(s, "minProperties") /\ Cardinality(Keys(v)) < s.minProperties
      /\ rules["propertyNames"] <=> Has(s, "propertyNames")
                            /\ \E k \in Keys(v) : found[<<KeyValue(k), s.propertyNames>>] # {}
      /\ rules["unexpected"] <=> \E k \in Keys(v) : Unexpected(s, k)
      /\ rules["required"] <=> Has(s, "required") /\ ~(s.required \subseteq Keys(v))
  BY Zenon
<1> HIDE DEF rules, values
<1>7. ObjectErrors(v, s, found) = {} <=> Broken(rules) = {} /\ values = {}
  BY <1>1
<1> QED BY <1>2, <1>3, <1>4, <1>5, <1>6, <1>7, Zenon DEF ObjectConforms

LEMMA ArrayAgrees ==
    ASSUME NEW v, NEW s, NEW root, NEW found, NEW holds, ~Has(s, "ref"),
           Agree(v, s, root, found, holds)
    PROVE  ArrayErrors(v, s, found) = {} <=> ArrayConforms(v, s, holds)
<1> DEFINE rules == [minItems |-> Has(s, "minItems") /\ Len(v.items) < s.minItems,
                     maxItems |-> Has(s, "maxItems") /\ Len(v.items) > s.maxItems]
           held == IF Has(s, "items") THEN Places(v) ELSE {}
           values == UNION {found[<<v.items[i], s.items>>] : i \in held}
<1>1. ArrayErrors(v, s, found) = Broken(rules) \union values
  BY DEF ArrayErrors
<1>2. Broken(rules) = {} <=> ~rules["minItems"] /\ ~rules["maxItems"]
  <2>1. DOMAIN rules = {"minItems", "maxItems"}
    OBVIOUS
  <2> HIDE DEF rules
  <2>2. Broken(rules) = {} <=> \A rule \in DOMAIN rules : ~rules[rule]
    BY NothingBroken
  <2> QED BY <2>1, <2>2
<1>3. values = {} <=> \A i \in held : found[<<v.items[i], s.items>>] = {}
  <2> DEFINE sets == {found[<<v.items[i], s.items>>] : i \in held}
  <2>1. UNION sets = {} <=> \A x \in sets : x = {}
    BY UnionOfNothing
  <2> HIDE DEF held
  <2>2. (\A x \in sets : x = {}) <=> \A i \in held : found[<<v.items[i], s.items>>] = {}
    OBVIOUS
  <2> QED BY <2>1, <2>2
<1>4. Has(s, "items") => \A i \in Places(v) :
        holds[<<v.items[i], s.items>>] <=> found[<<v.items[i], s.items>>] = {}
  BY AppliedHas, Zenon DEF Agree
<1>5. /\ rules["minItems"] <=> Has(s, "minItems") /\ Len(v.items) < s.minItems
      /\ rules["maxItems"] <=> Has(s, "maxItems") /\ Len(v.items) > s.maxItems
  BY Zenon
<1>6. /\ Has(s, "items") => held = Places(v)
      /\ ~Has(s, "items") => held = {}
  OBVIOUS
<1> HIDE DEF rules, values, held
<1>7. ArrayErrors(v, s, found) = {} <=> Broken(rules) = {} /\ values = {}
  BY <1>1
<1>8. values = {} <=> (Has(s, "items") => \A i \in Places(v) : holds[<<v.items[i], s.items>>])
  BY <1>3, <1>4, <1>6
<1> QED BY <1>2, <1>5, <1>7, <1>8, Zenon DEF ArrayConforms

\* A subschema that puts nothing beside a const and no applicator beside a oneOf.
PortableHere(s) ==
    /\ Has(s, "const") => DOMAIN s = {"const"}
    /\ Has(s, "oneOf") => DOMAIN s \intersect Applicators = {}

LEMMA EqualityAgrees ==
    ASSUME NEW a, NEW b, a.type # "nan"
    PROVE  JsonEqual(a, b) <=> Alike(a, b, {"integer", "float"})
BY DEF JsonEqual, Alike

LEMMA EnumAgrees ==
    ASSUME NEW v, NEW s, v.type # "nan"
    PROVE  Broken([enum |-> Has(s, "enum") /\ \A e \in s.enum : ~JsonEqual(v, e)]) = {}
                <=> (Has(s, "enum") => \E e \in s.enum : Alike(v, e, {"integer", "float"}))
<1> DEFINE rules == [enum |-> Has(s, "enum") /\ \A e \in s.enum : ~JsonEqual(v, e)]
<1>1. DOMAIN rules = {"enum"}
  OBVIOUS
<1>2. rules["enum"] <=> Has(s, "enum") /\ \A e \in s.enum : ~JsonEqual(v, e)
  BY Zenon
<1> HIDE DEF rules
<1>3. Broken(rules) = {} <=> ~rules["enum"]
  BY <1>1, NothingBroken
<1>4. \A e : JsonEqual(v, e) <=> Alike(v, e, {"integer", "float"})
  BY EqualityAgrees
<1>5. Broken(rules) = {} <=> (Has(s, "enum") => \E e \in s.enum : Alike(v, e, {"integer", "float"}))
  BY <1>2, <1>3, <1>4, Zenon
<1> QED BY <1>5 DEF rules

LEMMA OneOfAgrees ==
    ASSUME NEW v, NEW s, NEW root, NEW found, NEW holds, ~Has(s, "ref"), Has(s, "oneOf"),
           Agree(v, s, root, found, holds)
    PROVE  OneOfErrors(v, s.oneOf, found) = {}
                <=> \E i \in DOMAIN s.oneOf : {i} = {j \in DOMAIN s.oneOf : holds[<<v, s.oneOf[j]>>]}
<1> DEFINE branches == s.oneOf
           matched == {i \in DOMAIN branches : found[<<v, branches[i]>>] = {}}
           held == {j \in DOMAIN branches : holds[<<v, branches[j]>>]}
<1>1. \A i \in DOMAIN branches : branches[i] \in OneOf(s)
  BY DEF OneOf, Branches
<1>2. \A i \in DOMAIN branches : holds[<<v, branches[i]>>] <=> found[<<v, branches[i]>>] = {}
  BY <1>1, AppliedHas, Zenon DEF Agree
<1>3. matched = held
  <2> HIDE DEF branches
  <2> QED BY <1>2, Zenon
<1>4. OneOfErrors(v, branches, found) = {}
        <=> branches # <<>> /\ \E i \in matched : matched = {i}
  <2> HIDE DEF branches
  <2> QED BY DEF OneOfErrors
<1>5. branches = <<>> => matched = {}
  OBVIOUS
<1>6. matched \subseteq DOMAIN branches
  OBVIOUS
<1> HIDE DEF matched, held
<1>7. OneOfErrors(v, branches, found) = {} <=> \E i \in DOMAIN branches : {i} = held
  BY <1>3, <1>4, <1>5, <1>6
<1> QED BY <1>7 DEF held

LEMMA ConstAgrees ==
    ASSUME NEW v, NEW s, NEW root, NEW found, NEW holds, PortableHere(s), Has(s, "const")
    PROVE  Errors(v, s, found, root) = {} <=> ConformsHere(v, s, holds, root)
<1>1. DOMAIN s = {"const"}
  BY DEF PortableHere
<1>2. ~Has(s, "ref") /\ ~Has(s, "type") /\ ~Has(s, "enum") /\ ~Has(s, "oneOf") /\ ~Has(s, "allOf")
      /\ ~Has(s, "minimum") /\ ~Has(s, "maximum") /\ ~Has(s, "pattern")
      /\ ~Has(s, "minLength") /\ ~Has(s, "maxLength")
  BY <1>1 DEF Has
<1>3. ~Has(s, "maxProperties") /\ ~Has(s, "minProperties") /\ ~Has(s, "required")
      /\ ~Has(s, "propertyNames") /\ ~Has(s, "closed") /\ ~Has(s, "properties")
      /\ ~Has(s, "patternProperties") /\ ~Has(s, "additional")
      /\ ~Has(s, "minItems") /\ ~Has(s, "maxItems") /\ ~Has(s, "items")
  BY <1>1 DEF Has
<1>4. Errors(v, s, found, root) = {} <=> JsonEqual(v, s.const)
  <2> DEFINE rules == [const |-> ~JsonEqual(v, s.const)]
  <2>1. Errors(v, s, found, root) = Broken(rules)
    BY <1>2 DEF Errors, FastPath
  <2>2. DOMAIN rules = {"const"} /\ (rules["const"] <=> ~JsonEqual(v, s.const))
    BY Zenon
  <2> HIDE DEF rules
  <2> QED BY <2>1, <2>2, NothingBroken
<1>5. v.type # "nan" => ScalarErrors(v, s) = {}
  <2> SUFFICES ASSUME v.type # "nan" PROVE ScalarErrors(v, s) = {}
    OBVIOUS
  <2> DEFINE number == v.type \in {"integer", "float"}
             string == v.type = "string"
             rules == [minimum |-> Has(s, "minimum") /\ number /\ v.size < s.minimum,
                     maximum |-> Has(s, "maximum") /\ number /\ v.size > s.maximum,
                     pattern |-> Has(s, "pattern") /\ string /\ v.word \notin s.pattern,
                     minLength |-> Has(s, "minLength") /\ string /\ v.size < s.minLength,
                     maxLength |-> Has(s, "maxLength") /\ string /\ v.size > s.maxLength]
  <2>1. ScalarErrors(v, s) = Broken(rules)
    BY DEF ScalarErrors
  <2>2. /\ ~rules["minimum"] /\ ~rules["maximum"] /\ ~rules["pattern"]
        /\ ~rules["minLength"] /\ ~rules["maxLength"]
    BY <1>2, Zenon
  <2>3. DOMAIN rules = {"minimum", "maximum", "pattern", "minLength", "maxLength"}
    OBVIOUS
  <2> HIDE DEF rules
  <2>4. Broken(rules) = {}
    BY <2>2, <2>3, NothingBroken
  <2> QED BY <2>1, <2>4
<1>6. AllOf(s) = {}
  BY <1>2 DEF AllOf, Branches
<1>7. ObjectConforms(v, s, holds)
  BY <1>3 DEF ObjectConforms, Unexpected, KeySchema, Declares, Matching, Branches
<1>8. ArrayConforms(v, s, holds)
  BY <1>3 DEF ArrayConforms
<1>9. ConformsHere(v, s, holds, root) <=>
        v.type # "nan" /\ Alike(v, s.const, {"integer", "float"}) /\ ScalarErrors(v, s) = {}
  BY <1>2, <1>6, <1>7, <1>8, Zenon DEF ConformsHere
<1>10. JsonEqual(v, s.const) => v.type # "nan"
  BY DEF JsonEqual
<1> QED BY <1>4, <1>5, <1>9, <1>10, EqualityAgrees

\* Beside a oneOf a portable subschema asks for nothing further down.
LEMMA ChoiceAsksNoMore ==
    ASSUME NEW v, NEW s, NEW holds, PortableHere(s), Has(s, "oneOf")
    PROVE  AllOf(s) = {} /\ ObjectConforms(v, s, holds) /\ ArrayConforms(v, s, holds)
<1>1. \A keyword \in Applicators : ~Has(s, keyword)
  BY DEF PortableHere, Has
<1>2. ~Has(s, "allOf") /\ ~Has(s, "maxProperties") /\ ~Has(s, "minProperties") /\ ~Has(s, "required")
      /\ ~Has(s, "propertyNames") /\ ~Has(s, "closed") /\ ~Has(s, "properties")
      /\ ~Has(s, "patternProperties") /\ ~Has(s, "additional")
      /\ ~Has(s, "minItems") /\ ~Has(s, "maxItems") /\ ~Has(s, "items")
  BY <1>1 DEF Applicators
<1>3. AllOf(s) = {}
  BY <1>2 DEF AllOf, Branches
<1>4. ObjectConforms(v, s, holds)
  BY <1>2 DEF ObjectConforms, Unexpected, KeySchema, Declares, Matching, Branches
<1>5. ArrayConforms(v, s, holds)
  BY <1>2 DEF ArrayConforms
<1> QED BY <1>3, <1>4, <1>5

LEMMA VerdictAgrees ==
    ASSUME NEW v, NEW s, NEW root, NEW found, NEW holds, PortableHere(s),
           Agree(v, s, root, found, holds)
    PROVE  Errors(v, s, found, root) = {} <=> ConformsHere(v, s, holds, root)
<1>1. CASE Has(s, "ref")
  <2> DEFINE targets == RefTarget(root, s.ref)
  <2>1. targets = {} \/ \E target : targets = {target}
    BY DEF RefTarget
  <2>2. \A target \in targets : <<v, target>> \in Applied(v, s, root)
    BY <1>1 DEF Applied
  <2>3. \A target \in targets : holds[<<v, target>>] <=> found[<<v, target>>] = {}
    BY <2>2, Zenon DEF Agree
  <2>4. Errors(v, s, found, root) =
            IF targets = {} THEN {"ref"} ELSE UNION {found[<<v, target>>] : target \in targets}
    BY <1>1 DEF Errors, FastPath
  <2>5. ConformsHere(v, s, holds, root) <=> \E target \in targets : holds[<<v, target>>]
    BY <1>1, Zenon DEF ConformsHere
  <2> HIDE DEF targets
  <2>6. Errors(v, s, found, root) = {}
            <=> targets # {} /\ \A target \in targets : found[<<v, target>>] = {}
    BY <2>4
  <2> QED BY <2>1, <2>3, <2>5, <2>6
<1>2. CASE ~Has(s, "ref") /\ Has(s, "const")
  BY <1>2, ConstAgrees
<1>3. CASE ~Has(s, "ref") /\ ~Has(s, "const")
  <2> DEFINE enum == Broken([enum |-> Has(s, "enum") /\ \A e \in s.enum : ~JsonEqual(v, e)])
             scalar == enum \union ScalarErrors(v, s)
             mistyped == Has(s, "type") /\ ~TypeMatches(v, s.type)
             branches == {found[<<v, branch>>] : branch \in AllOf(s)}
             objects == IF v.type = "object" THEN {ObjectErrors(v, s, found)} ELSE {}
             arrays == IF v.type = "array" THEN {ArrayErrors(v, s, found)} ELSE {}
  <2>1. Errors(v, s, found, root) =
            IF mistyped THEN enum \union {"type"}
            ELSE IF Has(s, "oneOf") THEN scalar \union OneOfErrors(v, s.oneOf, found)
            ELSE UNION ({scalar} \union branches \union objects \union arrays)
    BY <1>3 DEF Errors, OrdinaryErrors
  <2>2. v.type # "nan" => (enum = {} <=>
            (Has(s, "enum") => \E e \in s.enum : Alike(v, e, {"integer", "float"})))
    BY EnumAgrees
  <2>3. v.type = "nan" => ScalarErrors(v, s) # {}
    BY DEF ScalarErrors
  <2>4. scalar = {} <=> enum = {} /\ ScalarErrors(v, s) = {}
    OBVIOUS
  <2>5. CASE mistyped
    <3>1. Errors(v, s, found, root) # {}
      BY <2>1, <2>5
    <3>2. ~ConformsHere(v, s, holds, root)
      BY <1>3, <2>5, Zenon DEF ConformsHere
    <3> QED BY <3>1, <3>2
  <2>6. CASE ~mistyped /\ Has(s, "oneOf")
    <3>1. Errors(v, s, found, root) = {} <=> scalar = {} /\ OneOfErrors(v, s.oneOf, found) = {}
      <4> HIDE DEF scalar
      <4> QED BY <2>1, <2>6
    <3>2. AllOf(s) = {} /\ ObjectConforms(v, s, holds) /\ ArrayConforms(v, s, holds)
      BY <2>6, ChoiceAsksNoMore
    <3>3. OneOfErrors(v, s.oneOf, found) = {}
            <=> \E i \in DOMAIN s.oneOf : {i} = {j \in DOMAIN s.oneOf : holds[<<v, s.oneOf[j]>>]}
      BY <1>3, <2>6, OneOfAgrees
    <3>4. ConformsHere(v, s, holds, root) <=>
            /\ v.type # "nan"
            /\ Has(s, "enum") => \E e \in s.enum : Alike(v, e, {"integer", "float"})
            /\ ScalarErrors(v, s) = {}
            /\ \E i \in DOMAIN s.oneOf : {i} = {j \in DOMAIN s.oneOf : holds[<<v, s.oneOf[j]>>]}
      BY <1>3, <2>6, <3>2, Zenon DEF ConformsHere
    <3> HIDE DEF enum, scalar, mistyped
    <3> QED BY <2>2, <2>3, <2>4, <3>1, <3>3, <3>4
  <2>7. CASE ~mistyped /\ ~Has(s, "oneOf")
    <3>1. Errors(v, s, found, root) = {} <=>
            /\ scalar = {}
            /\ \A branch \in AllOf(s) : found[<<v, branch>>] = {}
            /\ v.type = "object" => ObjectErrors(v, s, found) = {}
            /\ v.type = "array" => ArrayErrors(v, s, found) = {}
      <4>1. /\ v.type = "object" => objects = {ObjectErrors(v, s, found)}
            /\ v.type # "object" => objects = {}
            /\ v.type = "array" => arrays = {ArrayErrors(v, s, found)}
            /\ v.type # "array" => arrays = {}
        OBVIOUS
      <4>2. Errors(v, s, found, root) = UNION ({scalar} \union branches \union objects \union arrays)
        BY <2>1, <2>7
      <4>3. \A all \in branches : \E branch \in AllOf(s) : all = found[<<v, branch>>]
        OBVIOUS
      <4>4. \A branch \in AllOf(s) : found[<<v, branch>>] \in branches
        OBVIOUS
      <4> HIDE DEF scalar, objects, arrays, branches
      <4>5. Errors(v, s, found, root) = {} <=>
                \A all \in {scalar} \union branches \union objects \union arrays : all = {}
        BY <4>2
      <4> QED BY <4>1, <4>3, <4>4, <4>5
    <3>2. \A branch \in AllOf(s) : holds[<<v, branch>>] <=> found[<<v, branch>>] = {}
      BY <1>3, AppliedHas, Zenon DEF Agree
    <3>3. /\ ObjectErrors(v, s, found) = {} <=> ObjectConforms(v, s, holds)
          /\ ArrayErrors(v, s, found) = {} <=> ArrayConforms(v, s, holds)
      BY <1>3, ObjectAgrees, ArrayAgrees
    <3>4. ConformsHere(v, s, holds, root) <=>
            /\ v.type # "nan"
            /\ Has(s, "enum") => \E e \in s.enum : Alike(v, e, {"integer", "float"})
            /\ ScalarErrors(v, s) = {}
            /\ \A branch \in AllOf(s) : holds[<<v, branch>>]
            /\ v.type = "object" => ObjectConforms(v, s, holds)
            /\ v.type = "array" => ArrayConforms(v, s, holds)
      BY <1>3, <2>7, Zenon DEF ConformsHere
    <3> HIDE DEF enum, scalar, mistyped
    <3> QED BY <2>2, <2>3, <2>4, <3>1, <3>2, <3>3, <3>4
  <2> QED BY <2>5, <2>6, <2>7
<1> QED BY <1>1, <1>2, <1>3

---------------------------------------------------------------------------
(* All calls. *)

LEMMA KeySchemaIsChild ==
    ASSUME NEW s, NEW k
    PROVE  KeySchema(s, k) \subseteq Children(s)
<1>1. Declares(s, k) => s.properties[k] \in Children(s)
  BY DEF Declares, Children
<1>2. \A i \in Matching(s, k) : s.patternProperties[i].schema \in Children(s)
  BY DEF Matching, Children
<1>3. Has(s, "additional") => s.additional \in Children(s)
  BY DEF Children
<1> QED BY <1>1, <1>2, <1>3, Zenon DEF KeySchema

\* Every subschema a value may be held to is one of the schema's.
LEMMA InsideStep ==
    ASSUME NEW v, NEW s, NEW root, NEW subschemas, s \in subschemas,
           Further(subschemas, root, "all") = subschemas,
           NEW call \in Applied(v, s, root)
    PROVE  call[2] \in subschemas
<1>1. Follows(s, root, "all") \subseteq subschemas
  BY DEF Further
<1>2. CASE Has(s, "ref")
  <2>1. RefTarget(root, s.ref) \subseteq subschemas
    BY <1>1, <1>2 DEF Follows
  <2>2. PICK target \in RefTarget(root, s.ref) : call = <<v, target>>
    BY <1>2, AppliedIs, Zenon
  <2> QED BY <2>1, <2>2
<1>3. CASE ~Has(s, "ref")
  <2>1. /\ Children(s) \subseteq subschemas /\ AllOf(s) \subseteq subschemas
        /\ Has(s, "propertyNames") => s.propertyNames \in subschemas
    BY <1>1, <1>3 DEF Follows
  <2>2. OneOf(s) \subseteq subschemas /\ (Has(s, "items") => s.items \in subschemas)
    BY <2>1 DEF Children
  <2>3. \A k : KeySchema(s, k) \subseteq subschemas
    BY <2>1, KeySchemaIsChild
  <2>4. CASE \E branch \in AllOf(s) \union OneOf(s) : call = <<v, branch>>
    BY <2>1, <2>2, <2>4
  <2>5. CASE Has(s, "propertyNames") /\ \E k \in Keys(v) : call = <<KeyValue(k), s.propertyNames>>
    BY <2>1, <2>5
  <2>6. CASE \E k \in Keys(v) : \E sub \in KeySchema(s, k) : call = <<v.fields[k], sub>>
    BY <2>3, <2>6
  <2>7. CASE Has(s, "items") /\ \E i \in Places(v) : call = <<v.items[i], s.items>>
    BY <2>2, <2>7
  <2>8. \/ \E branch \in AllOf(s) \union OneOf(s) : call = <<v, branch>>
        \/ Has(s, "propertyNames") /\ \E k \in Keys(v) : call = <<KeyValue(k), s.propertyNames>>
        \/ \E k \in Keys(v) : \E sub \in KeySchema(s, k) : call = <<v.fields[k], sub>>
        \/ Has(s, "items") /\ \E i \in Places(v) : call = <<v.items[i], s.items>>
    BY <1>3, AppliedIs
  <2> QED BY <2>4, <2>5, <2>6, <2>7, <2>8
<1> QED BY <1>2, <1>3

\* A walk begins where the schema does and ends where it has been everywhere.
LEMMA WalksEnd ==
    ASSUME NEW root \in Schema, NEW walk \in {"bags", "text", "all"}
    PROVE  root \in Reached(root, walk) /\ Further(Reached(root, walk), root, walk) = Reached(root, walk)
<1> DEFINE walked == WalkedFrom(root, walk)
           met == {n \in 0..MaxWalk : root \in walked[n]}
<1>1. walked[0] = {root} /\ \A n \in 1..MaxWalk : walked[n] = Further(walked[n - 1], root, walk)
  <2>1. WalkReads(root, walk, MaxWalk, walked)
    BY Walking, Zenon
  <2> HIDE DEF walked
  <2> QED BY <2>1, Zenon DEF WalkReads
<1> HIDE DEF walked
<1>2. Inductive(MaxWalk, met)
  <2>1. 0 \in met
    BY <1>1, WalkAssumption
  <2>2. ASSUME NEW n \in 1..MaxWalk, n - 1 \in met PROVE n \in met
    <3>1. root \in walked[n]
      BY <1>1, <2>2 DEF Further
    <3> QED BY <3>1, WalkAssumption
  <2> QED BY <2>1, <2>2 DEF Inductive
<1>3. MaxWalk \in met
  <2> HIDE DEF met
  <2>1. MaxWalk \in 0..MaxWalk
    BY WalkAssumption
  <2> QED BY <1>2, <2>1, LineByLine, WalkAssumption
<1>4. root \in Reached(root, walk)
  BY <1>3 DEF Reached, walked
<1> QED BY <1>4, SchemaAssumption

LEMMA CallsInside ==
    ASSUME NEW v, NEW root \in Schema, NEW depth \in 0..Deepest, NEW call \in Calls(v, root)[depth]
    PROVE  (\E w, s : call = <<w, s>>) /\ call[2] \in Subschemas(root)
<1> DEFINE subschemas == Subschemas(root)
           calls == Calls(v, root)
           inside == {n \in 0..Deepest : \A c \in calls[n] :
                            (\E w, s : c = <<w, s>>) /\ c[2] \in subschemas}
<1>1. root \in subschemas /\ Further(subschemas, root, "all") = subschemas
  BY WalksEnd DEF Subschemas
<1>2. Deepest \in Nat /\ \A n \in 1..Deepest : n - 1 \in 0..MaxSchemaDepth /\ n - 1 + 1 = n
  BY DepthAssumption DEF Deepest
<1>3. Inductive(Deepest, inside)
  <2>1. 0 \in inside
    <3>1. calls[0] = {<<v, root>>}
      BY CallsLead
    <3> HIDE DEF calls, subschemas
    <3> QED BY <1>1, <1>2, <3>1
  <2>2. ASSUME NEW n \in 1..Deepest, n - 1 \in inside PROVE n \in inside
    <3> DEFINE last == n - 1
    <3>1. last \in 0..MaxSchemaDepth /\ last + 1 = n
      BY <1>2
    <3>2. \A c \in calls[last] : c[2] \in subschemas
      BY <2>2
    <3>3. ASSUME NEW c \in calls[n] PROVE (\E w, s : c = <<w, s>>) /\ c[2] \in subschemas
      <4> HIDE DEF last
      <4>1. PICK above \in calls[last] : c \in Applied(above[1], above[2], root)
        BY <3>1, CallsAbove
      <4> HIDE DEF calls, subschemas
      <4>2. c[2] \in subschemas
        BY <1>1, <3>2, <4>1, InsideStep
      <4> QED BY <4>1, <4>2, CallsArePairs
    <3> QED BY <3>3
  <2> QED BY <2>1, <2>2 DEF Inductive
<1>4. depth \in inside
  <2> HIDE DEF inside
  <2> QED BY <1>2, <1>3, LineByLine
<1> QED BY <1>4

\* Where nothing nests deeper than the bound, each call is right about its subschema.
LEMMA CallsAgree ==
    ASSUME NEW v, NEW root \in Schema, Portable(root), NestsWithin(v, root),
           NEW depth \in 0..Deepest, NEW call \in Calls(v, root)[depth]
    PROVE  Judged(v, root)[depth][call] <=> Validate(v, root)[depth][call] = {}
<1> DEFINE calls == Calls(v, root)
           judged == Judged(v, root)
           found == Validate(v, root)
           agree == {n \in 0..Deepest : \A c \in calls[Deepest - n] :
                        judged[Deepest - n][c] <=> found[Deepest - n][c] = {}}
<1>1. Deepest \in Nat /\ Deepest = MaxSchemaDepth + 1 /\ Deepest - 0 = Deepest
  BY DepthAssumption DEF Deepest
<1>2. calls[Deepest] = {}
  BY DEF NestsWithin, Deepest
<1>3. Inductive(Deepest, agree)
  <2>1. 0 \in agree
    <3> HIDE DEF calls, judged, found
    <3> QED BY <1>1, <1>2
  <2>2. ASSUME NEW n \in 1..Deepest, n - 1 \in agree PROVE n \in agree
    <3> DEFINE here == Deepest - n
    <3>1. here \in 0..MaxSchemaDepth /\ here \in 0..Deepest /\ here + 1 = Deepest - (n - 1)
      BY <1>1, DepthAssumption
    <3>2. \A c \in calls[here + 1] : judged[here + 1][c] <=> found[here + 1][c] = {}
      <4> HIDE DEF calls, judged, found
      <4> QED BY <2>2, <3>1
    <3> HIDE DEF here
    <3>3. ASSUME NEW c \in calls[here] PROVE judged[here][c] <=> found[here][c] = {}
      <4>1. (\E w, s : c = <<w, s>>) /\ c[2] \in Subschemas(root)
        BY <3>1, CallsInside
      <4>2. PICK w, s : c = <<w, s>>
        BY <4>1
      <4>3. PortableHere(s)
        BY <4>1, <4>2 DEF Portable, PortableHere
      <4>4. Applied(w, s, root) \subseteq calls[here + 1]
        BY <3>1, <4>2, CallsBelow
      <4>5. found[here][c] = Errors(w, s, found[here + 1], root)
        BY <3>1, <4>2, FoundHere
      <4>6. judged[here][c] <=> ConformsHere(w, s, judged[here + 1], root)
        BY <3>1, <4>2, HoldsHere
      <4> HIDE DEF calls, judged, found
      <4>7. Agree(w, s, root, found[here + 1], judged[here + 1])
        BY <3>2, <4>4 DEF Agree
      <4> QED BY <4>3, <4>5, <4>6, <4>7, VerdictAgrees
    <3>4. n \in 0..Deepest
      BY <1>1
    <3> QED BY <3>3, <3>4 DEF here
  <2> QED BY <2>1, <2>2 DEF Inductive
<1>4. Deepest - depth \in 0..Deepest /\ Deepest - (Deepest - depth) = depth
  BY <1>1
<1>5. Deepest - depth \in agree
  <2> HIDE DEF agree
  <2> QED BY <1>1, <1>3, <1>4, LineByLine
<1> HIDE DEF calls, judged, found
<1>6. \A c \in calls[depth] : judged[depth][c] <=> found[depth][c] = {}
  BY <1>4, <1>5
<1> QED BY <1>6 DEF calls, judged, found

\* Without a oneOf an error below is one above.
LEMMA ErrorsRise ==
    ASSUME NEW v, NEW s, NEW root, NEW found, PortableHere(s), ~Has(s, "oneOf"),
           NEW call \in Applied(v, s, root), found[call] # {}
    PROVE  Errors(v, s, found, root) # {}
<1> DEFINE holds == [c \in Applied(v, s, root) |-> found[c] = {}]
<1>1. Agree(v, s, root, found, holds)
  BY Zenon DEF Agree
<1>2. ~holds[call]
  BY Zenon
<1> HIDE DEF holds
<1>3. SUFFICES ~ConformsHere(v, s, holds, root)
  BY <1>1, VerdictAgrees
<1>4. SUFFICES ASSUME ConformsHere(v, s, holds, root) PROVE FALSE
  OBVIOUS
<1>5. CASE Has(s, "ref")
  <2>1. PICK target \in RefTarget(root, s.ref) : call = <<v, target>>
    BY <1>5, AppliedIs, Zenon
  <2>2. PICK other \in RefTarget(root, s.ref) : holds[<<v, other>>]
    BY <1>4, <1>5, Zenon DEF ConformsHere
  <2>3. other = target
    BY DEF RefTarget
  <2> QED BY <1>2, <2>1, <2>2, <2>3
<1>6. CASE ~Has(s, "ref")
  <2>1. /\ \A branch \in AllOf(s) : holds[<<v, branch>>]
        /\ v.type = "object" => ObjectConforms(v, s, holds)
        /\ v.type = "array" => ArrayConforms(v, s, holds)
    BY <1>4, <1>6, Zenon DEF ConformsHere
  <2>2. OneOf(s) = {}
    BY DEF OneOf, Branches
  <2>3. CASE \E branch \in AllOf(s) \union OneOf(s) : call = <<v, branch>>
    BY <1>2, <2>1, <2>2, <2>3
  <2>4. CASE Has(s, "propertyNames") /\ \E k \in Keys(v) : call = <<KeyValue(k), s.propertyNames>>
    <3>1. v.type = "object"
      BY <2>4 DEF Keys
    <3> QED BY <1>2, <2>1, <2>4, <3>1, Zenon DEF ObjectConforms
  <2>5. CASE \E k \in Keys(v) : \E sub \in KeySchema(s, k) : call = <<v.fields[k], sub>>
    <3>1. v.type = "object"
      BY <2>5 DEF Keys
    <3> QED BY <1>2, <2>1, <2>5, <3>1, Zenon DEF ObjectConforms
  <2>6. CASE Has(s, "items") /\ \E i \in Places(v) : call = <<v.items[i], s.items>>
    <3>1. v.type = "array"
      BY <2>6 DEF Places
    <3> QED BY <1>2, <2>1, <2>6, <3>1, Zenon DEF ArrayConforms
  <2>7. \/ \E branch \in AllOf(s) \union OneOf(s) : call = <<v, branch>>
        \/ Has(s, "propertyNames") /\ \E k \in Keys(v) : call = <<KeyValue(k), s.propertyNames>>
        \/ \E k \in Keys(v) : \E sub \in KeySchema(s, k) : call = <<v.fields[k], sub>>
        \/ Has(s, "items") /\ \E i \in Places(v) : call = <<v.items[i], s.items>>
    BY <1>6, AppliedIs
  <2> QED BY <2>3, <2>4, <2>5, <2>6, <2>7
<1> QED BY <1>5, <1>6

\* So what nests deeper than the bound is refused.
LEMMA TooDeep ==
    ASSUME NEW v, NEW root \in Schema, Portable(root), ~Choice(root), ~NestsWithin(v, root)
    PROVE  ~Valid(v, root)
<1> DEFINE calls == Calls(v, root)
           found == Validate(v, root)
           refused == {n \in 0..Deepest : \E c \in calls[Deepest - n] : found[Deepest - n][c] # {}}
<1>1. Deepest \in Nat /\ Deepest = MaxSchemaDepth + 1 /\ Deepest - 0 = Deepest /\ Deepest - Deepest = 0
  BY DepthAssumption DEF Deepest
<1>2. Inductive(Deepest, refused)
  <2>1. 0 \in refused
    <3>1. PICK c : c \in calls[Deepest]
      BY DEF NestsWithin, Deepest
    <3>2. found[Deepest][c] # {}
      BY <3>1, FoundDeepest
    <3> HIDE DEF calls, found
    <3> QED BY <1>1, <3>1, <3>2
  <2>2. ASSUME NEW n \in 1..Deepest, n - 1 \in refused PROVE n \in refused
    <3> DEFINE here == Deepest - n
    <3>1. here \in 0..MaxSchemaDepth /\ here \in 0..Deepest /\ here + 1 = Deepest - (n - 1)
      BY <1>1, DepthAssumption
    <3>2. PICK c \in calls[here + 1] : found[here + 1][c] # {}
      <4> HIDE DEF calls, found
      <4> QED BY <2>2, <3>1
    <3> HIDE DEF here
    <3>3. PICK above \in calls[here] : c \in Applied(above[1], above[2], root)
      BY <3>1, CallsAbove
    <3>4. (\E w, s : above = <<w, s>>) /\ above[2] \in Subschemas(root)
      BY <3>1, CallsInside
    <3>5. PICK w, s : above = <<w, s>>
      BY <3>4
    <3>6. PortableHere(s) /\ ~Has(s, "oneOf")
      BY <3>4, <3>5 DEF Portable, PortableHere, Choice
    <3>7. found[here][above] = Errors(w, s, found[here + 1], root)
      BY <3>1, <3>5, FoundHere
    <3>8. c \in Applied(w, s, root)
      BY <3>3, <3>5
    <3> HIDE DEF calls, found
    <3>9. found[here][above] # {}
      BY <3>2, <3>6, <3>7, <3>8, ErrorsRise
    <3>10. n \in 0..Deepest
      BY <1>1
    <3> QED BY <3>9, <3>10 DEF here
  <2> QED BY <2>1, <2>2 DEF Inductive
<1>3. Deepest \in refused
  <2> HIDE DEF refused
  <2> QED BY <1>1, <1>2, LineByLine
<1>4. PICK c \in calls[0] : found[0][c] # {}
  <2> HIDE DEF calls, found
  <2> QED BY <1>1, <1>3
<1>5. c = <<v, root>>
  BY <1>4, CallsLead
<1> QED BY <1>4, <1>5 DEF Valid

LEMMA VerdictIsExact ==
    ASSUME NEW v, NEW root \in Schema, Portable(root)
    PROVE  IF NestsWithin(v, root) THEN Valid(v, root) <=> Conforms(v, root)
           ELSE Choice(root) \/ ~Valid(v, root)
<1>1. CASE NestsWithin(v, root)
  <2>1. 0 \in 0..Deepest /\ <<v, root>> \in Calls(v, root)[0]
    BY CallsLead, DepthAssumption DEF Deepest
  <2>2. Judged(v, root)[0][<<v, root>>] <=> Validate(v, root)[0][<<v, root>>] = {}
    BY <1>1, <2>1, CallsAgree
  <2> QED BY <1>1, <2>2 DEF Valid, Conforms
<1>2. CASE ~NestsWithin(v, root)
  BY <1>2, TooDeep
<1> QED BY <1>1, <1>2

---------------------------------------------------------------------------
(* What a value the validator passed is held to. *)

\* A call of validate() that found nothing.
AcceptedAt(v, root, depth, w, s) ==
    /\ <<w, s>> \in Calls(v, root)[depth]
    /\ Validate(v, root)[depth][<<w, s>>] = {}

\* What the calls below one find.
FoundBelow(v, root, depth) == Validate(v, root)[depth + 1]

LEMMA AcceptedHere ==
    ASSUME NEW v, NEW root, NEW depth \in 0..Deepest, NEW w, NEW s,
           AcceptedAt(v, root, depth, w, s)
    PROVE  /\ depth \in 0..MaxSchemaDepth /\ depth + 1 \in 0..Deepest
           /\ Errors(w, s, FoundBelow(v, root, depth), root) = {}
<1>1. depth # Deepest
  BY FoundDeepest DEF AcceptedAt
<1>2. depth \in 0..MaxSchemaDepth /\ depth + 1 \in 0..Deepest
  BY <1>1, DepthAssumption DEF Deepest
<1>3. Validate(v, root)[depth][<<w, s>>] = Errors(w, s, FoundBelow(v, root, depth), root)
  BY <1>2, FoundHere DEF AcceptedAt, FoundBelow
<1> QED BY <1>2, <1>3 DEF AcceptedAt

LEMMA AcceptedBelow ==
    ASSUME NEW v, NEW root, NEW depth \in 0..MaxSchemaDepth, NEW w, NEW s,
           AcceptedAt(v, root, depth, w, s),
           NEW x, NEW t, <<x, t>> \in Applied(w, s, root), FoundBelow(v, root, depth)[<<x, t>>] = {}
    PROVE  AcceptedAt(v, root, depth + 1, x, t)
<1>1. Applied(w, s, root) \subseteq Calls(v, root)[depth + 1]
  BY CallsBelow DEF AcceptedAt
<1> QED BY <1>1 DEF AcceptedAt, FoundBelow

\* What a ref is accepted for is accepted by the definition it names.
LEMMA AcceptedRef ==
    ASSUME NEW v, NEW root, NEW depth \in 0..Deepest, NEW w, NEW s,
           AcceptedAt(v, root, depth, w, s), Has(s, "ref")
    PROVE  \E t : RefTarget(root, s.ref) = {t} /\ AcceptedAt(v, root, depth + 1, w, t)
<1> DEFINE targets == RefTarget(root, s.ref)
           found == FoundBelow(v, root, depth)
<1>1. depth \in 0..MaxSchemaDepth /\ Errors(w, s, found, root) = {}
  BY AcceptedHere
<1>2. Errors(w, s, found, root) =
        IF targets = {} THEN {"ref"} ELSE UNION {found[<<w, target>>] : target \in targets}
  BY DEF Errors, FastPath
<1>3. targets = {} \/ \E t : targets = {t}
  BY DEF RefTarget
<1>4. \A t \in targets : <<w, t>> \in Applied(w, s, root)
  BY DEF Applied
<1> HIDE DEF targets, found
<1>5. PICK t : targets = {t}
  BY <1>1, <1>2, <1>3
<1>6. found[<<w, t>>] = {}
  BY <1>1, <1>2, <1>5
<1>7. AcceptedAt(v, root, depth + 1, w, t)
  BY <1>1, <1>4, <1>5, <1>6, AcceptedBelow DEF found
<1> QED BY <1>5, <1>7 DEF targets

LEMMA AcceptedConst ==
    ASSUME NEW v, NEW root, NEW depth \in 0..Deepest, NEW w, NEW s,
           AcceptedAt(v, root, depth, w, s), ~Has(s, "ref"), Has(s, "const")
    PROVE  JsonEqual(w, s.const)
<1> DEFINE rules == [const |-> ~JsonEqual(w, s.const)]
<1>1. Errors(w, s, FoundBelow(v, root, depth), root) = {}
  BY AcceptedHere
<1>2. Errors(w, s, FoundBelow(v, root, depth), root) = Broken(rules)
  BY DEF Errors, FastPath
<1>3. DOMAIN rules = {"const"} /\ (rules["const"] <=> ~JsonEqual(w, s.const))
  BY Zenon
<1> HIDE DEF rules
<1> QED BY <1>1, <1>2, <1>3, NothingBroken

\* What the ordinary keywords found nothing against.
LEMMA OrdinaryFinds ==
    ASSUME NEW w, NEW s, NEW found, OrdinaryErrors(w, s, found) = {}
    PROVE  /\ Has(s, "type") => TypeMatches(w, s.type)
           /\ Has(s, "enum") => \E e \in s.enum : JsonEqual(w, e)
           /\ ScalarErrors(w, s) = {}
           /\ Has(s, "oneOf") => OneOfErrors(w, s.oneOf, found) = {}
           /\ ~Has(s, "oneOf") =>
                /\ \A branch \in AllOf(s) : found[<<w, branch>>] = {}
                /\ w.type = "object" => ObjectErrors(w, s, found) = {}
                /\ w.type = "array" => ArrayErrors(w, s, found) = {}
<1> DEFINE rules == [enum |-> Has(s, "enum") /\ \A e \in s.enum : ~JsonEqual(w, e)]
           enum == Broken(rules)
           scalar == enum \union ScalarErrors(w, s)
           mistyped == Has(s, "type") /\ ~TypeMatches(w, s.type)
           branches == {found[<<w, branch>>] : branch \in AllOf(s)}
           objects == IF w.type = "object" THEN {ObjectErrors(w, s, found)} ELSE {}
           arrays == IF w.type = "array" THEN {ArrayErrors(w, s, found)} ELSE {}
           further == {scalar} \union branches \union objects \union arrays
<1>1. {} =
        IF mistyped THEN enum \union {"type"}
        ELSE IF Has(s, "oneOf") THEN scalar \union OneOfErrors(w, s.oneOf, found)
        ELSE UNION further
  BY DEF OrdinaryErrors
<1>2. enum = {} => (Has(s, "enum") => \E e \in s.enum : JsonEqual(w, e))
  <2>1. DOMAIN rules = {"enum"} /\ (rules["enum"] <=> Has(s, "enum") /\ \A e \in s.enum : ~JsonEqual(w, e))
    BY Zenon
  <2> HIDE DEF rules
  <2> QED BY <2>1, NothingBroken
<1>3. scalar = {} => enum = {} /\ ScalarErrors(w, s) = {}
  OBVIOUS
<1>4. \A branch \in AllOf(s) : found[<<w, branch>>] \in branches
  OBVIOUS
<1>5. /\ w.type = "object" => ObjectErrors(w, s, found) \in objects
      /\ w.type = "array" => ArrayErrors(w, s, found) \in arrays
  OBVIOUS
<1>6. UNION further = {} => \A x \in further : x = {}
  BY UnionOfNothing
<1>7. scalar \in further /\ branches \subseteq further /\ objects \subseteq further /\ arrays \subseteq further
  <2> HIDE DEF scalar, branches, objects, arrays
  <2> QED OBVIOUS
<1> HIDE DEF enum, scalar, mistyped, branches, objects, arrays, further
<1>8. ~mistyped
  BY <1>1
<1>9. Has(s, "type") => TypeMatches(w, s.type)
  BY <1>8 DEF mistyped
<1>10. CASE Has(s, "oneOf")
  <2>1. scalar = {} /\ OneOfErrors(w, s.oneOf, found) = {}
    BY <1>1, <1>8, <1>10
  <2> QED BY <1>2, <1>3, <1>9, <1>10, <2>1, Zenon
<1>11. CASE ~Has(s, "oneOf")
  <2>1. \A x \in further : x = {}
    BY <1>1, <1>6, <1>8, <1>11
  <2>2. /\ scalar = {}
        /\ \A branch \in AllOf(s) : found[<<w, branch>>] = {}
        /\ w.type = "object" => ObjectErrors(w, s, found) = {}
        /\ w.type = "array" => ArrayErrors(w, s, found) = {}
    BY <1>4, <1>5, <1>7, <2>1
  <2> QED BY <1>2, <1>3, <1>9, <1>11, <2>2, Zenon
<1> QED BY <1>10, <1>11

LEMMA AcceptedOrdinary ==
    ASSUME NEW v, NEW root, NEW depth \in 0..Deepest, NEW w, NEW s,
           AcceptedAt(v, root, depth, w, s), ~Has(s, "ref"), ~Has(s, "const")
    PROVE  OrdinaryErrors(w, s, FoundBelow(v, root, depth)) = {}
<1>1. Errors(w, s, FoundBelow(v, root, depth), root) = {}
  BY AcceptedHere
<1> QED BY <1>1 DEF Errors

---------------------------------------------------------------------------
(* A schema the personal-data gate passed. *)

BagsPassed(root) ==
    /\ root \in Schema
    /\ PersonalDataErrors(root) = {}
    /\ Legible(root) /\ ListsOfScalars(root)
    /\ \A s \in Subschemas(root) : AllOf(s) \subseteq {DenyValues}

LEMMA NothingNested ==
    ASSUME NEW w, w.type \notin {"object", "array"}
    PROVE  Nested(w) = {}
BY DEF Nested, Keys, Places

\* What equals a scalar or an empty container has nothing in it.
LEMMA EqualsNothingNested ==
    ASSUME NEW w, NEW e, JsonEqual(w, e), Nested(e) = {}
    PROVE  Nested(w) = {}
<1>1. w.items = e.items /\ w.fields = e.fields
  BY DEF JsonEqual, Alike
<1>2. w.type = e.type \/ w.type \in {"integer", "float", "boolean"}
  BY DEF JsonEqual, Alike
<1>3. CASE w.type = e.type
  <2>1. Keys(w) = Keys(e) /\ Places(w) = Places(e)
    BY <1>1, <1>3 DEF Keys, Places
  <2>2. Keys(e) = {} /\ Places(e) = {}
    BY DEF Nested
  <2> QED BY <2>1, <2>2 DEF Nested
<1>4. CASE w.type \in {"integer", "float", "boolean"}
  BY <1>4, NothingNested
<1> QED BY <1>2, <1>3, <1>4

\* A deny-list holds what it is asked of to its type and to its pattern.
LEMMA ListHolds ==
    ASSUME NEW v, NEW root, BagsPassed(root), NEW depth \in 0..Deepest, NEW w,
           NEW name \in {"denyNames", "denyValues"},
           AcceptedAt(v, root, depth, w, [ref |-> name])
    PROVE  /\ w.type = "string" => Clear(root, name, w.word)
           /\ name = "denyValues" => Nested(w) = {}
<1> DEFINE s == [ref |-> name]
<1>1. Has(s, "ref") /\ s.ref = name
  BY DEF Has
<1> HIDE DEF s
<1>2. PICK t : RefTarget(root, name) = {t} /\ AcceptedAt(v, root, depth + 1, w, t)
  <2>1. AcceptedAt(v, root, depth, w, s)
    BY DEF s
  <2> QED BY <1>1, <2>1, AcceptedRef
<1>3. ~Has(t, "ref") /\ ~Has(t, "const")
  <2>1. {"ref", "const"} \intersect DOMAIN t = {}
    BY <1>2 DEF BagsPassed, ListsOfScalars
  <2> QED BY <2>1 DEF Has
<1>4. Has(t, "pattern")
  <2>1. ListPresent(root, name)
    BY DEF BagsPassed, PersonalDataErrors
  <2> QED BY <1>2, <2>1 DEF ListPresent
<1>5. depth + 1 \in 0..Deepest
  BY AcceptedHere
<1>6. OrdinaryErrors(w, t, FoundBelow(v, root, depth + 1)) = {}
  BY <1>2, <1>3, <1>5, AcceptedOrdinary
<1>7. ScalarErrors(w, t) = {} /\ (Has(t, "type") => TypeMatches(w, t.type))
  BY <1>6, OrdinaryFinds
<1>8. w.type = "string" => Clear(root, name, w.word)
  <2> SUFFICES ASSUME w.type = "string" PROVE w.word \in t.pattern
    BY <1>2 DEF Clear
  <2> DEFINE number == w.type \in {"integer", "float"}
             string == w.type = "string"
             rules == [minimum |-> Has(t, "minimum") /\ number /\ w.size < t.minimum,
                     maximum |-> Has(t, "maximum") /\ number /\ w.size > t.maximum,
                     pattern |-> Has(t, "pattern") /\ string /\ w.word \notin t.pattern,
                     minLength |-> Has(t, "minLength") /\ string /\ w.size < t.minLength,
                     maxLength |-> Has(t, "maxLength") /\ string /\ w.size > t.maxLength]
  <2>1. ScalarErrors(w, t) = Broken(rules)
    BY DEF ScalarErrors
  <2>2. "pattern" \in DOMAIN rules
    OBVIOUS
  <2>3. rules["pattern"] <=> Has(t, "pattern") /\ string /\ w.word \notin t.pattern
    BY Zenon
  <2> HIDE DEF rules
  <2>4. ~rules["pattern"]
    BY <1>7, <2>1, <2>2, NothingBroken
  <2> QED BY <1>4, <2>3, <2>4
<1>9. ASSUME name = "denyValues" PROVE Nested(w) = {}
  <2>1. Has(t, "type") /\ {"object", "array"} \intersect t.type = {}
    BY <1>2, <1>9 DEF BagsPassed, ListsOfScalars
  <2>2. TypeMatches(w, t.type)
    BY <1>7, <2>1
  <2>3. w.type \notin {"object", "array"}
    BY <2>1, <2>2 DEF TypeMatches
  <2> QED BY <2>3, NothingNested
<1> QED BY <1>8, <1>9

\* The walk for bags goes nowhere a value is not held to.
LEMMA BagsAreSubschemas ==
    ASSUME NEW root \in Schema
    PROVE  Reached(root, "bags") \subseteq Subschemas(root)
<1> DEFINE walked == WalkedFrom(root, "bags")
           all == Reached(root, "all")
           inside == {n \in 0..MaxWalk : walked[n] \subseteq all}
<1>0. MaxWalk \in Nat
  BY WalkAssumption
<1>1. walked[0] = {root} /\ \A n \in 1..MaxWalk : walked[n] = Further(walked[n - 1], root, "bags")
  <2>1. WalkReads(root, "bags", MaxWalk, walked)
    BY Walking, Zenon
  <2> HIDE DEF walked
  <2> QED BY <2>1, Zenon DEF WalkReads
<1>2. root \in all /\ Further(all, root, "all") = all
  BY WalksEnd
<1>3. \A s : Follows(s, root, "bags") \subseteq Follows(s, root, "all")
  BY DEF Follows
<1> HIDE DEF walked, all
<1>4. \A s \in all : Follows(s, root, "bags") \subseteq all
  BY <1>2, <1>3 DEF Further
<1>5. Inductive(MaxWalk, inside)
  <2>1. 0 \in inside
    BY <1>0, <1>1, <1>2
  <2>2. ASSUME NEW n \in 1..MaxWalk, n - 1 \in inside PROVE n \in inside
    <3> DEFINE before == walked[n - 1]
    <3>1. before \subseteq all /\ walked[n] = Further(before, root, "bags")
      BY <1>1, <2>2
    <3> HIDE DEF before
    <3>2. walked[n] \subseteq all
      BY <1>4, <3>1 DEF Further
    <3> QED BY <1>0, <3>2
  <2> QED BY <2>1, <2>2 DEF Inductive
<1>6. MaxWalk \in inside
  <2> HIDE DEF inside
  <2>1. MaxWalk \in 0..MaxWalk
    BY <1>0
  <2> QED BY <1>0, <1>5, <2>1, LineByLine
<1> QED BY <1>6 DEF Reached, Subschemas, walked, all

\* A part that the walk for bags leads to with a subschema it is accepted by.
Held(v, root, w) ==
    \E depth \in 0..Deepest, s \in Reached(root, "bags") : AcceptedAt(v, root, depth, w, s)

\* A subschema that itself says what a container holds.
Plain(s) ==
    /\ ~Has(s, "ref") /\ ~Has(s, "const") /\ ~Has(s, "oneOf")
    /\ Has(s, "type") /\ AllOf(s) = {}

Settled(v, root, w) ==
    \/ Nested(w) = {}
    \/ \E depth \in 0..Deepest, s \in Reached(root, "bags") :
            AcceptedAt(v, root, depth, w, s) /\ Plain(s) /\ w.type \in s.type

LEMMA BagStep ==
    ASSUME NEW root \in Schema, NEW s \in Reached(root, "bags")
    PROVE  /\ Has(s, "ref") => RefTarget(root, s.ref) \subseteq Reached(root, "bags")
           /\ ~Has(s, "ref") => Children(s) \subseteq Reached(root, "bags")
<1> DEFINE bags == Reached(root, "bags")
<1>1. Further(bags, root, "bags") = bags
  BY WalksEnd
<1> HIDE DEF bags
<1>2. Follows(s, root, "bags") \subseteq bags
  BY <1>1 DEF Further, bags
<1> QED BY <1>2 DEF Follows, bags

\* One subschema: it settles what it is asked of, or hands it to another.
LEMMA SettledStep ==
    ASSUME NEW v, NEW root, BagsPassed(root), NEW depth \in 0..Deepest, NEW w,
           NEW s \in Reached(root, "bags"), AcceptedAt(v, root, depth, w, s)
    PROVE  \/ Settled(v, root, w)
           \/ /\ depth + 1 \in 0..Deepest
              /\ \E t \in Reached(root, "bags") : AcceptedAt(v, root, depth + 1, w, t)
<1>1. depth \in 0..MaxSchemaDepth /\ depth + 1 \in 0..Deepest
  BY AcceptedHere
<1>2. s \in Subschemas(root) /\ root \in Schema
  BY BagsAreSubschemas DEF BagsPassed
<1>3. CASE Has(s, "ref")
  <2>1. PICK t : RefTarget(root, s.ref) = {t} /\ AcceptedAt(v, root, depth + 1, w, t)
    BY <1>3, AcceptedRef
  <2>2. t \in Reached(root, "bags")
    BY <1>2, <1>3, <2>1, BagStep
  <2> QED BY <1>1, <2>1, <2>2
<1>4. CASE ~Has(s, "ref") /\ Has(s, "const")
  <2>1. JsonEqual(w, s.const)
    BY <1>4, AcceptedConst
  <2>2. Nested(s.const) = {}
    BY <1>2, <1>4 DEF BagsPassed, Legible, ComparesSimply
  <2> QED BY <2>1, <2>2, EqualsNothingNested DEF Settled
<1>5. CASE ~Has(s, "ref") /\ ~Has(s, "const")
  <2> DEFINE found == FoundBelow(v, root, depth)
  <2>1. OrdinaryErrors(w, s, found) = {}
    BY <1>5, AcceptedOrdinary
  <2> HIDE DEF found
  <2>2. CASE Has(s, "enum")
    <3>1. PICK e \in s.enum : JsonEqual(w, e)
      BY <2>1, <2>2, OrdinaryFinds
    <3>2. Nested(e) = {}
      BY <1>2, <2>2 DEF BagsPassed, Legible, ComparesSimply
    <3> QED BY <3>1, <3>2, EqualsNothingNested DEF Settled
  <2>3. CASE Has(s, "oneOf")
    <3>1. OneOfErrors(w, s.oneOf, found) = {}
      BY <2>1, <2>3, OrdinaryFinds
    <3>2. \E i \in DOMAIN s.oneOf : found[<<w, s.oneOf[i]>>] = {}
      BY <3>1 DEF OneOfErrors
    <3>3. PICK i \in DOMAIN s.oneOf : found[<<w, s.oneOf[i]>>] = {}
      BY <3>2
    <3> DEFINE t == s.oneOf[i]
    <3>4. t \in OneOf(s)
      BY <2>3 DEF OneOf, Branches
    <3>5. t \in Reached(root, "bags")
      BY <1>2, <1>5, <3>4, BagStep DEF Children
    <3>6. <<w, t>> \in Applied(w, s, root)
      BY <1>5, <3>4, AppliedHas
    <3>7. found[<<w, t>>] = {}
      BY <3>3
    <3> HIDE DEF t
    <3>8. AcceptedAt(v, root, depth + 1, w, t)
      BY <1>1, <3>6, <3>7, AcceptedBelow DEF found
    <3> QED BY <1>1, <3>5, <3>8
  <2>4. CASE ~Has(s, "oneOf") /\ AllOf(s) # {}
    <3>1. DenyValues \in AllOf(s)
      BY <1>2, <2>4 DEF BagsPassed
    <3>2. found[<<w, DenyValues>>] = {}
      BY <2>1, <2>4, <3>1, OrdinaryFinds
    <3>3. <<w, DenyValues>> \in Applied(w, s, root)
      BY <1>5, <3>1, AppliedHas
    <3>4. AcceptedAt(v, root, depth + 1, w, DenyValues)
      BY <1>1, <3>2, <3>3, AcceptedBelow DEF found
    <3>5. Nested(w) = {}
      BY <1>1, <3>4, ListHolds DEF DenyValues
    <3> QED BY <3>5 DEF Settled
  <2>5. CASE ~Has(s, "enum") /\ ~Has(s, "oneOf") /\ AllOf(s) = {}
    <3>1. {"ref", "const", "enum", "oneOf", "type"} \intersect DOMAIN s # {}
      BY <1>2, <2>5 DEF BagsPassed, Legible
    <3>2. Has(s, "type")
      BY <1>5, <2>5, <3>1 DEF Has
    <3>3. TypeMatches(w, s.type)
      BY <2>1, <3>2, OrdinaryFinds
    <3>4. w.type \in s.type \/ w.type \notin {"object", "array"}
      BY <3>3 DEF TypeMatches
    <3>5. CASE w.type \in s.type
      BY <1>5, <2>5, <3>2, <3>5 DEF Settled, Plain
    <3>6. CASE w.type \notin {"object", "array"}
      BY <3>6, NothingNested DEF Settled
    <3> QED BY <3>4, <3>5, <3>6
  <2> QED BY <2>2, <2>3, <2>4, <2>5
<1> QED BY <1>3, <1>4, <1>5

LEMMA HeldIsSettled ==
    ASSUME NEW v, NEW root, BagsPassed(root), NEW w, Held(v, root, w)
    PROVE  Settled(v, root, w)
<1> DEFINE bags == Reached(root, "bags")
           settled == {n \in 0..Deepest :
                        \A s \in bags : AcceptedAt(v, root, Deepest - n, w, s) => Settled(v, root, w)}
<1>1. Deepest \in Nat /\ Deepest - 0 = Deepest
  BY DepthAssumption DEF Deepest
<1>2. Inductive(Deepest, settled)
  <2>1. 0 \in settled
    <3>1. \A s : ~AcceptedAt(v, root, Deepest, w, s)
      BY FoundDeepest DEF AcceptedAt
    <3> QED BY <1>1, <3>1
  <2>2. ASSUME NEW n \in 1..Deepest, n - 1 \in settled PROVE n \in settled
    <3> DEFINE here == Deepest - n
    <3>1. here \in 0..Deepest /\ here + 1 = Deepest - (n - 1) /\ n \in 0..Deepest
      BY <1>1
    <3>2. \A s \in bags : AcceptedAt(v, root, here + 1, w, s) => Settled(v, root, w)
      <4> HIDE DEF bags
      <4> QED BY <2>2, <3>1
    <3> HIDE DEF here
    <3>3. ASSUME NEW s \in bags, AcceptedAt(v, root, here, w, s) PROVE Settled(v, root, w)
      BY <3>1, <3>2, <3>3, SettledStep
    <3> QED BY <3>1, <3>3 DEF here
  <2> QED BY <2>1, <2>2 DEF Inductive
<1>3. PICK depth \in 0..Deepest, s \in bags : AcceptedAt(v, root, depth, w, s)
  BY DEF Held
<1>4. Deepest - depth \in 0..Deepest /\ Deepest - (Deepest - depth) = depth
  BY <1>1
<1>5. Deepest - depth \in settled
  <2> HIDE DEF settled
  <2> QED BY <1>1, <1>2, <1>4, LineByLine
<1> HIDE DEF bags
<1> QED BY <1>3, <1>4, <1>5

\* What an accepted object says of each of its keys.
LEMMA ObjectFinds ==
    ASSUME NEW w, NEW s, NEW found, ObjectErrors(w, s, found) = {}, NEW k \in Keys(w)
    PROVE  /\ ~Unexpected(s, k)
           /\ Has(s, "propertyNames") => found[<<KeyValue(k), s.propertyNames>>] = {}
           /\ \A sub \in KeySchema(s, k) : found[<<w.fields[k], sub>>] = {}
<1> DEFINE rules == [
        maxProperties |-> Has(s, "maxProperties") /\ Cardinality(Keys(w)) > s.maxProperties,
        minProperties |-> Has(s, "minProperties") /\ Cardinality(Keys(w)) < s.minProperties,
        propertyNames |-> Has(s, "propertyNames")
                            /\ \E key \in Keys(w) : found[<<KeyValue(key), s.propertyNames>>] # {},
        unexpected |-> \E key \in Keys(w) : Unexpected(s, key),
        required |-> Has(s, "required") /\ ~(s.required \subseteq Keys(w))]
           Inner(key) == {found[<<w.fields[key], sub>>] : sub \in KeySchema(s, key)}
           values == {UNION Inner(key) : key \in Keys(w)}
<1>1. ObjectErrors(w, s, found) = Broken(rules) \union (UNION values)
  BY DEF ObjectErrors
<1>2. {"propertyNames", "unexpected"} \subseteq DOMAIN rules
  OBVIOUS
<1>3. /\ rules["propertyNames"] <=> Has(s, "propertyNames")
                            /\ \E key \in Keys(w) : found[<<KeyValue(key), s.propertyNames>>] # {}
      /\ rules["unexpected"] <=> \E key \in Keys(w) : Unexpected(s, key)
  BY Zenon
<1>4. \A sub \in KeySchema(s, k) : found[<<w.fields[k], sub>>] \in Inner(k)
  OBVIOUS
<1> HIDE DEF rules, Inner
<1>5. UNION Inner(k) \in values
  OBVIOUS
<1> HIDE DEF values
<1>6. Broken(rules) = {} /\ UNION values = {}
  BY <1>1
<1>7. ~rules["propertyNames"] /\ ~rules["unexpected"]
  BY <1>2, <1>6, NothingBroken
<1>8. \A x \in Inner(k) : x = {}
  BY <1>5, <1>6, UnionOfNothing
<1>9. \A sub \in KeySchema(s, k) : found[<<w.fields[k], sub>>] = {}
  BY <1>4, <1>8, Zenon
<1> QED BY <1>3, <1>7, <1>9, Zenon

LEMMA ArrayFinds ==
    ASSUME NEW w, NEW s, NEW found, ArrayErrors(w, s, found) = {}, Has(s, "items"), NEW i \in Places(w)
    PROVE  found[<<w.items[i], s.items>>] = {}
<1> DEFINE values == {found[<<w.items[j], s.items>>] : j \in IF Has(s, "items") THEN Places(w) ELSE {}}
<1>1. UNION values = {}
  BY DEF ArrayErrors
<1>2. found[<<w.items[i], s.items>>] \in values
  OBVIOUS
<1> HIDE DEF values
<1> QED BY <1>1, <1>2, UnionOfNothing

\* An object in a bag: each key of the writer's own is held to the deny-lists.
LEMMA BagIsGuarded ==
    ASSUME NEW root, BagsPassed(root), NEW s \in Reached(root, "bags"), Plain(s), "object" \in s.type,
           NEW k, ~Declares(s, k), ~Unexpected(s, k)
    PROVE  /\ Has(s, "propertyNames") /\ s.propertyNames = DenyNames
           /\ KeySchema(s, k) = {DenyValues}
<1>1. s \in Subschemas(root)
  BY BagsAreSubschemas DEF BagsPassed
<1>2. ~Has(s, "patternProperties")
  BY <1>1 DEF BagsPassed, Legible
<1>3. Matching(s, k) = {}
  BY <1>2 DEF Matching, Branches
<1>4. ~Has(s, "closed")
  BY <1>3 DEF Unexpected
<1>5. s \in OpenValueBags(root)
  BY <1>4 DEF OpenValueBags, IsOpen, Plain
<1>6. BagErrors(s) = {}
  <2> DEFINE errors == {BagErrors(bag) : bag \in OpenValueBags(root)}
             texts == UNION {Broken([text |-> DenyValues \notin AllOf(field)])
                             : field \in FreeTextFields(root)}
  <2>1. PersonalDataErrors(root) =
            IF ~ListPresent(root, "denyNames") \/ ~ListPresent(root, "denyValues") THEN {"no list"}
            ELSE (UNION errors) \union texts
    BY DEF PersonalDataErrors
  <2>2. BagErrors(s) \in errors
    BY <1>5
  <2> HIDE DEF errors, texts
  <2>3. UNION errors = {}
    BY <2>1 DEF BagsPassed
  <2> QED BY <2>2, <2>3, UnionOfNothing
<1>7. /\ Has(s, "propertyNames") /\ s.propertyNames = DenyNames
      /\ Has(s, "additional") /\ s.additional = DenyValues
  <2> DEFINE rules == [
        names |-> ~Has(s, "propertyNames") \/ s.propertyNames # DenyNames,
        values |-> ~Has(s, "additional") \/ s.additional # DenyValues]
  <2>1. BagErrors(s) = Broken(rules)
    BY DEF BagErrors
  <2>2. DOMAIN rules = {"names", "values"}
    OBVIOUS
  <2>3. /\ rules["names"] <=> ~Has(s, "propertyNames") \/ s.propertyNames # DenyNames
        /\ rules["values"] <=> ~Has(s, "additional") \/ s.additional # DenyValues
    BY Zenon
  <2> HIDE DEF rules
  <2>4. ~rules["names"] /\ ~rules["values"]
    BY <1>6, <2>1, <2>2, NothingBroken
  <2> QED BY <2>3, <2>4
<1> QED BY <1>3, <1>7 DEF KeySchema

\* What stands in a part that is held to the schema is held to it too.
LEMMA HeldInside ==
    ASSUME NEW v, NEW root, BagsPassed(root), NEW w, Held(v, root, w), NEW x \in Nested(w)
    PROVE  Held(v, root, x)
<1>1. PICK depth \in 0..Deepest, s \in Reached(root, "bags") :
            AcceptedAt(v, root, depth, w, s) /\ Plain(s) /\ w.type \in s.type
  BY HeldIsSettled DEF Settled
<1> DEFINE found == FoundBelow(v, root, depth)
<1>2. /\ depth \in 0..MaxSchemaDepth /\ depth + 1 \in 0..Deepest
      /\ OrdinaryErrors(w, s, found) = {}
  BY <1>1, AcceptedHere, AcceptedOrdinary DEF Plain
<1>3. Children(s) \subseteq Reached(root, "bags") /\ s \in Subschemas(root)
  BY <1>1, BagStep, BagsAreSubschemas DEF BagsPassed, Plain
<1> HIDE DEF found
<1>4. ASSUME NEW sub \in Children(s), <<x, sub>> \in Applied(w, s, root), found[<<x, sub>>] = {}
      PROVE  Held(v, root, x)
  <2>1. AcceptedAt(v, root, depth + 1, x, sub)
    BY <1>1, <1>2, <1>4, AcceptedBelow DEF found
  <2> QED BY <1>2, <1>3, <2>1 DEF Held
<1>5. CASE \E k \in Keys(w) : x = w.fields[k]
  <2>1. PICK k \in Keys(w) : x = w.fields[k]
    BY <1>5
  <2>2. w.type = "object"
    BY DEF Keys
  <2>3. ObjectErrors(w, s, found) = {}
    BY <1>1, <1>2, <2>2, OrdinaryFinds DEF Plain
  <2>4. ~Unexpected(s, k) /\ \A sub \in KeySchema(s, k) : found[<<x, sub>>] = {}
    BY <2>1, <2>3, ObjectFinds
  <2>5. PICK sub : sub \in KeySchema(s, k)
    <3>1. CASE Declares(s, k)
      BY <3>1 DEF KeySchema
    <3>2. CASE ~Declares(s, k)
      <4>1. KeySchema(s, k) = {DenyValues}
        BY <1>1, <2>2, <2>4, <3>2, BagIsGuarded
      <4> QED BY <4>1
    <3> QED BY <3>1, <3>2
  <2>6. sub \in Children(s)
    BY <2>5, KeySchemaIsChild
  <2>7. <<x, sub>> \in Applied(w, s, root)
    BY <1>1, <2>1, <2>5, AppliedHas DEF Plain
  <2> QED BY <1>4, <2>4, <2>5, <2>6, <2>7
<1>6. CASE \E i \in Places(w) : x = w.items[i]
  <2>1. PICK i \in Places(w) : x = w.items[i]
    BY <1>6
  <2>2. w.type = "array"
    BY DEF Places
  <2>3. ArrayErrors(w, s, found) = {}
    BY <1>1, <1>2, <2>2, OrdinaryFinds DEF Plain
  <2>4. Has(s, "items")
    BY <1>1, <1>3, <2>2 DEF BagsPassed, Legible, Plain
  <2>5. found[<<x, s.items>>] = {}
    BY <2>1, <2>3, <2>4, ArrayFinds
  <2>6. s.items \in Children(s)
    BY <2>4 DEF Children
  <2>7. <<x, s.items>> \in Applied(w, s, root)
    BY <1>1, <2>1, <2>4, AppliedHas DEF Plain
  <2> QED BY <1>4, <2>5, <2>6, <2>7
<1> QED BY <1>5, <1>6 DEF Nested

LEMMA LevelsLead ==
    ASSUME NEW v
    PROVE  /\ Levels(v, MaxNesting)[0] = {v}
           /\ \A n \in 1..MaxNesting :
                Levels(v, MaxNesting)[n] = UNION {Nested(part) : part \in Levels(v, MaxNesting)[n - 1]}
<1> DEFINE levels == Levels(v, MaxNesting)
<1>1. LevelReads(v, MaxNesting, levels)
  BY Nesting, SchemaAssumption
<1> HIDE DEF levels
<1>2. levels[0] = {v} /\ \A n \in 1..MaxNesting : levels[n] = UNION {Nested(part) : part \in levels[n - 1]}
  BY <1>1, Zenon DEF LevelReads
<1> QED BY <1>2 DEF levels

\* What is true of a value, and of whatever stands in a part that it is true of, is true
\* of every part.
LEMMA PartsFrom ==
    ASSUME NEW v, NEW good, v \in good, \A w \in good : Nested(w) \intersect Parts(v) \subseteq good
    PROVE  Parts(v) \subseteq good
<1> DEFINE levels == Levels(v, MaxNesting)
           ok == {n \in 0..MaxNesting : levels[n] \subseteq good}
<1>0. MaxNesting \in Nat
  BY SchemaAssumption
<1>1. levels[0] = {v} /\ \A n \in 1..MaxNesting : levels[n] = UNION {Nested(part) : part \in levels[n - 1]}
  BY LevelsLead
<1>2. Parts(v) = UNION {levels[n] : n \in 0..MaxNesting}
  BY DEF Parts
<1> HIDE DEF levels
<1>3. \A n \in 0..MaxNesting : levels[n] \subseteq Parts(v)
  BY <1>2
<1>4. Inductive(MaxNesting, ok)
  <2>1. 0 \in ok
    BY <1>0, <1>1
  <2>2. ASSUME NEW n \in 1..MaxNesting, n - 1 \in ok PROVE n \in ok
    <3> DEFINE before == levels[n - 1]
    <3>1. before \subseteq good /\ levels[n] = UNION {Nested(part) : part \in before}
      BY <1>1, <2>2
    <3>2. n \in 0..MaxNesting /\ levels[n] \subseteq Parts(v)
      BY <1>0, <1>3
    <3> HIDE DEF before
    <3>3. levels[n] \subseteq good
      BY <3>1, <3>2
    <3> QED BY <3>2, <3>3
  <2> QED BY <2>1, <2>2 DEF Inductive
<1>5. 0..MaxNesting \subseteq ok
  <2> HIDE DEF ok
  <2> QED BY <1>0, <1>4, LineByLine
<1> QED BY <1>2, <1>5

LEMMA PartsAreHeld ==
    ASSUME NEW v, NEW root, BagsPassed(root), Valid(v, root), NEW part \in Parts(v)
    PROVE  Held(v, root, part)
<1> DEFINE good == {w \in Parts(v) \union {v} : Held(v, root, w)}
<1>1. Held(v, root, v)
  <2>1. 0 \in 0..Deepest /\ <<v, root>> \in Calls(v, root)[0]
    BY CallsLead, DepthAssumption DEF Deepest
  <2>2. root \in Reached(root, "bags")
    BY WalksEnd DEF BagsPassed
  <2> QED BY <2>1, <2>2 DEF Held, AcceptedAt, Valid
<1>2. \A w \in good : Nested(w) \intersect Parts(v) \subseteq good
  BY HeldInside
<1>3. v \in good
  BY <1>1
<1>4. Parts(v) \subseteq good
  <2> HIDE DEF good
  <2> QED BY <1>2, <1>3, PartsFrom
<1> QED BY <1>4

LEMMA NoPartsInside ==
    ASSUME NEW w, Nested(w) = {}, NEW x \in Parts(w)
    PROVE  x = w
<1>1. Parts(w) \subseteq {w}
  BY PartsFrom
<1> QED BY <1>1

\* The gate closes every bag it can see.
LEMMA BagsAreClosed ==
    ASSUME NEW v, NEW root, BagsPassed(root)
    PROVE  Valid(v, root) => \A part \in Parts(v) : \A k \in Keys(part) \ NamedKeys(root) :
            /\ Clear(root, "denyNames", k)
            /\ \A x \in Parts(part.fields[k]) : x.type = "string" => Clear(root, "denyValues", x.word)
<1>1. SUFFICES ASSUME Valid(v, root), NEW w \in Parts(v), NEW k \in Keys(w) \ NamedKeys(root)
               PROVE  /\ Clear(root, "denyNames", k)
                      /\ \A x \in Parts(w.fields[k]) : x.type = "string" => Clear(root, "denyValues", x.word)
  OBVIOUS
<1>2. Held(v, root, w)
  BY <1>1, PartsAreHeld
<1>3. w.fields[k] \in Nested(w) /\ w.type = "object"
  BY DEF Nested, Keys
<1>4. PICK depth \in 0..Deepest, s \in Reached(root, "bags") :
            AcceptedAt(v, root, depth, w, s) /\ Plain(s) /\ w.type \in s.type
  BY <1>2, <1>3, HeldIsSettled DEF Settled
<1> DEFINE found == FoundBelow(v, root, depth)
           x == w.fields[k]
<1>5. /\ depth \in 0..MaxSchemaDepth /\ depth + 1 \in 0..Deepest
      /\ OrdinaryErrors(w, s, found) = {}
  BY <1>4, AcceptedHere, AcceptedOrdinary DEF Plain
<1>6. ObjectErrors(w, s, found) = {}
  BY <1>3, <1>4, <1>5, OrdinaryFinds DEF Plain
<1>7. ~Declares(s, k)
  <2>1. s \in Subschemas(root)
    BY BagsAreSubschemas DEF BagsPassed
  <2> QED BY <2>1 DEF NamedKeys, Declares
<1>8. /\ ~Unexpected(s, k)
      /\ Has(s, "propertyNames") => found[<<KeyValue(k), s.propertyNames>>] = {}
      /\ \A sub \in KeySchema(s, k) : found[<<x, sub>>] = {}
  BY <1>6, ObjectFinds
<1>9. Has(s, "propertyNames") /\ s.propertyNames = DenyNames /\ KeySchema(s, k) = {DenyValues}
  BY <1>3, <1>4, <1>7, <1>8, BagIsGuarded
<1>10. AcceptedAt(v, root, depth + 1, KeyValue(k), DenyNames)
  <2>1. <<KeyValue(k), DenyNames>> \in Applied(w, s, root)
    BY <1>4, <1>9, AppliedHas DEF Plain
  <2>2. found[<<KeyValue(k), DenyNames>>] = {}
    BY <1>8, <1>9
  <2> QED BY <1>4, <1>5, <2>1, <2>2, AcceptedBelow
<1>11. AcceptedAt(v, root, depth + 1, x, DenyValues)
  <2>1. <<x, DenyValues>> \in Applied(w, s, root)
    BY <1>4, <1>9, AppliedHas DEF Plain
  <2>2. found[<<x, DenyValues>>] = {}
    BY <1>8, <1>9
  <2> QED BY <1>4, <1>5, <2>1, <2>2, AcceptedBelow
<1>12. Clear(root, "denyNames", k)
  <2>1. KeyValue(k).type = "string" /\ KeyValue(k).word = k
    BY DEF KeyValue, Value
  <2> QED BY <1>5, <1>10, <2>1, ListHolds DEF DenyNames
<1>13. Nested(x) = {} /\ (x.type = "string" => Clear(root, "denyValues", x.word))
  BY <1>5, <1>11, ListHolds DEF DenyValues
<1> QED BY <1>12, <1>13, NoPartsInside

SchemaKept == schema \in Schema

\* For every schema a release may ship and however a record is edited, the validator's
\* verdict is the schema's own (schema_validate.py), and a schema the personal-data gate of
\* doccheck.py passed keeps denied keys and denied values out of every bag.
THEOREM VerdictIsSound == SchemaSpec => []SchemaVerdict
<1>1. SchemaInit => SchemaKept
  BY DEF SchemaInit, SchemaKept
<1>2. SchemaKept /\ [SchemaNext]_schemaVars => SchemaKept'
  BY DEF SchemaKept, SchemaNext, Mutate, schemaVars
<1>3. SchemaKept => SchemaVerdict
  <2> SUFFICES ASSUME SchemaKept PROVE SchemaVerdict
    OBVIOUS
  <2>1. VerdictIsTheSchema
    BY VerdictIsExact DEF SchemaKept, VerdictIsTheSchema
  <2>2. GateClosesBags
    <3>1. SUFFICES ASSUME BagsPassed(schema) PROVE KeepsOut(schema)
      BY DEF GateClosesBags, BagsPassed, SchemaKept
    <3> QED BY <3>1, BagsAreClosed, Zenon DEF KeepsOut
  <2> QED BY <2>1, <2>2 DEF SchemaVerdict
<1> QED BY <1>1, <1>2, <1>3, PTL DEF SchemaSpec

-----------------------------------------------------------------------------
(* Replay traces. *)

\* So what Sums chooses adds up.
LEMMA SumsAre ==
    ASSUME NEW numbers \in Seq(Int)
    PROVE  Partial(numbers, Len(numbers), Sums(numbers))
<1>1. PICK sum : Partial(numbers, Len(numbers), sum)
  BY PartialSums
<1>2. AddsUp(numbers, sum)
  BY <1>1 DEF Partial, AddsUp
<1>3. AddsUp(numbers, Sums(numbers))
  BY <1>2, Zenon DEF Sums, AddsUp
<1> QED BY <1>3, AddedUp

\* Sums of no larger numbers are no larger.
LEMMA SumsGrow ==
    ASSUME NEW fewer \in Seq(Int), NEW more \in Seq(Int), Len(fewer) = Len(more),
           \A i \in DOMAIN fewer : fewer[i] <= more[i]
    PROVE  Sums(fewer)[Len(fewer)] <= Sums(more)[Len(more)]
<1> DEFINE less == Sums(fewer)  full == Sums(more)
<1>1. Partial(fewer, Len(fewer), less) /\ Partial(more, Len(more), full)
  BY SumsAre
<1> HIDE DEF less, full
<1> DEFINE Odd == {n \in 0..Len(fewer) : ~(less[n] <= full[n])}
<1>2. Odd = {}
  <2>1. SUFFICES ASSUME Odd # {} PROVE FALSE
    OBVIOUS
  <2>2. PICK n \in Odd : \A j \in Odd : n <= j
    <3>1. Odd \in SUBSET Nat
      OBVIOUS
    <3> HIDE DEF Odd
    <3> QED BY <2>1, <3>1, LeastOf
  <2>3. n # 0
    BY <1>1 DEF Partial
  <2>4. n - 1 \in 0..Len(fewer) /\ less[n - 1] <= full[n - 1]
    BY <2>2, <2>3
  <2>5. less[n] = less[n - 1] + fewer[n] /\ full[n] = full[n - 1] + more[n]
    BY <1>1, <2>3 DEF Partial
  <2>6. fewer[n] <= more[n] /\ fewer[n] \in Int /\ more[n] \in Int
    BY <2>3
  <2>7. less[n - 1] \in Int /\ full[n - 1] \in Int
    BY <1>1, <2>4 DEF Partial
  <2>8. ~(less[n] <= full[n])
    BY <2>2
  <2> HIDE DEF Odd
  <2> DEFINE a == less[n - 1]  b == full[n - 1]  c == fewer[n]  d == more[n]
  <2>9. a \in Int /\ b \in Int /\ c \in Int /\ d \in Int /\ a <= b /\ c <= d
    BY <2>4, <2>6, <2>7
  <2>10. ~(a + c <= b + d)
    BY <2>5, <2>8
  <2> HIDE DEF a, b, c, d
  <2> QED BY <2>9, <2>10
<1>3. less[Len(fewer)] <= full[Len(fewer)]
  BY <1>2
<1> QED BY <1>3 DEF less, full

-----------------------------------------------------------------------------
(* An edited trace is made of what a trace is made of. *)

LEMMA EventPut ==
    ASSUME NEW event \in EventType, NEW e \in EventEdit
    PROVE  [event EXCEPT ![e[1]] = e[2]] \in EventType
<1>1. e[1] \in {"sequence", "tick", "claimed", "limit"} /\ e[2] \in Quantity
  BY TraceAssumption
<1> QED BY <1>1 DEF EventType

LEMMA BudgetPut ==
    ASSUME NEW budget \in BudgetType, NEW e \in BudgetEdit
    PROVE  [budget EXCEPT ![e[1]] = e[2]] \in BudgetType
<1>1. e[1] \in {"events", "work"} /\ e[2] \in Quantity
  BY TraceAssumption
<1> QED BY <1>1 DEF BudgetType

LEMMA ClockPut ==
    ASSUME NEW clock \in ClockType, NEW e \in ClockEdit
    PROVE  [clock EXCEPT ![e[1]] = e[2]] \in ClockType
<1>1. \/ e[1] = "start" /\ e[2] \in STRING
      \/ e[1] = "ms" /\ e[2] \in Quantity
      \/ e[1] = "fingerprint" /\ e[2] \in {ZeroDigest, Ill}
  BY TraceAssumption
<1> QED BY <1>1 DEF ClockType

LEMMA ExpectPut ==
    ASSUME NEW expect \in ExpectType, NEW e \in ExpectEdit
    PROVE  [expect EXCEPT ![e[1]] = e[2]] \in ExpectType
<1>1. \/ e[1] = "findings" /\ e[2] \in Seq(STRING) \union {Ill}
      \/ e[1] = "actions" /\ e[2] \in (SUBSET STRING) \union {Ill}
      \/ e[1] = "work" /\ e[2] \in Quantity
  BY TraceAssumption
<1> QED BY <1>1 DEF ExpectType

LEMMA CasePut ==
    ASSUME NEW case \in CaseType, NEW e \in CaseEdit
    PROVE  [case EXCEPT ![e[1]] = e[2]] \in CaseType
<1>1. \/ e[1] = "class" /\ e[2] \in Word
      \/ e[1] = "events" /\ e[2] = Ill
      \/ e[1] = "expect" /\ e[2] = Ill
  BY TraceAssumption
<1> QED BY <1>1 DEF CaseType

LEMMA HeaderPut ==
    ASSUME trace \in TraceType, NEW e \in HeaderEdit
    PROVE  [trace EXCEPT ![e[1]] = e[2]] \in TraceType
<1>1. \/ e[1] = "detectorId" /\ e[2] \in Word
      \/ e[1] = "build" /\ e[2] \in Word \union {NaN}
      \/ e[1] = "seed" /\ e[2] \in Quantity
      \/ e[1] = "cases" /\ e[2] = Ill
      \/ e[1] = "workBudget" /\ e[2] = Ill
      \/ e[1] = "determinism" /\ e[2] = Ill
  BY TraceAssumption
<1> QED BY <1>1 DEF TraceType

\* A case, its expectation or its events rewritten in place.
LEMMA CaseRewritten ==
    ASSUME trace \in TraceType, trace.cases # Ill, NEW i \in DOMAIN trace.cases,
           NEW case \in CaseType
    PROVE  [trace EXCEPT !.cases[i] = case] \in TraceType
<1>1. trace.cases \in Seq(CaseType)
  BY DEF TraceType
<1>2. [trace.cases EXCEPT ![i] = case] \in Seq(CaseType)
  BY <1>1
<1>3. [trace EXCEPT !.cases = [trace.cases EXCEPT ![i] = case]] \in TraceType
  BY <1>2 DEF TraceType
<1> QED BY <1>3

LEMMA HeaderKeeps == ASSUME trace \in TraceType, EditHeader PROVE trace' \in TraceType
<1>1. CASE \E e \in HeaderEdit : PutTrace([trace EXCEPT ![e[1]] = e[2]])
  BY <1>1, HeaderPut DEF PutTrace
<1>2. ASSUME trace.workBudget # Ill, NEW e \in BudgetEdit,
             PutTrace([trace EXCEPT !.workBudget[e[1]] = e[2]])
      PROVE  trace' \in TraceType
  <2> DEFINE budget == [trace.workBudget EXCEPT ![e[1]] = e[2]]
  <2>1. budget \in BudgetType
    BY <1>2, BudgetPut DEF TraceType
  <2>2. trace' = [trace EXCEPT !.workBudget = budget]
    BY <1>2 DEF PutTrace
  <2> HIDE DEF budget
  <2> QED BY <2>1, <2>2 DEF TraceType
<1> QED BY <1>1, <1>2 DEF EditHeader

LEMMA ClockKeeps == ASSUME trace \in TraceType, EditClock PROVE trace' \in TraceType
<1>1. PICK e \in ClockEdit : PutTrace([trace EXCEPT !.determinism[e[1]] = e[2]])
  BY DEF EditClock
<1> DEFINE clock == [trace.determinism EXCEPT ![e[1]] = e[2]]
<1>2. clock \in ClockType
  BY ClockPut DEF TraceType, EditClock
<1>3. trace' = [trace EXCEPT !.determinism = clock]
  BY <1>1 DEF PutTrace
<1> HIDE DEF clock
<1> QED BY <1>2, <1>3 DEF TraceType

LEMMA CaseKeeps == ASSUME trace \in TraceType, EditCase PROVE trace' \in TraceType
<1>1. PICK i \in DOMAIN trace.cases :
        \/ PutTrace([trace EXCEPT !.cases = RemoveAt(@, i)])
        \/ \E e \in CaseEdit : PutTrace([trace EXCEPT !.cases[i][e[1]] = e[2]])
        \/ /\ trace.cases[i].expect # Ill
           /\ \E e \in ExpectEdit : PutTrace([trace EXCEPT !.cases[i].expect[e[1]] = e[2]])
  BY DEF EditCase
<1>2. trace.cases # Ill /\ trace.cases \in Seq(CaseType) /\ trace.cases[i] \in CaseType
  BY DEF EditCase, TraceType
<1>3. CASE PutTrace([trace EXCEPT !.cases = RemoveAt(@, i)])
  <2>1. RemoveAt(trace.cases, i) \in Seq(CaseType)
    BY <1>2, Removed
  <2>2. trace' = [trace EXCEPT !.cases = RemoveAt(trace.cases, i)]
    BY <1>3 DEF PutTrace
  <2> QED BY <2>1, <2>2 DEF TraceType
<1>4. ASSUME NEW e \in CaseEdit, PutTrace([trace EXCEPT !.cases[i][e[1]] = e[2]])
      PROVE  trace' \in TraceType
  <2> DEFINE case == [trace.cases[i] EXCEPT ![e[1]] = e[2]]
  <2>1. case \in CaseType
    BY <1>2, CasePut
  <2>2. trace' = [trace EXCEPT !.cases[i] = case]
    BY <1>4 DEF PutTrace
  <2> HIDE DEF case
  <2> QED BY <1>2, <2>1, <2>2, CaseRewritten
<1>5. ASSUME trace.cases[i].expect # Ill, NEW e \in ExpectEdit,
             PutTrace([trace EXCEPT !.cases[i].expect[e[1]] = e[2]])
      PROVE  trace' \in TraceType
  <2> DEFINE expect == [trace.cases[i].expect EXCEPT ![e[1]] = e[2]]
             case == [trace.cases[i] EXCEPT !.expect = expect]
  <2>1. expect \in ExpectType
    BY <1>2, <1>5, ExpectPut DEF CaseType
  <2>2. trace' = [trace EXCEPT !.cases[i] = case]
    BY <1>5 DEF PutTrace
  <2> HIDE DEF expect
  <2>3. case \in CaseType
    BY <1>2, <2>1 DEF CaseType
  <2> HIDE DEF case
  <2> QED BY <1>2, <2>2, <2>3, CaseRewritten
<1> QED BY <1>1, <1>3, <1>4, <1>5

LEMMA EventKeeps == ASSUME trace \in TraceType, EditEvent PROVE trace' \in TraceType
<1> DEFINE Put(i, events) == PutTrace([trace EXCEPT !.cases[i].events = events])
<1>1. PICK i \in DOMAIN trace.cases :
        /\ trace.cases[i].events \notin {Ill, <<>>}
        /\ LET events == trace.cases[i].events
           IN  \/ \E e \in EventEdit : Put(i, <<[Head(events) EXCEPT ![e[1]] = e[2]]>> \o Tail(events))
               \/ \E e \in EventEdit : Put(i, Append(events, [Last(events) EXCEPT ![e[1]] = e[2]]))
               \/ Put(i, Front(events))
  BY DEF EditEvent
<1>2. trace.cases # Ill /\ trace.cases \in Seq(CaseType) /\ trace.cases[i] \in CaseType
  BY DEF EditEvent, TraceType
<1> DEFINE events == trace.cases[i].events
<1>3. events \in Seq(EventType) /\ events # <<>>
  BY <1>1, <1>2 DEF CaseType
<1>4. ASSUME NEW others \in Seq(EventType), Put(i, others) PROVE trace' \in TraceType
  <2> DEFINE case == [trace.cases[i] EXCEPT !.events = others]
  <2>1. case \in CaseType
    BY <1>2 DEF CaseType
  <2>2. trace' = [trace EXCEPT !.cases[i] = case]
    BY <1>4 DEF PutTrace
  <2> HIDE DEF case
  <2> QED BY <1>2, <2>1, <2>2, CaseRewritten
<1> HIDE DEF events, Put
<1>5. ASSUME NEW e \in EventEdit
      PROVE  /\ <<[Head(events) EXCEPT ![e[1]] = e[2]]>> \o Tail(events) \in Seq(EventType)
             /\ Append(events, [Last(events) EXCEPT ![e[1]] = e[2]]) \in Seq(EventType)
  <2>1. Head(events) \in EventType /\ Last(events) \in EventType /\ Tail(events) \in Seq(EventType)
    BY <1>3 DEF Last
  <2> DEFINE first == [Head(events) EXCEPT ![e[1]] = e[2]]
             last == [Last(events) EXCEPT ![e[1]] = e[2]]
  <2>2. first \in EventType /\ last \in EventType
    BY <2>1, EventPut
  <2> HIDE DEF first, last
  <2>3. <<first>> \o Tail(events) \in Seq(EventType) /\ Append(events, last) \in Seq(EventType)
    BY <1>3, <2>1, <2>2
  <2> QED BY <2>3 DEF first, last
<1>6. Front(events) \in Seq(EventType)
  BY <1>3 DEF Front
<1> QED BY <1>1, <1>4, <1>5, <1>6 DEF events

LEMMA OutcomeIsOne ==
    ASSUME trace \in TraceType, trace.determinism # Ill, trace.cases # Ill
    PROVE  Outcome(trace) \in OutcomeType
<1>1. trace.determinism \in ClockType /\ trace.cases \in Seq(CaseType)
  BY DEF TraceType
<1>2. \A i \in DOMAIN trace.cases : Expect(trace.cases[i]) \in ExpectType
  <2> TAKE i \in DOMAIN trace.cases
  <2>1. trace.cases[i] \in CaseType
    BY <1>1
  <2>2. CASE trace.cases[i].expect = Ill
    <3>1. [findings |-> Ill, actions |-> Ill, work |-> Ill] \in ExpectType
      BY DEF ExpectType, Quantity
    <3> QED BY <2>2, <3>1 DEF Expect
  <2>3. CASE trace.cases[i].expect # Ill
    BY <2>1, <2>3 DEF Expect, CaseType
  <2> QED BY <2>2, <2>3
<1> DEFINE header == <<trace.build, trace.detectorId, trace.seed, trace.workBudget>>
           clock == <<trace.determinism.start, trace.determinism.ms>>
           cases == [i \in DOMAIN trace.cases |-> <<trace.cases[i].class, Expect(trace.cases[i])>>]
<1>3. header \in (Word \union {NaN}) \X Word \X Quantity \X (BudgetType \union {Ill})
  BY DEF TraceType
<1>4. clock \in STRING \X Quantity
  BY <1>1 DEF ClockType
<1>5. \A i \in DOMAIN trace.cases : trace.cases[i].class \in Word
  <2>1. \A i \in DOMAIN trace.cases : trace.cases[i] \in CaseType
    BY <1>1
  <2> QED BY <2>1 DEF CaseType
<1>6. cases \in Seq(Word \X ExpectType)
  BY <1>1, <1>2, <1>5
<1>7. Outcome(trace) = [header |-> header, clock |-> clock, cases |-> cases]
  BY DEF Outcome, Projection, Expectations
<1> HIDE DEF header, clock, cases
<1> QED BY <1>3, <1>4, <1>6, <1>7 DEF OutcomeType

LEMMA SealKeeps == ASSUME trace \in TraceType, Seal PROVE trace' \in TraceType
<1>1. trace.determinism # Ill /\ trace.cases # Ill
  BY DEF Seal, Sealable
<1>2. Outcome(trace) \in OutcomeType
  BY <1>1, OutcomeIsOne
<1> DEFINE clock == [trace.determinism EXCEPT !.fingerprint = Outcome(trace)]
<1>3. clock \in ClockType
  BY <1>1, <1>2 DEF TraceType, ClockType
<1>4. trace' = [trace EXCEPT !.determinism = clock]
  BY DEF Seal
<1> HIDE DEF clock
<1> QED BY <1>3, <1>4 DEF TraceType

LEMMA TraceInductive == TraceSpec => [](trace \in TraceType)
<1>1. TraceInit => trace \in TraceType
  BY TraceAssumption DEF TraceInit
<1>2. trace \in TraceType /\ [TraceNext]_traceVars => (trace \in TraceType)'
  BY HeaderKeeps, ClockKeeps, CaseKeeps, EventKeeps, SealKeeps
     DEF TraceNext, TraceEdit, SealRefused, traceVars
<1> QED BY <1>1, <1>2, PTL DEF TraceSpec

-----------------------------------------------------------------------------
(* What the checker and the schema together make sure of. *)

LEMMA NoContractErrors ==
    ASSUME Accepted(trace)
    PROVE  /\ \A case \in Range(trace.cases) : CaseErrors(case, trace.detectorId) = {}
           /\ DeterminismErrors(trace) = {}
           /\ BudgetErrors(trace.workBudget, Charged(trace.cases, DOMAIN trace.cases, CaseEvents),
                           Charged(trace.cases, DOMAIN trace.cases, CaseWork)) = {}
           /\ {case.class : case \in Range(trace.cases)} \ {Ill} = {"normal", "violation"}
<1> DEFINE rules == [
                unknown |-> trace.detectorId \notin Registered,
                classes |-> {case.class : case \in Range(trace.cases)} \ {Ill} # {"normal", "violation"},
                seed |-> ~(IsInt(trace.seed) /\ trace.seed >= 0)]
           inCases == UNION {CaseErrors(case, trace.detectorId) : case \in Range(trace.cases)}
           budget == BudgetErrors(trace.workBudget, Charged(trace.cases, DOMAIN trace.cases, CaseEvents),
                           Charged(trace.cases, DOMAIN trace.cases, CaseWork))
<1>1. trace.detectorId # Ill /\ trace.cases # Ill
  BY DEF Accepted, SchemaOK
<1>2. ContractErrors(trace) = IF NonFinite(trace) THEN {"nonFinite"} ELSE ReadableErrors(trace)
  BY <1>1 DEF ContractErrors
<1>3. ReadableErrors(trace) = {}
  BY <1>2 DEF Accepted
<1>0. ReadableErrors(trace) = inCases \union DeterminismErrors(trace) \union budget \union Broken(rules)
  BY Zenon DEF ReadableErrors
<1>4. "classes" \in DOMAIN rules /\ (rules["classes"] =
        ({case.class : case \in Range(trace.cases)} \ {Ill} # {"normal", "violation"}))
  OBVIOUS
<1>5. inCases = {} /\ DeterminismErrors(trace) = {} /\ budget = {} /\ Broken(rules) = {}
  <2> HIDE DEF rules, inCases, budget
  <2> QED BY <1>0, <1>3
<1>6. ~rules["classes"]
  <2> HIDE DEF rules
  <2> QED BY <1>4, <1>5 DEF Broken
<1>7. \A case \in Range(trace.cases) : CaseErrors(case, trace.detectorId) = {}
  BY <1>5
<1> HIDE DEF rules, inCases
<1> QED BY <1>4, <1>5, <1>6, <1>7

\* A case promises what the detector will make of it.
LEMMA CaseHolds ==
    ASSUME NEW case \in CaseType, NEW id, CaseErrors(case, id) = {}, CaseSchemaOK(case)
    PROVE  /\ case.expect.findings =
                IF \E e \in Range(case.events) : e.claimed > e.limit THEN <<id>> ELSE <<>>
           /\ Len(case.expect.findings) = IF case.class = "violation" THEN 1 ELSE 0
<1> DEFINE findings == IF case.expect.findings = Ill THEN <<>> ELSE case.expect.findings
           expected == findings # <<>>
           stack == [
                quantities |-> \E e \in Range(case.events) : ~(IsInt(e.claimed) /\ IsInt(e.limit)),
                disagrees |-> \E e \in Range(case.events) :
                    IsInt(e.claimed) /\ IsInt(e.limit) /\ (e.claimed > e.limit) # expected]
           rules == [
                sequence |-> ~InOrder(case.events, "sequence", Increasing),
                tick |-> ~InOrder(case.events, "tick", NeverDecreasing),
                work |-> ~IsInt(case.expect.work),
                findings |-> case.expect.findings = Ill,
                normal |-> case.class = "normal" /\ findings # <<>>,
                violation |-> case.class = "violation" /\ findings # <<id>>,
                actions |-> case.expect.actions \notin {Ill, {}}]
<1>1. WellShaped(case) /\ case.class \in {"normal", "violation"} /\ case.expect.findings # Ill
  BY DEF CaseSchemaOK
<1>2. Broken(stack) = {} /\ Broken(rules) = {}
  <2>1. CaseErrors(case, id) = StackInvariantErrors(case.events, expected) \union Broken(rules)
    BY <1>1, Zenon DEF CaseErrors
  <2>2. StackInvariantErrors(case.events, expected) = Broken(stack)
    BY Zenon DEF StackInvariantErrors
  <2> HIDE DEF stack, rules, expected
  <2> QED BY <2>1, <2>2
<1>3. ~stack["quantities"] /\ ~stack["disagrees"] /\ ~rules["normal"] /\ ~rules["violation"]
  <2>1. {"quantities", "disagrees"} \subseteq DOMAIN stack /\ {"normal", "violation"} \subseteq DOMAIN rules
    OBVIOUS
  <2> HIDE DEF stack, rules
  <2> QED BY <1>2, <2>1 DEF Broken
<1>4. \A e \in Range(case.events) : (e.claimed > e.limit) = expected
  <2>1. ~\E e \in Range(case.events) : ~(IsInt(e.claimed) /\ IsInt(e.limit))
    BY <1>3, Zenon
  <2>2. ~\E e \in Range(case.events) :
            IsInt(e.claimed) /\ IsInt(e.limit) /\ (e.claimed > e.limit) # expected
    BY <1>3, Zenon
  <2> HIDE DEF expected
  <2> QED BY <2>1, <2>2, Zenon
<1>5. case.class = "normal" => findings = <<>>
  BY <1>3, Zenon
<1>6. case.class = "violation" => findings = <<id>>
  BY <1>3, Zenon
<1>7. PICK e \in Range(case.events) : TRUE
  BY <1>1 DEF CaseSchemaOK, CaseType, WellShaped, Range
<1>8. (\E event \in Range(case.events) : event.claimed > event.limit) <=> expected
  <2> HIDE DEF expected
  <2> QED BY <1>4, <1>7, Zenon
<1>9. findings = case.expect.findings
  BY <1>1
<1> HIDE DEF stack, rules
<1>10. <<id>> # <<>> /\ Len(<<id>>) = 1
  OBVIOUS
<1>11. CASE case.class = "normal"
  BY <1>5, <1>8, <1>9, <1>11
<1>12. CASE case.class = "violation"
  BY <1>6, <1>8, <1>9, <1>10, <1>12
<1> QED BY <1>1, <1>11, <1>12

LEMMA ReplayHolds == ASSUME trace \in TraceType PROVE ReplayReproduces
<1> SUFFICES ASSUME Accepted(trace)
             PROVE  /\ Projection(trace, Replayed(trace)) = trace.determinism.fingerprint
                    /\ {Len(Replayed(trace)[i].findings) : i \in DOMAIN trace.cases} = {0, 1}
  BY DEF ReplayReproduces
<1>1. /\ trace.cases # Ill /\ trace.determinism # Ill /\ trace.cases \in Seq(CaseType)
      /\ \A case \in Range(trace.cases) : CaseSchemaOK(case)
  BY DEF Accepted, SchemaOK, TraceType
<1>2. \A i \in DOMAIN trace.cases :
        /\ trace.cases[i] \in CaseType /\ trace.cases[i] \in Range(trace.cases)
        /\ CaseSchemaOK(trace.cases[i]) /\ CaseErrors(trace.cases[i], trace.detectorId) = {}
  BY <1>1, NoContractErrors DEF Range
<1>3. ASSUME NEW i \in DOMAIN trace.cases PROVE Replayed(trace)[i] = Expect(trace.cases[i])
  <2> DEFINE case == trace.cases[i]
  <2>1. case.expect # Ill /\ case.expect \in ExpectType /\ case.expect.actions = {}
    BY <1>2 DEF CaseSchemaOK, WellShaped, CaseType
  <2>2. case.expect.findings =
            IF \E e \in Range(case.events) : e.claimed > e.limit THEN <<trace.detectorId>> ELSE <<>>
    BY <1>2, CaseHolds
  <2>3. Replayed(trace)[i] =
            [findings |-> case.expect.findings, actions |-> {}, work |-> case.expect.work]
    BY <2>2 DEF Replayed
  <2> HIDE DEF case
  <2>4. [findings |-> case.expect.findings, actions |-> {}, work |-> case.expect.work] = case.expect
    BY <2>1 DEF ExpectType
  <2> QED BY <2>1, <2>3, <2>4 DEF Expect, case
<1>4. Replayed(trace) = Expectations(trace)
  BY <1>3 DEF Replayed, Expectations
<1>5. trace.determinism.fingerprint = Outcome(trace)
  <2> DEFINE rules == [start |-> trace.determinism.start = "bad",
                       ms |-> ~(IsInt(trace.determinism.ms) /\ trace.determinism.ms >= 0),
                       digest |-> trace.determinism.fingerprint = Ill]
             block == Broken(rules)
             last == [fingerprint |-> block = {} /\ trace.determinism.fingerprint # Outcome(trace)]
  <2>1. DeterminismErrors(trace) = block \union Broken(last)
    BY <1>1, Zenon DEF DeterminismErrors
  <2>2. block = {} /\ Broken(last) = {}
    <3> HIDE DEF block, last
    <3> QED BY <2>1, NoContractErrors
  <2>3. "fingerprint" \in DOMAIN last
    OBVIOUS
  <2>4. ~last["fingerprint"]
    <3> HIDE DEF block, last
    <3> QED BY <2>2, <2>3 DEF Broken
  <2>5. ~(block = {} /\ trace.determinism.fingerprint # Outcome(trace))
    BY <2>4, Zenon
  <2> HIDE DEF block
  <2> QED BY <2>2, <2>5
<1>6. \A i \in DOMAIN trace.cases :
        Len(Replayed(trace)[i].findings) = IF trace.cases[i].class = "violation" THEN 1 ELSE 0
  <2> TAKE i \in DOMAIN trace.cases
  <2>1. Expect(trace.cases[i]) = trace.cases[i].expect
    BY <1>2 DEF Expect, CaseSchemaOK, WellShaped
  <2> QED BY <1>2, <1>3, <2>1, CaseHolds
<1>7. (\E i \in DOMAIN trace.cases : trace.cases[i].class = "violation")
        /\ \E i \in DOMAIN trace.cases : trace.cases[i].class = "normal"
  <2>1. {"normal", "violation"} \subseteq {case.class : case \in Range(trace.cases)}
    BY NoContractErrors
  <2> QED BY <2>1 DEF Range
<1>8. {Len(Replayed(trace)[i].findings) : i \in DOMAIN trace.cases} = {0, 1}
  BY <1>6, <1>7
<1>9. Projection(trace, Replayed(trace)) = Outcome(trace)
  BY <1>4 DEF Outcome
<1> QED BY <1>5, <1>8, <1>9

\* Where no case charges less than nothing, some of them charge no more than all.
LEMMA ChargesGrow ==
    ASSUME NEW charges \in Seq(Nat), NEW kept \in SUBSET DOMAIN charges, NEW fewer,
           fewer = [i \in DOMAIN charges |-> IF i \in kept THEN charges[i] ELSE 0]
    PROVE  /\ Sums(fewer)[Len(charges)] \in Int /\ Sums(charges)[Len(charges)] \in Int
           /\ Sums(fewer)[Len(charges)] <= Sums(charges)[Len(charges)]
<1>1. fewer \in Seq(Int) /\ charges \in Seq(Int) /\ Len(fewer) = Len(charges)
  <2>1. \A i \in 1..Len(charges) : charges[i] \in Nat
    OBVIOUS
  <2>2. fewer = [i \in 1..Len(charges) |-> IF i \in kept THEN charges[i] ELSE 0]
    OBVIOUS
  <2> QED BY <2>1, <2>2
<1>2. \A i \in DOMAIN fewer : fewer[i] <= charges[i]
  OBVIOUS
<1>3. Sums(fewer)[Len(charges)] \in Int /\ Sums(charges)[Len(charges)] \in Int
  BY <1>1, SumsAre DEF Partial
<1> QED BY <1>1, <1>2, <1>3, SumsGrow

LEMMA BudgetHolds == ASSUME trace \in TraceType PROVE BudgetCovers
<1> SUFFICES ASSUME Accepted(trace), NEW kept \in SUBSET DOMAIN trace.cases
             PROVE  /\ Charged(trace.cases, kept, CaseEvents) <= trace.workBudget.events
                    /\ Charged(trace.cases, kept, CaseWork) <= trace.workBudget.work
  BY DEF BudgetCovers
<1> DEFINE events == Charged(trace.cases, DOMAIN trace.cases, CaseEvents)
           work == Charged(trace.cases, DOMAIN trace.cases, CaseWork)
           rules == [maxEvents |-> ~IsInt(trace.workBudget.events) \/ events > trace.workBudget.events,
                     maxWorkUnits |-> ~IsInt(trace.workBudget.work) \/ work > trace.workBudget.work]
<1>1. /\ trace.cases # Ill /\ trace.cases \in Seq(CaseType) /\ trace.workBudget # Ill
      /\ IsInt(trace.workBudget.events) /\ IsInt(trace.workBudget.work)
      /\ \A case \in Range(trace.cases) : CaseSchemaOK(case)
  BY DEF Accepted, SchemaOK, TraceType, Reaches
<1>2. \A i \in DOMAIN trace.cases : CaseEvents(trace.cases[i]) \in Nat /\ CaseWork(trace.cases[i]) \in Nat
  <2> TAKE i \in DOMAIN trace.cases
  <2>1. trace.cases[i] \in CaseType /\ CaseSchemaOK(trace.cases[i])
    BY <1>1 DEF Range
  <2>2. trace.cases[i].events \in Seq(EventType)
    BY <2>1 DEF CaseType, CaseSchemaOK, WellShaped
  <2> QED BY <2>1, <2>2 DEF CaseEvents, CaseWork, CaseSchemaOK, Reaches, IsInt
<1>3. BudgetErrors(trace.workBudget, events, work) = Broken(rules)
  BY <1>1, Zenon DEF BudgetErrors
<1>4. Broken(rules) = {}
  <2> HIDE DEF rules
  <2> QED BY <1>3, NoContractErrors
<1>5. ~rules["maxEvents"] /\ ~rules["maxWorkUnits"]
  <2>1. {"maxEvents", "maxWorkUnits"} \subseteq DOMAIN rules
    OBVIOUS
  <2> HIDE DEF rules
  <2> QED BY <1>4, <2>1 DEF Broken
<1>6. ~(events > trace.workBudget.events) /\ ~(work > trace.workBudget.work)
  <2> HIDE DEF events, work
  <2> QED BY <1>5, Zenon
<1>7. /\ Charged(trace.cases, kept, CaseEvents) \in Int /\ events \in Int
      /\ Charged(trace.cases, kept, CaseEvents) <= events
  <2> DEFINE charges == [i \in DOMAIN trace.cases |-> CaseEvents(trace.cases[i])]
             fewer == [i \in DOMAIN trace.cases |-> IF i \in kept THEN CaseEvents(trace.cases[i]) ELSE 0]
  <2>1. /\ charges \in Seq(Nat) /\ Len(charges) = Len(trace.cases)
        /\ DOMAIN charges = DOMAIN trace.cases
    BY <1>1, <1>2
  <2>2. fewer = [i \in DOMAIN charges |-> IF i \in kept THEN charges[i] ELSE 0]
    BY <2>1
  <2>3. charges = [i \in DOMAIN trace.cases |->
                    IF i \in DOMAIN trace.cases THEN CaseEvents(trace.cases[i]) ELSE 0]
    OBVIOUS
  <2>4. /\ Charged(trace.cases, kept, CaseEvents) = Sums(fewer)[Len(trace.cases)]
        /\ events = Sums(charges)[Len(trace.cases)]
    BY <2>3, Zenon DEF Charged
  <2> HIDE DEF charges, fewer, events
  <2>5. kept \in SUBSET DOMAIN charges
    BY <2>1
  <2> QED BY <2>1, <2>2, <2>4, <2>5, ChargesGrow
<1>8. /\ Charged(trace.cases, kept, CaseWork) \in Int /\ work \in Int
      /\ Charged(trace.cases, kept, CaseWork) <= work
  <2> DEFINE charges == [i \in DOMAIN trace.cases |-> CaseWork(trace.cases[i])]
             fewer == [i \in DOMAIN trace.cases |-> IF i \in kept THEN CaseWork(trace.cases[i]) ELSE 0]
  <2>1. /\ charges \in Seq(Nat) /\ Len(charges) = Len(trace.cases)
        /\ DOMAIN charges = DOMAIN trace.cases
    BY <1>1, <1>2
  <2>2. fewer = [i \in DOMAIN charges |-> IF i \in kept THEN charges[i] ELSE 0]
    BY <2>1
  <2>3. charges = [i \in DOMAIN trace.cases |->
                    IF i \in DOMAIN trace.cases THEN CaseWork(trace.cases[i]) ELSE 0]
    OBVIOUS
  <2>4. /\ Charged(trace.cases, kept, CaseWork) = Sums(fewer)[Len(trace.cases)]
        /\ work = Sums(charges)[Len(trace.cases)]
    BY <2>3, Zenon DEF Charged
  <2> HIDE DEF charges, fewer, work
  <2>5. kept \in SUBSET DOMAIN charges
    BY <2>1
  <2> QED BY <2>1, <2>2, <2>4, <2>5, ChargesGrow
<1> HIDE DEF events, work, rules
<1> QED BY <1>1, <1>6, <1>7, <1>8 DEF IsInt

(* Proved for every fixture, edit and seal: a replay of a trace that           *)
(* replay_contract_check.py and the schema accept produces the digest it     *)
(* records, one case fires the detector and another does not, and no part of  *)
(* its cases goes over the budget it declares.                               *)
THEOREM AcceptedTracesReplay == TraceSpec => []ReplayVerdict
<1>1. trace \in TraceType => ReplayVerdict
  BY ReplayHolds, BudgetHolds DEF ReplayVerdict
<1> QED BY <1>1, TraceInductive, PTL

-----------------------------------------------------------------------------
(* Sealing. *)

LEMMA NamesOfRules == ASSUME NEW rules PROVE Broken(rules) \subseteq DOMAIN rules
  BY DEF Broken

\* No rule but the last one of the determinism block is called "fingerprint".
LEMMA OtherNames ==
    ASSUME NEW case, NEW id, NEW budget, NEW events, NEW work
    PROVE  "fingerprint" \notin CaseErrors(case, id) /\ "fingerprint" \notin BudgetErrors(budget, events, work)
<1>1. "fingerprint" \notin CaseErrors(case, id)
  <2> DEFINE findings == IF case.expect.findings = Ill THEN <<>> ELSE case.expect.findings
             stack == [
                quantities |-> \E e \in Range(case.events) : ~(IsInt(e.claimed) /\ IsInt(e.limit)),
                disagrees |-> \E e \in Range(case.events) :
                    IsInt(e.claimed) /\ IsInt(e.limit) /\ (e.claimed > e.limit) # (findings # <<>>)]
             rules == [
                sequence |-> ~InOrder(case.events, "sequence", Increasing),
                tick |-> ~InOrder(case.events, "tick", NeverDecreasing),
                work |-> ~IsInt(case.expect.work),
                findings |-> case.expect.findings = Ill,
                normal |-> case.class = "normal" /\ findings # <<>>,
                violation |-> case.class = "violation" /\ findings # <<id>>,
                actions |-> case.expect.actions \notin {Ill, {}}]
  <2>1. StackInvariantErrors(case.events, findings # <<>>) = Broken(stack)
    BY Zenon DEF StackInvariantErrors
  <2>2. CaseErrors(case, id) =
            IF ~WellShaped(case) THEN {"shape"}
            ELSE StackInvariantErrors(case.events, findings # <<>>) \union Broken(rules)
    BY Zenon DEF CaseErrors
  <2>3. DOMAIN stack = {"quantities", "disagrees"}
        /\ DOMAIN rules = {"sequence", "tick", "work", "findings", "normal", "violation", "actions"}
    OBVIOUS
  <2> HIDE DEF stack, rules, findings
  <2>5. CaseErrors(case, id) =
            IF ~WellShaped(case) THEN {"shape"} ELSE Broken(stack) \union Broken(rules)
    BY <2>1, <2>2, Zenon
  <2>4. Broken(stack) \subseteq DOMAIN stack /\ Broken(rules) \subseteq DOMAIN rules
    BY NamesOfRules
  <2> QED BY <2>3, <2>4, <2>5
<1>2. "fingerprint" \notin BudgetErrors(budget, events, work)
  <2> DEFINE rules == [maxEvents |-> ~IsInt(budget.events) \/ events > budget.events,
                       maxWorkUnits |-> ~IsInt(budget.work) \/ work > budget.work]
  <2>1. BudgetErrors(budget, events, work) = IF budget = Ill THEN {"budget"} ELSE Broken(rules)
    BY Zenon DEF BudgetErrors
  <2>2. DOMAIN rules = {"maxEvents", "maxWorkUnits"}
    OBVIOUS
  <2> HIDE DEF rules
  <2>3. Broken(rules) \subseteq DOMAIN rules
    BY NamesOfRules
  <2> QED BY <2>1, <2>2, <2>3
<1> QED BY <1>1, <1>2

LEMMA SealAnswers ==
    ASSUME trace \in TraceType, Seal, trace' # trace
    PROVE  ContractErrors(trace') = ContractErrors(trace) \ {"fingerprint"}
<1>1. trace.determinism # Ill /\ trace.cases # Ill /\ trace.determinism.fingerprint # Ill
  BY DEF Seal, Sealable
<1>2. trace.determinism \in ClockType
  BY <1>1 DEF TraceType
<1> DEFINE clock == [trace.determinism EXCEPT !.fingerprint = Outcome(trace)]
<1>3. trace' = [trace EXCEPT !.determinism = clock]
  BY DEF Seal
<1>4. /\ clock.start = trace.determinism.start /\ clock.ms = trace.determinism.ms
      /\ clock.fingerprint = Outcome(trace)
  BY <1>2 DEF ClockType
<1>5. Outcome(trace) # Ill
  BY <1>1, OutcomeIsOne, TraceAssumption, WrongValues
<1>6. clock \in ClockType
  BY <1>1, <1>2, OutcomeIsOne DEF ClockType
<1> HIDE DEF clock
<1>7. /\ trace'.detectorId = trace.detectorId /\ trace'.build = trace.build
      /\ trace'.seed = trace.seed /\ trace'.workBudget = trace.workBudget
      /\ trace'.cases = trace.cases /\ trace'.determinism = clock
  BY <1>3 DEF TraceType
<1>8. clock # Ill
  BY <1>6, WrongValues
<1>9. NonFinite(trace') <=> NonFinite(trace)
  BY <1>7 DEF NonFinite
<1>10. Outcome(trace') = Outcome(trace)
  <2>1. Expectations(trace') = Expectations(trace)
    BY <1>7 DEF Expectations
  <2> QED BY <1>4, <1>7, <2>1 DEF Outcome, Projection
<1>11. /\ DeterminismErrors(trace') = DeterminismErrors(trace) \ {"fingerprint"}
  <2> DEFINE before == [start |-> trace.determinism.start = "bad",
                        ms |-> ~(IsInt(trace.determinism.ms) /\ trace.determinism.ms >= 0),
                        digest |-> trace.determinism.fingerprint = Ill]
             after == [start |-> trace'.determinism.start = "bad",
                       ms |-> ~(IsInt(trace'.determinism.ms) /\ trace'.determinism.ms >= 0),
                       digest |-> trace'.determinism.fingerprint = Ill]
             stale == [fingerprint |->
                        Broken(before) = {} /\ trace.determinism.fingerprint # Outcome(trace)]
             fresh == [fingerprint |->
                        Broken(after) = {} /\ trace'.determinism.fingerprint # Outcome(trace')]
  <2>1. DeterminismErrors(trace) = Broken(before) \union Broken(stale)
    BY <1>1, Zenon DEF DeterminismErrors
  <2>2. DeterminismErrors(trace') = Broken(after) \union Broken(fresh)
    BY <1>7, <1>8, Zenon DEF DeterminismErrors
  <2>3. before = after
    BY <1>1, <1>4, <1>5, <1>7
  <2>4. DOMAIN before = {"start", "ms", "digest"} /\ DOMAIN stale = {"fingerprint"}
        /\ DOMAIN fresh = {"fingerprint"}
    OBVIOUS
  <2>5. ~fresh["fingerprint"]
    BY <1>4, <1>7, <1>10, Zenon
  <2> HIDE DEF before, after, stale, fresh
  <2>6. /\ Broken(before) \subseteq DOMAIN before /\ Broken(stale) \subseteq DOMAIN stale
        /\ Broken(fresh) = {}
    BY <2>4, <2>5 DEF Broken
  <2> QED BY <2>1, <2>2, <2>3, <2>4, <2>6
<1>12. CASE NonFinite(trace)
  BY <1>9, <1>12 DEF ContractErrors
<1>13. CASE ~NonFinite(trace) /\ trace.detectorId = Ill
  BY <1>7, <1>9, <1>13 DEF ContractErrors
<1>14. CASE ~NonFinite(trace) /\ trace.detectorId # Ill
  <2>1. ContractErrors(trace) = ReadableErrors(trace) /\ ContractErrors(trace') = ReadableErrors(trace')
    BY <1>1, <1>7, <1>9, <1>14 DEF ContractErrors
  <2> DEFINE rules(t) == [
                unknown |-> t.detectorId \notin Registered,
                classes |-> {case.class : case \in Range(t.cases)} \ {Ill} # {"normal", "violation"},
                seed |-> ~(IsInt(t.seed) /\ t.seed >= 0)]
             inCases(t) == UNION {CaseErrors(case, t.detectorId) : case \in Range(t.cases)}
             budget(t) == BudgetErrors(t.workBudget, Charged(t.cases, DOMAIN t.cases, CaseEvents),
                                       Charged(t.cases, DOMAIN t.cases, CaseWork))
  <2>2. /\ ReadableErrors(trace) = inCases(trace) \union DeterminismErrors(trace)
                \union budget(trace) \union Broken(rules(trace))
        /\ ReadableErrors(trace') = inCases(trace') \union DeterminismErrors(trace')
                \union budget(trace') \union Broken(rules(trace'))
    BY Zenon DEF ReadableErrors
  <2>3. /\ inCases(trace') = inCases(trace) /\ budget(trace') = budget(trace)
        /\ Broken(rules(trace')) = Broken(rules(trace))
    BY <1>7, Zenon
  <2>4. "fingerprint" \notin inCases(trace) /\ "fingerprint" \notin budget(trace)
    BY OtherNames
  <2>5. "fingerprint" \notin Broken(rules(trace))
    <3>1. DOMAIN rules(trace) = {"unknown", "classes", "seed"}
      OBVIOUS
    <3> HIDE DEF rules
    <3> QED BY <3>1, NamesOfRules
  <2> HIDE DEF rules, inCases, budget
  <2> QED BY <1>11, <2>1, <2>2, <2>3, <2>4, <2>5
<1> QED BY <1>12, <1>13, <1>14

(* Proved for every fixture, edit and seal: --fix-fingerprint answers the      *)
(* stale digest, and no other finding goes or comes.                         *)
THEOREM SealsHideNothing == TraceSpec => SealHidesNothing
<1>1. trace \in TraceType =>
        [trace' # trace /\ Seal => ContractErrors(trace') = ContractErrors(trace) \ {"fingerprint"}]_traceVars
  BY SealAnswers
<1> QED BY <1>1, TraceInductive, PTL DEF SealHidesNothing
=============================================================================
