--------------------------- MODULE RestoreDrillMC ---------------------------
(***************************************************************************)
(* RestoreDrill for TLC: the archives, what every drill must come to, and  *)
(* what the documents promise of a drill that fails.                       *)
(***************************************************************************)
EXTENDS RestoreDrill, TLC

Symmetry == Permutations(StagingName)
\* Sound with OwnTarget only: drills that are their own work directories.
DrillSymmetry == Symmetry \cup Permutations(Drill)

Interval(first, last) == [first |-> first, last |-> last, torn |-> FALSE]
Attested(files, index) ==
    [files |-> files, manifest |-> files, attested |-> TRUE, index |-> index]

\* Archives of one segment of two records and the index; of two segments without an
\* index; of one segment whose manifest names an index the archive does not hold
\* (build_manifest asks the source for it); of a chain that does not start at its first
\* record.
MCVault ==
    [a \in Archive |->
       CASE a = "indexed" ->
              Attested([f \in {1, IndexFile} |->
                          IF f = IndexFile THEN [listed |-> {1}] ELSE Interval(1, 2)], TRUE)
         [] a = "plain"    -> Attested([f \in {1, 2} |-> Interval(f, f)], FALSE)
         [] a = "misnamed" -> Attested([f \in {1} |-> Interval(1, 1)], TRUE)
         [] a = "headless" -> Attested([f \in {2} |-> Interval(2, 2)], FALSE)]

\* Damage cuts a segment within its last record, cuts the newest segment of "indexed"
\* at a record boundary, or rewrites the index.
MCDamaged == {[Interval(1, 1) EXCEPT !.torn = TRUE], Interval(1, 1), [listed |-> {}]}

\* Every drill has a work directory of its own.
OwnTarget == [p \in Drill |-> p]

\* No killed drill's staging directory stays a leftover: some later drill sweeps it.
LeftoverGoes == \A d \in StagingName : []<>~(d \in DOMAIN staging /\ ~Live(d))

\* Every drill ends, however the others interleave with it.
DrillEnds == \A p \in Drill : []<>(run[p].pc \in Resting)

\* _move_into_place: "A move that fails partway is rolled back rather than left for
\* the operator".  After the restore of the only drill failed, nothing is there.
FailedMoveRolledBack ==
    \A p \in Drill : run[p].pc = "cleanup" /\ run[p].failed => Held(Target[p]) = NoFiles

\* OPERATIONS.md: "a drill that fails anywhere leaves WORK as it found it".
FailedDrillLeavesWork ==
    \A p \in Drill : run[p].pc = "failed" => Held(Target[p]) = NoFiles
=============================================================================
