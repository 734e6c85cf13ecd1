-------------------------- MODULE ArchiveExportMC --------------------------
(***************************************************************************)
(* ArchiveExport for TLC: symmetry, what a document promises, and what     *)
(* every export must come to.                                              *)
(***************************************************************************)
EXTENDS ArchiveExport, TLC

Symmetry == Permutations(Exporter) \cup Permutations(StagingName)

\* OPERATIONS.md: "the loser exits 0 on identical evidence".
LoserExitsZero == \A p \in Exporter : run[p].pc # "failed"

\* No directory a run left stays a leftover: some later export sweeps it.
LeftoverGoes ==
    \A d \in StagingName : []<>~(d \in DOMAIN staging /\ ~Live(d) /\ ~staging[d].locked)

\* Every export ends, however the others interleave with it.
ExportEnds == \A p \in Exporter : []<>(run[p].pc \in Resting)
=============================================================================
