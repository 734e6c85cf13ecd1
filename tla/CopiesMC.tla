------------------------------ MODULE CopiesMC ------------------------------
(***************************************************************************)
(* Exports into one archive root, and drills of archives, for TLC.  An     *)
(* export never touches a work directory and a drill never an archive's    *)
(* name, so one of the two groups, chosen at the start, moves: a behaviour *)
(* here is one of ArchiveExport or one of RestoreDrill.                    *)
(***************************************************************************)
EXTENDS RestoreDrillMC

CONSTANTS
    Exporter,
    ExportStaging,  \* the names an export's mkdtemp can draw
    ExportClock,    \* bound: the last instant of the exports
    ServerWrites,   \* does the server write while the exports run?
    Indexed, Expires

ASSUME CopiesAssumption ==
    /\ ExportClock \in Nat /\ Indexed \in BOOLEAN /\ Expires \in BOOLEAN
    /\ NoName \notin ExportStaging

VARIABLES part, source, exportClock, exportStaging, root, export, exportFaults, exportStrays

X == INSTANCE ArchiveExportMC WITH
    clock <- exportClock, staging <- exportStaging, archives <- root, run <- export,
    faults <- exportFaults, strays <- exportStrays, StagingName <- ExportStaging, MaxClock <- ExportClock,
    LockChoice <- {FALSE}

exportVars == <<source, exportClock, exportStaging, root, export, exportFaults, exportStrays>>
copiesVars == <<part, vars, exportVars>>

CopiesSymmetry == DrillSymmetry \cup X!Symmetry

CopiesInit ==
    /\ part \in {"exports", "drills"}
    /\ X!Init
    /\ IF part = "drills" THEN TRUE
       ELSE /\ work = [w \in {} |-> NoFiles]
            /\ run = [p \in Drill |-> Fresh(CHOOSE a \in Archive : TRUE)]
    /\ Init

DrillsRest == UNCHANGED <<part, vars>>
ExportsRest == UNCHANGED <<part, exportVars>>

CopiesNext ==
    \/ part = "exports" /\ ServerWrites /\ X!Server /\ DrillsRest
    \/ part = "exports" /\ X!Tick /\ DrillsRest
    \/ part = "exports" /\ (\E p \in Exporter : X!Export(p)) /\ DrillsRest
    \/ part = "drills" /\ Surroundings /\ ExportsRest
    \/ part = "drills" /\ (\E p \in Drill : Restoring(p)) /\ ExportsRest

CopiesSpec == CopiesInit /\ [][CopiesNext]_copiesVars

\* The state of the group that moves tells two reachable states apart.
PartView == IF part = "exports" THEN <<part, exportVars>> ELSE <<part, vars>>

\* A started process is scheduled, and time passes.  The schedule starts exports, and
\* drills of sound archives, again and again, and the operator who keeps seeing drills
\* refused clears their directory.
Fairness ==
    /\ \A p \in Exporter : WF_exportVars(part = "exports" /\ (X!Start(p) \/ X!Work(p)))
    /\ WF_exportVars(part = "exports" /\ X!Tick)
    /\ \A p \in Drill :
          /\ WF_vars(part = "drills" /\ Work(p))
          /\ SF_vars(part = "drills" /\ Clear(Target[p]))
          /\ WF_vars(/\ part = "drills" /\ Target[p] \notin DOMAIN work
                     /\ Begin(p) /\ run'[p].pc = "target")
    /\ WF_vars(part = "drills" /\ Tick)

FairCopiesSpec == CopiesSpec /\ Fairness
-----------------------------------------------------------------------------
\* An archive that an exit code of 0 promises is there, verifies and holds what the
\* preflight saw, and so does every other in the root, while the server appends,
\* rotates, writes its index and expires segments between any two steps.
ExportsSound == X!ExportsSound

\* Every export and every drill ends, however the others interleave with it.
EveryRunEnds == X!ExportEnds /\ DrillEnds

\* What an export or a drill left, killed or not, does not stay: a later run sweeps it.
EveryLeftoverGoes == X!LeftoverGoes /\ LeftoverGoes
=============================================================================
