------------------------------- MODULE RunDir -------------------------------
(***************************************************************************)
(* The directory of the evidence fuzzer, which is one for all the inputs   *)
(* of a run: each input is written over the last.                          *)
(***************************************************************************)
EXTENDS Integers

CONSTANTS
    SegmentFile,        \* the segments an input may have
    IndexFile,          \* the index it may have
    Bytes,              \* what a file may hold
    MaxWrites

VARIABLES
    directory, written, \* the files, and the names that were put there last
    handed,             \* the files the last input consists of
    writes

runDirVars == <<directory, written, handed, writes>>

RunDirInit == directory = <<>> /\ written = {} /\ handed = <<>> /\ writes = 0

\* Every name of the input is one the next input may have to unlink, the index too.
Written(files) == DOMAIN files

\* write: names of the last input that this one does not have are unlinked.
WriteRun ==
    /\ writes < MaxWrites
    /\ \E names \in SUBSET (SegmentFile \union {IndexFile}) : \E files \in [names -> Bytes] :
        /\ directory' = [name \in (DOMAIN directory \ (written \ names)) \union names |->
                            IF name \in names THEN files[name] ELSE directory[name]]
        /\ written' = Written(files)
        /\ handed' = files
    /\ writes' = writes + 1

RunDirNext == WriteRun

RunDirSpec == RunDirInit /\ [][RunDirNext]_runDirVars

---------------------------------------------------------------------------

(* The verifier is given the input and nothing of the inputs before it: the   *)
(* directory holds the files of the last input with their bytes, no others.   *)
InputStandsAlone == directory = handed

=============================================================================
