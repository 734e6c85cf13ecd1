------------------------------- MODULE HostNames ----------------------------
(***************************************************************************)
(* The evidence tools on the hosts they run on: Linux, a file system that  *)
(* ignores case, and Windows, where patterns ignore case too, some names   *)
(* are devices and a trailing dot is dropped.  An archive is exported on   *)
(* one host, edited or moved about, and verified on another.               *)
(***************************************************************************)
EXTENDS Findings, Integers, Sequences, SequencesExt

CONSTANTS
    FileOrder,          \* the names a file or a manifest entry may have, as they sort
    Spelling,           \* name -> the lower-case name without a trailing dot
    Dotted,             \* names that end in a dot
    Device,             \* names Windows takes for a device
    SegmentName,        \* names evidence-*.jsonl matches as it is written
    JsonName,           \* names *.json matches as it is written
    IndexName,          \* what --index may be given
    ServerFiles,        \* the evidence directory as the server leaves it
    MaxHostEdits

VARIABLES
    source,             \* the evidence directory: name -> content
    archive,            \* name -> content
    listing,            \* manifest.json: the names and contents listed, and the index it names
    hostEdits

hostVars == <<source, archive, listing, hostEdits>>

Host == {"linux", "casefold", "windows"}
FileName == {FileOrder[i] : i \in DOMAIN FileOrder}

Lowered(name) == IF name \in Dotted THEN name ELSE Spelling[name]

\* No name ends like a segment and like the index, in whatever case.
ASSUME NamesAssumption ==
    /\ DOMAIN ServerFiles \union IndexName \subseteq FileName
    /\ \A n \in FileName : Lowered(n) \in SegmentName => n \notin JsonName

\* Which names a host takes for the same file.
Same(host, m, n) ==
    CASE host = "linux"    -> m = n
      [] host = "casefold" -> Lowered(m) = Lowered(n)
      [] host = "windows"  -> Spelling[m] = Spelling[n]

Opened(host, directory, name) ==
    IF host = "windows" /\ Spelling[name] \in Device THEN {}
    ELSE {f \in DOMAIN directory : Same(host, f, name)}

\* A directory the host can hold: no devices, no dots and one file per name.
Holds(host, names) ==
    /\ host = "windows" => \A n \in names : n \notin Dotted /\ Spelling[n] \notin Device
    /\ \A m, n \in names : Same(host, m, n) => m = n

Glob(host, directory, pattern) ==
    {f \in DOMAIN directory : f \in pattern \/ (host = "windows" /\ Lowered(f) \in pattern)}

\* valid_file_name: neither a device on any host nor one that ends in a dot.
ValidFileName(name) == name \notin Dotted /\ Spelling[name] \notin Device

\* Mutant: a member is what the host opens under its name.
MemberOpened(host, directory, name) == Opened(host, directory, name)
ExactChild(host, directory, name) == {name} \intersect DOMAIN directory

---------------------------------------------------------------------------

InFileOrder(names) == SelectSeq(FileOrder, LAMBDA name : name \in names)

\* verify_dir: the walk over the segments, and the index among the directory's entries.
WalkErrors(host, directory, index) ==
    IF ~ValidFileName(index) THEN {"index name"}
    ELSE LET segments == Glob(host, directory, SegmentName)
             walk == InFileOrder(segments)
         IN  IF segments = {} THEN {"no segments"}
             ELSE Broken([
                    link |-> \E i \in DOMAIN walk : directory[walk[i]].link # i,
                    index |-> \E f \in ExactChild(host, directory, index) :
                                directory[f].lists # walk])

MemberError(host, name) ==
    \/ ~ValidFileName(name)
    \/ \A f \in ExactChild(host, archive, name) : archive[f] # listing.files[name]

\* verify(), of a manifest whose own digest is right.
VerifyArchive(host) ==
    WalkErrors(host, archive, listing.index) \union
    Broken([
        member |-> \E name \in DOMAIN listing.files : MemberError(host, name),
        unlisted |-> ~(Glob(host, archive, SegmentName \union JsonName)
                        \subseteq DOMAIN listing.files)])

\* archive_members: the index is joined onto the directory, so it is the file that the
\* host opens under the name, and is copied under the name that was asked for.
Members(host, index) ==
    Glob(host, source, SegmentName) \union
        {n \in {index} : Opened(host, source, index) # {}}

ContentOf(host, name) == source[CHOOSE f \in Opened(host, source, name) : TRUE]

---------------------------------------------------------------------------

HostInit ==
    /\ source = ServerFiles
    /\ archive = source
    /\ \E index \in IndexName \intersect DOMAIN source : listing = [files |-> source, index |-> index]
    /\ hostEdits = 0

HostEdit ==
    /\ hostEdits < MaxHostEdits
    /\ hostEdits' = hostEdits + 1

\* A file of the source or the archive is renamed, in case or to a name of its kind.
RenameFile ==
    /\ HostEdit
    /\ \E new \in FileName :
        \/ \E old \in DOMAIN source :
            /\ Spelling[new] = Spelling[old] /\ new \notin DOMAIN source
            /\ source' = [f \in (DOMAIN source \ {old}) \union {new} |->
                            source[IF f = new THEN old ELSE f]]
            /\ UNCHANGED archive
        \/ \E old \in DOMAIN archive :
            /\ Spelling[new] = Spelling[old] /\ new \notin DOMAIN archive
            /\ archive' = [f \in (DOMAIN archive \ {old}) \union {new} |->
                            archive[IF f = new THEN old ELSE f]]
            /\ UNCHANGED source
    /\ UNCHANGED listing

\* The archive loses a file or gets a copy of one under another name.
CopyOrDrop ==
    /\ HostEdit
    /\ \E old \in DOMAIN archive :
        \/ archive' = [f \in DOMAIN archive \ {old} |-> archive[f]]
        \/ \E new \in FileName \ DOMAIN archive :
            archive' = [f \in DOMAIN archive \union {new} |->
                            archive[IF f = new THEN old ELSE f]]
    /\ UNCHANGED <<source, listing>>

\* The manifest gets an entry under another name, or loses one, and is sealed again.
EditListing ==
    /\ HostEdit
    /\ \/ \E old \in DOMAIN listing.files, new \in FileName :
            listing' = [listing EXCEPT !.files =
                [f \in DOMAIN @ \union {new} |-> IF f = new THEN @[old] ELSE @[f]]]
       \/ \E old \in DOMAIN listing.files :
            listing' = [listing EXCEPT !.files = [f \in DOMAIN @ \ {old} |-> @[f]]]
       \/ \E index \in FileName : listing' = [listing EXCEPT !.index = index]
    /\ UNCHANGED <<source, archive>>

\* An export on some host, of evidence that passes the preflight there.
ExportOn ==
    /\ HostEdit
    /\ \E host \in Host, index \in IndexName :
        /\ Holds(host, DOMAIN source)
        /\ WalkErrors(host, source, index) = {}
        /\ archive' = [f \in Members(host, index) |-> ContentOf(host, f)]
        /\ listing' = [files |-> archive', index |-> index]
    /\ UNCHANGED source

HostNext == EditListing \/ CopyOrDrop \/ RenameFile \/ ExportOn

HostSpec == HostInit /\ [][HostNext]_hostVars

---------------------------------------------------------------------------

\* No file is one a pattern matches on Windows only.
SpelledAsWritten ==
    \A f \in DOMAIN archive : Lowered(f) \in SegmentName \union JsonName =>
                                f \in SegmentName \union JsonName

(* "A Windows host must get the same verdict as a Linux one": an archive two  *)
(* hosts can hold is accepted by both or by neither, whatever its manifest   *)
(* names.  Patterns ignore case on Windows alone, so no file is taken to be   *)
(* spelled otherwise than the patterns.                                       *)
HostsAgree ==
    SpelledAsWritten =>
        \A h, k \in {host \in Host : Holds(host, DOMAIN archive)} :
            VerifyArchive(h) = VerifyArchive(k)

(* What one host accepts is the same evidence on every host: carried there    *)
(* alone, each file the manifest lists is what the host opens under its name. *)
(* Two listed names that differ in case alone cannot be carried at all.       *)
AcceptedIsPortable ==
    \A host \in Host :
        /\ Holds(host, DOMAIN archive) /\ VerifyArchive(host) = {}
        /\ \A m, n \in DOMAIN listing.files : Spelling[m] = Spelling[n] => m = n
        => LET carried == [f \in DOMAIN archive \intersect DOMAIN listing.files |-> archive[f]]
           IN  \A other \in Host, name \in DOMAIN listing.files :
                    Opened(other, carried, name) = {name}

\* The hosts: the tools agree on a directory on either host, and what is accepted can
\* be restored on either.
HostVerdict == HostsAgree /\ AcceptedIsPortable

=============================================================================
