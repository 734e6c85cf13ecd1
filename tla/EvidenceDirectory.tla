------------------------- MODULE EvidenceDirectory -------------------------
(***************************************************************************)
(* Directories of evidence, as the export, the archive and the restore     *)
(* drill see them.  A directory is a function from files to contents.  The *)
(* files are the segments, numbered in chain order, and the index.  The    *)
(* records of the stream are numbered from 1, so a segment's content is an *)
(* interval of records, possibly followed by a partly written one, and     *)
(* ChainOK is the verdict of verify_dir (module EvidenceChain).  Two       *)
(* contents are equal exactly when their digests are.                      *)
(***************************************************************************)
EXTENDS Integers, FiniteSets

CONSTANTS
    MaxSegment,     \* bound: segments the server writes
    MaxRecord       \* bound: records the server writes

ASSUME DirectoryAssumption == MaxSegment \in Nat \ {0} /\ MaxRecord \in Nat \ {0}

SegmentId == 1..MaxSegment
IndexFile == MaxSegment + 1          \* archive_members appends the index last
File == 1..IndexFile

SegmentContent == [first : 1..(MaxRecord + 1), last : 0..MaxRecord, torn : BOOLEAN]
IndexContent == [listed : SUBSET SegmentId]
IsDirectory(d) ==
    /\ DOMAIN d \subseteq File
    /\ \A f \in DOMAIN d : d[f] \in IF f = IndexFile THEN IndexContent ELSE SegmentContent

Segments(d) == DOMAIN d \cap SegmentId

\* verify_dir: unreadable, empty or unlinked segments, or an index that lists
\* other segments, are findings.
LinksBack(d, s) ==
    IF \A t \in Segments(d) : s <= t THEN d[s].first = 1
    ELSE \E t \in Segments(d) : /\ t < s /\ d[s].first = d[t].last + 1
                                /\ \A u \in Segments(d) : u <= t \/ s <= u
ChainOK(d) ==
    /\ Segments(d) # {}
    /\ \A s \in Segments(d) : ~d[s].torn /\ d[s].first <= d[s].last /\ LinksBack(d, s)
    /\ IndexFile \in DOMAIN d => d[IndexFile].listed = Segments(d)

\* d without all but the files F; d with content c as file f.
Keep(d, F) == [f \in F |-> d[f]]
Put(d, f, c) == [g \in DOMAIN d \cup {f} |-> IF g = f THEN c ELSE d[g]]

\* verify(): the manifest lists exactly the files with their digests, and the
\* chain of the copies verifies.
Verified(a) == a.attested /\ a.manifest = a.files /\ ChainOK(a.files)

Records(d) == UNION {d[s].first..d[s].last : s \in Segments(d)}
=============================================================================
