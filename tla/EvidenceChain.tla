--------------------------- MODULE EvidenceChain ---------------------------
(***************************************************************************)
(* The chain verifier of tools/evidence_check.py: one run of               *)
(* verify_dir_with_counts over an evidence directory.  It walks the        *)
(* segments in chain order and each segment record by record, checks       *)
(* chainPrev, remembers the recent eventIds, and collects findings.        *)
(*                                                                         *)
(* A record is an atom: HashOf is record_hash, assumed collision free,     *)
(* ChainPrev and EventId are the two fields the walk reads.  A segment is  *)
(* the records before its first bad line, and whether there is no bad line *)
(* at all.                                                                 *)
(***************************************************************************)
EXTENDS Integers, Sequences

CONSTANTS
    Record,         \* canonical forms a line can have
    Digest,         \* SHA-256 values a chainPrev can hold
    Genesis,        \* sixty-four zeros
    HashOf,         \* record_hash
    ChainPrev,      \* the record's chainPrev field
    Event,
    EventId,        \* the record's eventId field
    Capacity,       \* DUPLICATE_WINDOW_RECORDS
    MaxReported,    \* MAX_REPORTED_CHAIN_ERRORS
    None,           \* Python's None
    Streams         \* the directories the verifier is run on

ASSUME HashAssumption ==
    /\ Genesis \in Digest /\ None \notin Digest
    /\ HashOf \in [Record -> Digest \ {Genesis}]
    /\ \A r, s \in Record : HashOf[r] = HashOf[s] => r = s
    /\ ChainPrev \in [Record -> Digest]
    /\ EventId \in [Record -> Event]

ASSUME BoundAssumption == Capacity \in Nat \ {0} /\ MaxReported \in Nat

Segment == [recs : Seq(Record), readable : BOOLEAN]

IndexState == {"absent", "matches", "differs", "unusable"}

Directory == [segs : Seq(Segment), index : IndexState]

ASSUME StreamAssumption == Streams \subseteq Directory

VARIABLES
    stream,        \* the directory; the walk only reads it
    phase,         \* "walk" or "done"
    si,            \* the segment being walked
    ri,            \* records of it already walked
    window,        \* RecentEventIds._order
    prevHash,      \* verify_chain's prev_hash
    firstPrev,     \* verify_chain's first_prev
    segErrs,       \* verify_chain's errs
    hidden,        \* verify_chain's hidden
    prevLast,      \* prev_last_hash
    prevUnlinked,  \* prev_unlinked is not None
    errs,          \* the findings of the directory
    counts         \* segment |-> records walked

chainVars == <<stream, phase, si, ri, window, prevHash, firstPrev, segErrs, hidden,
          prevLast, prevUnlinked, errs, counts>>

Finding(s, i, kind) == [seg |-> s, at |-> i, kind |-> kind]

Kinds == {"repeat", "link", "hidden", "genesis", "boundary", "unverified",
          "empty", "unreadable", "index", "no segments"}

Findings == [seg : Nat, at : Nat, kind : Kinds]

SegmentSeen == si <= Len(stream.segs)
Recs == stream.segs[si].recs
-----------------------------------------------------------------------------
WalkStarted ==
    /\ phase = IF stream.segs = <<>> THEN "done" ELSE "walk"
    /\ errs = CASE stream.segs = <<>>          -> <<Finding(0, 0, "no segments")>>
                [] stream.segs # <<>> /\ stream.index = "unusable"
                                               -> <<Finding(0, 0, "index")>>
                [] OTHER                       -> <<>>
    /\ si = 1 /\ ri = 0
    /\ window = <<>>
    /\ prevHash = None /\ firstPrev = None
    /\ segErrs = <<>> /\ hidden = 0
    /\ prevLast = None /\ prevUnlinked = FALSE
    /\ counts = <<>>

ChainInit == stream \in Streams /\ WalkStarted

InWindow(e) == \E i \in 1..Len(window) : window[i] = e

\* RecentEventIds.seen_before: an id already in the window is not refreshed.
Remember(e) ==
    LET longer == Append(window, e)
    IN  IF InWindow(e) THEN window
        ELSE IF Len(longer) > Capacity THEN Tail(longer) ELSE longer

\* verify_chain's report(): past the cap a finding is only counted.
Report(new) ==
    LET all  == segErrs \o new
        kept == IF Len(all) <= MaxReported THEN Len(all) ELSE MaxReported
    IN  /\ segErrs' = SubSeq(all, 1, kept)
        /\ hidden' = hidden + (Len(all) - kept)

\* Mutant: an off-by-one leaves the second record of a later segment unchecked too.
LinkBrokenLate(r) ==
    /\ ~(ri <= 1 /\ si > 1)
    /\ ChainPrev[r] # IF prevHash = None THEN Genesis ELSE prevHash

\* The first record of a later segment is left to the caller's boundary check.
LinkBroken(r) ==
    /\ ~(ri = 0 /\ si > 1)
    /\ ChainPrev[r] # IF prevHash = None THEN Genesis ELSE prevHash

WalkRecord ==
    /\ phase = "walk" /\ SegmentSeen
    /\ ri < Len(Recs)
    /\ LET r == Recs[ri + 1]
       IN  /\ Report((IF InWindow(EventId[r])
                        THEN <<Finding(si, ri + 1, "repeat")>> ELSE <<>>)
                     \o (IF LinkBroken(r)
                           THEN <<Finding(si, ri + 1, "link")>> ELSE <<>>))
           /\ window' = Remember(EventId[r])
           /\ firstPrev' = IF firstPrev = None THEN ChainPrev[r] ELSE firstPrev
           /\ prevHash' = HashOf[r]
    /\ ri' = ri + 1
    /\ UNCHANGED <<stream, phase, si, prevLast, prevUnlinked, errs, counts>>

NextSegment ==
    /\ si' = si + 1
    /\ ri' = 0
    /\ prevHash' = None /\ firstPrev' = None
    /\ segErrs' = <<>> /\ hidden' = 0
    /\ UNCHANGED <<stream, phase, window>>

\* Mutant: the partial count of a segment that raised is attested.
SegmentRaisesCounted ==
    /\ phase = "walk" /\ SegmentSeen
    /\ ri = Len(Recs) /\ ~stream.segs[si].readable
    /\ errs' = Append(errs, Finding(si, 0, "unreadable"))
    /\ prevLast' = None /\ prevUnlinked' = TRUE
    /\ counts' = Append(counts, [seg |-> si, records |-> ri])
    /\ NextSegment

\* A bad line raises out of verify_chain: its findings and its count are lost,
\* the eventIds it remembered are not.
SegmentRaises ==
    /\ phase = "walk" /\ SegmentSeen
    /\ ri = Len(Recs) /\ ~stream.segs[si].readable
    /\ errs' = Append(errs, Finding(si, 0, "unreadable"))
    /\ prevLast' = None /\ prevUnlinked' = TRUE
    /\ UNCHANGED counts
    /\ NextSegment

SegmentRead ==
    /\ phase = "walk" /\ SegmentSeen
    /\ ri = Len(Recs) /\ stream.segs[si].readable
    /\ counts' = Append(counts, [seg |-> si, records |-> ri])

SegmentEmpty ==
    /\ SegmentRead
    /\ ri = 0
    /\ errs' = Append(errs, Finding(si, 0, "empty"))
    /\ prevLast' = None /\ prevUnlinked' = TRUE
    /\ NextSegment

\* What the caller adds about the link into the segment just walked.
BoundaryFindings ==
    CASE si = 1 /\ firstPrev # Genesis -> <<Finding(si, 1, "genesis")>>
      [] si > 1 /\ prevUnlinked        -> <<Finding(si, 1, "unverified")>>
      [] si > 1 /\ ~prevUnlinked /\ firstPrev # prevLast
                                       -> <<Finding(si, 1, "boundary")>>
      [] OTHER                         -> <<>>

SegmentWalked ==
    /\ SegmentRead
    /\ ri > 0
    /\ errs' = errs \o segErrs
                    \o (IF hidden > 0 THEN <<Finding(si, 0, "hidden")>> ELSE <<>>)
                    \o BoundaryFindings
    /\ prevLast' = prevHash /\ prevUnlinked' = FALSE
    /\ NextSegment

\* _index_errors against the listing, once every segment was walked.
CheckIndex ==
    /\ phase = "walk" /\ ~SegmentSeen
    /\ phase' = "done"
    /\ errs' = errs \o (IF stream.index = "differs"
                          THEN <<Finding(0, 0, "index")>> ELSE <<>>)
    /\ UNCHANGED <<stream, si, ri, window, prevHash, firstPrev, segErrs, hidden,
                   prevLast, prevUnlinked, counts>>

Done == phase = "done" /\ UNCHANGED chainVars

ChainNext == WalkRecord \/ SegmentRaises \/ SegmentEmpty \/ SegmentWalked
          \/ CheckIndex \/ Done

ChainSpec == ChainInit /\ [][ChainNext]_chainVars
-----------------------------------------------------------------------------
\* The types, and the memory bounds SCHEMAS.md promises: the window never holds
\* more than Capacity ids and a segment never more than MaxReported findings.
ChainTypeOK ==
    /\ stream \in Directory
    /\ phase \in {"walk", "done"}
    /\ si \in Nat \ {0} /\ ri \in Nat
    /\ window \in Seq(Event) /\ Len(window) <= Capacity
    /\ prevHash \in Digest \cup {None}
    /\ firstPrev \in Digest \cup {None}
    /\ segErrs \in Seq(Findings) /\ Len(segErrs) <= MaxReported
    /\ hidden \in Nat
    /\ prevLast \in Digest \cup {None}
    /\ prevUnlinked \in BOOLEAN
    /\ errs \in Seq(Findings)
    /\ counts \in Seq([seg : Nat, records : Nat])

\* What the record at (s, i) of directory d must chain to: the record before it.
LinkInto(d, s, i) ==
    IF i > 1 THEN HashOf[d.segs[s].recs[i - 1]]
    ELSE IF s = 1 THEN Genesis
    ELSE LET before == d.segs[s - 1].recs IN HashOf[before[Len(before)]]

Linked(d, s, i) == ChainPrev[d.segs[s].recs[i]] = LinkInto(d, s, i)

\* SCHEMAS.md's evidence stream: every segment holds records, and each record
\* chains to the one before it, across segments, back to genesis.
Unbroken(d) ==
    /\ d.segs # <<>>
    /\ \A s \in 1..Len(d.segs) :
          /\ d.segs[s].readable
          /\ d.segs[s].recs # <<>>
          /\ \A i \in 1..Len(d.segs[s].recs) : Linked(d, s, i)

\* A directory is reported clean only when it is one unbroken chain: no
\* combination of unreadable, empty or unlinked segments, and no number of
\* findings past the cap, makes the walk lose a break (verify_dir).
CleanMeansUnbroken == phase = "done" /\ errs = <<>> => Unbroken(stream)
=============================================================================
