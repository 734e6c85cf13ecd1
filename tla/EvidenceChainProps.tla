------------------------- MODULE EvidenceChainProps -------------------------
(***************************************************************************)
(* What the verdict of EvidenceChain has to mean, stated over the places   *)
(* of the records in the stream: a place is a segment and a position.      *)
(***************************************************************************)
EXTENDS EvidenceChain, FiniteSets

Segs == stream.segs
Finished == phase = "done"
Clean == Finished /\ errs = <<>>

Places(d) == UNION {{s} \X (1..Len(d.segs[s].recs)) : s \in 1..Len(d.segs)}

RecordAt(d, p) == d.segs[p[1]].recs[p[2]]

\* The order of the chain: by segment, and by line within one.
Before(p, q) == p[1] < q[1] \/ (p[1] = q[1] /\ p[2] < q[2])

\* How many records there are from p on, up to the one before q.
Distance(d, p, q) == Cardinality({r \in Places(d) : ~Before(r, p) /\ Before(r, q)})

Reported(s, i, kinds) ==
    \E n \in 1..Len(errs) : errs[n].seg = s /\ errs[n].at = i /\ errs[n].kind \in kinds

Repeats(p, q) ==
    /\ Before(p, q)
    /\ EventId[RecordAt(stream, p)] = EventId[RecordAt(stream, q)]

\* An id occurs at q and at one of the Capacity records before it.
RepeatAt(q) ==
    \E p \in Places(stream) : Repeats(p, q) /\ Distance(stream, p, q) <= Capacity

IndexOK == stream.index \in {"absent", "matches"}

UnbrokenStreams == {d \in Streams : Unbroken(d)}

\* The records from p to the end of the stream.
FromEnd(d, p) == Cardinality({r \in Places(d) : ~Before(r, p)})

\* The two directories hold the same records in the same order, however cut.
SameRecords(d, e) ==
    /\ Cardinality(Places(d)) = Cardinality(Places(e))
    /\ \A p \in Places(d), q \in Places(e) :
          FromEnd(d, p) = FromEnd(e, q) => RecordAt(d, p) = RecordAt(e, q)

FinalPlace(d) == <<Len(d.segs), Len(d.segs[Len(d.segs)].recs)>>

(***************************************************************************)
(* Properties                                                              *)
(***************************************************************************)
\* Tamper evidence: the last record of a clean stream fixes every record before
\* it.  No other unbroken stream ends in it, so an edit, an insertion, a removal
\* or a swap anywhere but at the end is found (SCHEMAS.md, "Evidence stream").
TamperEvident ==
    Clean => \A d \in UnbrokenStreams :
        RecordAt(d, FinalPlace(d)) = RecordAt(stream, FinalPlace(stream)) => SameRecords(d, stream)

\* No false alarm: an unbroken stream without a repeat inside the window, beside
\* an index that fits, is reported clean however it is cut into segments.
NoFalseAlarm ==
    Finished /\ Unbroken(stream) /\ IndexOK /\ ~(\E q \in Places(stream) : RepeatAt(q))
        => errs = <<>>

\* A clean stream repeats no eventId within the window, in one segment or across.
RepeatsFound == Clean => ~(\E q \in Places(stream) : RepeatAt(q))

\* The segment before s was read to its end and holds records.
KnownBefore(s) == Segs[s - 1].readable /\ Segs[s - 1].recs # <<>>

\* Every chain finding is about a link that is broken, and every repeat about an
\* id that occurred before: a segment that could not be read must not turn into
\* a break of the segment after it (the comment on prev_unlinked).
Justified(f) ==
    /\ f.kind \in {"link", "genesis", "boundary"} =>
          /\ <<f.seg, f.at>> \in Places(stream)
          /\ f.at = 1 /\ f.seg > 1 => KnownBefore(f.seg)
          /\ ~Linked(stream, f.seg, f.at)
    /\ f.kind = "repeat" =>
          /\ <<f.seg, f.at>> \in Places(stream)
          /\ \E p \in Places(stream) : Repeats(p, <<f.seg, f.at>>)

FindingsReal == Finished => \A n \in 1..Len(errs) : Justified(errs[n])

Named(s, i) ==
    \/ Reported(s, i, {"link", "genesis", "boundary"})
    \/ Reported(s, 0, {"hidden"})

\* A broken link in a segment read to its end, to a record that was read.
Visible(s, i) ==
    /\ Segs[s].readable
    /\ i = 1 /\ s > 1 => KnownBefore(s)
    /\ ~Linked(stream, s, i)

\* A broken link in a segment that was read to its end is named at the record that
\* does not chain, or the segment's report says that it left findings out.  That is
\* what OPERATIONS.md says of a restore (a broken link names the first record that
\* does not chain); its table of incidents calls it the first tampered record, which
\* is the one before when a record was edited and its own chainPrev left alone.  What
\* a segment breaks before a bad line of its own is dropped with that segment.
BreaksNamed ==
    Finished => \A p \in Places(stream) : Visible(p[1], p[2]) => Named(p[1], p[2])

\* The counts a manifest attests: in chain order one entry per segment read to its
\* end, with all of its records, and none for a segment that failed to parse.
CountsExact ==
    Finished =>
        /\ \A n \in 1..Len(counts) :
              /\ counts[n].seg \in 1..Len(Segs) /\ Segs[counts[n].seg].readable
              /\ counts[n].records = Len(Segs[counts[n].seg].recs)
        /\ \A m, n \in 1..Len(counts) : m < n => counts[m].seg < counts[n].seg
        /\ \A s \in 1..Len(Segs) :
              Segs[s].readable => \E n \in 1..Len(counts) : counts[n].seg = s

\* The chain walk's verdict: a clean one means an unbroken chain without repeats, and
\* fixes every record, and an unbroken stream gets one however it is cut.
ChainVerdict == CleanMeansUnbroken /\ TamperEvident /\ NoFalseAlarm /\ RepeatsFound

\* The chain walk's report: what it names is so, every break in a segment read to its
\* end is named, the counts are of those segments, and what it remembers stays bounded.
ChainReport == ChainTypeOK /\ FindingsReal /\ BreaksNamed /\ CountsExact
=============================================================================
