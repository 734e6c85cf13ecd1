-------------------------- MODULE EvidenceChainMC --------------------------
(***************************************************************************)
(* Two families of directories.  The first tries every short sequence over *)
(* seven records, in every cut: the genuine chain a1 a2 a3 a4, b2 (a2      *)
(* edited in place), and c3 and c4, which append a1's event a second time. *)
(* The second is one long genuine chain and what the writer, a purge and   *)
(* an expiry make of it.                                                   *)
(***************************************************************************)
EXTENDS EvidenceChainProps, SequencesExt

MCRecord == {"a1", "a2", "a3", "a4", "b2", "c3", "c4"}
MCDigest == MCRecord \cup {"genesis"}
MCHashOf == [r \in MCRecord |-> r]
MCChainPrev ==
    [r \in MCRecord |-> CASE r = "a1"           -> "genesis"
                          [] r \in {"a2", "b2"} -> "a1"
                          [] r \in {"a3", "c3"} -> "a2"
                          [] OTHER              -> "a3"]
MCEvent == 1..4
\* c3 repeats a1's event two records later, c4 three records later.
MCEventId ==
    [r \in MCRecord |-> CASE r \in {"a1", "c3", "c4"} -> 1
                          [] r \in {"a2", "b2"}       -> 2
                          [] r = "a3"                 -> 3
                          [] OTHER                    -> 4]
\* flat cut into one, two or three consecutive segments after the positions of c.
Cut(flat, c) ==
    LET ends == <<0>> \o [k \in 1..Len(c) |-> Min({c[k], Len(flat)})] \o <<Len(flat)>>
    IN  [s \in 1..(Len(c) + 1) |-> SubSeq(flat, ends[s] + 1, ends[s + 1])]

CutPoints == {<<>>} \cup [1..1 -> 0..3] \cup {c \in [1..2 -> 0..3] : c[1] <= c[2]}

Flats == UNION {[1..n -> MCRecord] : n \in 0..3}
           \cup {<<"a1", "a2", "a3">> \o t : t \in [1..1 -> MCRecord] \cup [1..2 -> {"a4", "c4", "b2"}]}

\* The directory with that cut, of which at most one segment has a bad line.
DirectoryOf(flat, c, bad, x) ==
    [segs  |-> [s \in 1..(Len(c) + 1) |-> [recs |-> Cut(flat, c)[s], readable |-> s # bad]],
     index |-> x]

MCStreams ==
    {DirectoryOf(f, c, bad, x) : f \in Flats, c \in CutPoints, bad \in 0..3, x \in {"absent", "differs"}}
      \cup {DirectoryOf(<<"a1", "a2">>, c, bad, "unusable") : c \in CutPoints, bad \in 0..3}
      \cup {[segs |-> <<>>, index |-> "absent"]}
-----------------------------------------------------------------------------
\* The chain 1..5.
LongRecord == 1..5
LongDigest == 0..20
LongHashOf == [r \in LongRecord |-> r]
LongChainPrev == [r \in LongRecord |-> r - 1]
LongEvent == 1..20
LongEventId == [r \in LongRecord |-> r]

ExpiredStreams == {DirectoryOf(f, c, 0, "matches") :
                    f \in {<<1, 2, 3>>, <<2, 3>>, <<3, 4, 5>>}, c \in CutPoints}
-----------------------------------------------------------------------------
(* What an expiry leaves of a stream that verified. *)

Flat == FlattenSeq([s \in 1..Len(Segs) |-> Segs[s].recs])

\* The one chain that ends in record r, followed back through chainPrev.
PathTo[r \in Record] ==
    LET before == {s \in Record : HashOf[s] = ChainPrev[r]}
    IN  IF ChainPrev[r] = Genesis \/ before = {} THEN <<r>>
        ELSE Append(PathTo[CHOOSE s \in before : TRUE], r)

WellKept ==
    IndexOK /\ Flat # <<>> /\ \A s \in 1..Len(Segs) : Segs[s].readable /\ Segs[s].recs # <<>>

\* TEST_PLAN.md: the evidence verifies its hash chain, rotates and expires.  What
\* is left of a stream that verified, once its oldest segments expired, verifies.
ExpiryKeepsChain ==
    Finished /\ WellKept /\ IsSuffix(Flat, PathTo[Last(Flat)]) => errs = <<>>
=============================================================================
