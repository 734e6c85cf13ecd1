--------------------------- MODULE DirectoryProofs --------------------------
(***************************************************************************)
(* What copying and removing files does to a directory, for the proofs     *)
(* about exports and drills.                                               *)
(***************************************************************************)
EXTENDS EvidenceDirectory, NumberProofs, FiniteSetTheorems, TLAPS

\* A directory with fewer files is a directory.
LEMMA KeepType ==
    ASSUME NEW d, IsDirectory(d), NEW F \in SUBSET DOMAIN d
    PROVE  IsDirectory(Keep(d, F))
  BY DEF IsDirectory, Keep

\* So is one that a segment was put into ...
LEMMA PutSegmentType ==
    ASSUME NEW d, IsDirectory(d), NEW s \in SegmentId, NEW c \in SegmentContent
    PROVE  IsDirectory(Put(d, s, c))
<1>1. s \in File /\ s # IndexFile
  BY DirectoryAssumption DEF SegmentId, File, IndexFile
<1> QED BY <1>1 DEF IsDirectory, Put

\* ... and one that the index was put into.
LEMMA PutIndexType ==
    ASSUME NEW d, IsDirectory(d), NEW c \in IndexContent
    PROVE  IsDirectory(Put(d, IndexFile, c))
<1>1. IndexFile \in File
  BY DirectoryAssumption DEF File, IndexFile
<1> QED BY <1>1 DEF IsDirectory, Put

\* A file copied from one directory into another.
LEMMA PutFileType ==
    ASSUME NEW d, IsDirectory(d), NEW e, IsDirectory(e), NEW f \in DOMAIN e
    PROVE  IsDirectory(Put(d, f, e[f]))
  BY DEF IsDirectory, Put

LEMMA SegmentType ==
    ASSUME NEW d, IsDirectory(d), NEW s \in Segments(d)
    PROVE  s \in SegmentId /\ s \in DOMAIN d /\ d[s] \in SegmentContent
<1>1. s # IndexFile
  BY DirectoryAssumption DEF Segments, SegmentId, IndexFile
<1> QED BY <1>1 DEF IsDirectory, Segments

LEMMA RecordsType ==
    ASSUME NEW d, IsDirectory(d)
    PROVE  Records(d) \in SUBSET (1..MaxRecord)
<1>1. ASSUME NEW s \in Segments(d), NEW r \in d[s].first..d[s].last
      PROVE  r \in 1..MaxRecord
  BY SegmentType, DirectoryAssumption DEF SegmentContent
<1> QED BY <1>1 DEF Records

\* The verdict on a directory depends on its files and their contents only.
LEMMA SameFilesSameVerdict ==
    ASSUME NEW d, NEW e, DOMAIN d = DOMAIN e, \A f \in DOMAIN d : d[f] = e[f], ChainOK(d)
    PROVE  ChainOK(e)
<1>1. Segments(e) = Segments(d) /\ \A s \in Segments(d) : s \in DOMAIN d
  BY DEF Segments
<1>2. ASSUME NEW s \in Segments(d)
      PROVE  ~e[s].torn /\ e[s].first <= e[s].last /\ LinksBack(e, s)
  <2>1. \A t \in Segments(d) : e[t] = d[t]
    BY <1>1
  <2>2. ~d[s].torn /\ d[s].first <= d[s].last /\ LinksBack(d, s)
    BY DEF ChainOK
  <2>3. LinksBack(e, s)
    BY <1>1, <2>1, <2>2 DEF LinksBack
  <2> QED BY <2>1, <2>2, <2>3
<1>3. IndexFile \in DOMAIN e => e[IndexFile].listed = Segments(e)
  BY <1>1 DEF ChainOK
<1> QED BY <1>1, <1>2, <1>3 DEF ChainOK

\* Files are numbers, so a set of them has a first.
LEMMA FirstFile ==
    ASSUME NEW F \in SUBSET File, F # {}
    PROVE  \E m \in F : \A n \in F : m <= n
<1>1. F \in SUBSET Nat
  BY DirectoryAssumption DEF File, IndexFile
<1> QED BY <1>1, LeastOf

\* A chain that verifies holds every record up to the last of any of its segments ...
LEMMA ChainReaches ==
    ASSUME NEW d, IsDirectory(d), ChainOK(d), NEW s \in Segments(d), NEW r \in 1..d[s].last
    PROVE  r \in Records(d)
<1> DEFINE F == {t \in Segments(d) : r <= d[t].last}
<1>1. F \in SUBSET File /\ F # {}
  <2>1. F \subseteq Segments(d) /\ Segments(d) \subseteq File
    BY DEF Segments, IsDirectory
  <2>2. d[s].last \in Int
    BY SegmentType, DirectoryAssumption DEF SegmentContent
  <2>3. s \in F
    BY <2>2
  <2> QED BY <2>1, <2>3
<1>2. PICK m \in F : \A n \in F : m <= n
  <2> HIDE DEF F
  <2> QED BY <1>1, FirstFile
<1>3. m \in Segments(d) /\ r <= d[m].last /\ d[m] \in SegmentContent /\ LinksBack(d, m)
  BY SegmentType DEF ChainOK
<1>4. d[m].first <= r
  <2>1. CASE \A t \in Segments(d) : m <= t
    <3>1. d[m].first = 1
      BY <1>3, <2>1 DEF LinksBack
    <3> QED BY <3>1
  <2>2. CASE ~ \A t \in Segments(d) : m <= t
    <3>1. PICK t \in Segments(d) : t < m /\ d[m].first = d[t].last + 1
      BY <1>3, <2>2 DEF LinksBack
    <3>2. t \in Int /\ m \in Int /\ d[t].last \in Int
      BY <1>3, SegmentType, DirectoryAssumption DEF SegmentContent, SegmentId
    <3>3. t \notin F
      BY <1>2, <3>1, <3>2
    <3>4. ~ (r <= d[t].last)
      BY <3>3
    <3> QED BY <3>1, <3>2, <3>4
  <2> QED BY <2>1, <2>2
<1>5. r \in d[m].first..d[m].last
  BY <1>3, <1>4, DirectoryAssumption DEF SegmentContent
<1> QED BY <1>3, <1>5 DEF Records

\* ... and nothing else: it is the stream up to its furthest segment.
LEMMA ChainIsStream ==
    ASSUME NEW d, IsDirectory(d), ChainOK(d)
    PROVE  \E s \in Segments(d) : /\ Records(d) = 1..d[s].last
                                  /\ \A t \in Segments(d) : d[t].last <= d[s].last
                                  /\ 1 <= d[s].last
<1> DEFINE L == {d[t].last : t \in Segments(d)}
<1>1. L \in SUBSET (0..MaxRecord) /\ L # {}
  BY SegmentType DEF ChainOK, SegmentContent
<1>2. PICK m \in L : \A n \in L : n <= m
  <2> HIDE DEF L
  <2> QED BY <1>1, DirectoryAssumption, LargestOf
<1>3. PICK s \in Segments(d) : m = d[s].last
  OBVIOUS
<1>4. \A t \in Segments(d) : d[t].last <= d[s].last
  BY <1>2, <1>3
<1>5. 1 <= d[s].last
  <2>1. d[s] \in SegmentContent /\ d[s].first <= d[s].last
    BY SegmentType DEF ChainOK
  <2> QED BY <2>1, DirectoryAssumption DEF SegmentContent
<1>6. \A r \in 1..d[s].last : r \in Records(d)
  BY ChainReaches
<1>7. ASSUME NEW r \in Records(d) PROVE r \in 1..d[s].last
  <2>1. PICK t \in Segments(d) : r \in d[t].first..d[t].last
    BY <1>7 DEF Records
  <2>2. d[t].last <= d[s].last /\ d[t] \in SegmentContent /\ d[s] \in SegmentContent
    BY <1>4, SegmentType
  <2> QED BY <2>1, <2>2, DirectoryAssumption DEF SegmentContent
<1>8. Records(d) = 1..d[s].last
  BY <1>6, <1>7
<1> QED BY <1>4, <1>5, <1>8

\* A count of leftovers that grows by at most one, and by none.
LEMMA OneMore ==
    ASSUME NEW S, IsFiniteSet(S), NEW T, NEW x, T \subseteq S \cup {x}, NEW n \in Nat,
           Cardinality(S) <= n
    PROVE  IsFiniteSet(T) /\ Cardinality(T) <= n + 1
<1>1. /\ IsFiniteSet(S \cup {x}) /\ Cardinality(S) \in Nat
      /\ Cardinality(S \cup {x}) <= Cardinality(S) + 1
  <2>1. Cardinality(S) \in Nat
    BY FS_CardinalityType
  <2>2. /\ IsFiniteSet(S \cup {x})
        /\ Cardinality(S \cup {x}) = IF x \in S THEN Cardinality(S) ELSE Cardinality(S) + 1
    BY FS_AddElement, Zenon
  <2> QED BY <2>1, <2>2
<1>2. IsFiniteSet(T) /\ Cardinality(T) <= Cardinality(S \cup {x})
  <2>1. T \in SUBSET (S \cup {x})
    OBVIOUS
  <2> QED BY <1>1, <2>1, FS_Subset
<1>3. Cardinality(S \cup {x}) \in Nat /\ Cardinality(T) \in Nat
  BY <1>1, <1>2, FS_CardinalityType
<1> QED BY <1>1, <1>2, <1>3

LEMMA NoneMore ==
    ASSUME NEW S, IsFiniteSet(S), NEW T, T \subseteq S, NEW n \in Nat, Cardinality(S) <= n
    PROVE  IsFiniteSet(T) /\ Cardinality(T) <= n
<1>1. Cardinality(S) \in Nat
  BY FS_CardinalityType
<1>2. IsFiniteSet(T) /\ Cardinality(T) <= Cardinality(S)
  <2>1. T \in SUBSET S
    OBVIOUS
  <2> QED BY <2>1, FS_Subset
<1>3. Cardinality(T) \in Nat
  BY <1>2, FS_CardinalityType
<1> QED BY <1>1, <1>2, <1>3
=============================================================================
