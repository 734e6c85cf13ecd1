------------------------- MODULE EvidenceChainProofs ------------------------
(***************************************************************************)
(* The verdict and the report of the chain walk, proved for every stream,  *)
(* window and cap.                                                         *)
(***************************************************************************)
EXTENDS EvidenceChainProps, NumberProofs, FiniteSetTheorems, TLAPS

-----------------------------------------------------------------------------
(* The places of a directory and their order. *)

LEMMA Shape ==
    ASSUME NEW d \in Directory
    PROVE  /\ d.segs \in Seq(Segment) /\ Len(d.segs) \in Nat
           /\ d.index \in IndexState
           /\ \A s \in 1..Len(d.segs) :
                 /\ d.segs[s].recs \in Seq(Record) /\ d.segs[s].readable \in BOOLEAN
                 /\ Len(d.segs[s].recs) \in Nat
                 /\ d.segs[s].recs = <<>> <=> Len(d.segs[s].recs) = 0
                 /\ \A i \in 1..Len(d.segs[s].recs) : d.segs[s].recs[i] \in Record
<1>1. d.segs \in Seq(Segment) /\ d.index \in IndexState
  BY DEF Directory
<1>2. Len(d.segs) \in Nat
  BY <1>1
<1>3. ASSUME NEW s \in 1..Len(d.segs) PROVE d.segs[s] \in Segment
  BY <1>1, <1>3
<1>4. ASSUME NEW s \in 1..Len(d.segs)
      PROVE  /\ d.segs[s].recs \in Seq(Record) /\ d.segs[s].readable \in BOOLEAN
             /\ Len(d.segs[s].recs) \in Nat
             /\ d.segs[s].recs = <<>> <=> Len(d.segs[s].recs) = 0
             /\ \A i \in 1..Len(d.segs[s].recs) : d.segs[s].recs[i] \in Record
  <2>1. d.segs[s].recs \in Seq(Record) /\ d.segs[s].readable \in BOOLEAN
    BY <1>3 DEF Segment
  <2> QED BY <2>1
<1> QED BY <1>1, <1>2, <1>4

LEMMA PlaceType ==
    ASSUME NEW d, NEW p
    PROVE  p \in Places(d) <=> /\ p = <<p[1], p[2]>>
                               /\ p[1] \in 1..Len(d.segs)
                               /\ p[2] \in 1..Len(d.segs[p[1]].recs)
<1>1. ASSUME p \in Places(d)
      PROVE  /\ p = <<p[1], p[2]>> /\ p[1] \in 1..Len(d.segs)
             /\ p[2] \in 1..Len(d.segs[p[1]].recs)
  <2>1. PICK s \in 1..Len(d.segs) : p \in {s} \X (1..Len(d.segs[s].recs))
    BY <1>1 DEF Places
  <2>2. p[1] = s
    BY <2>1
  <2> QED BY <2>1, <2>2
<1>2. ASSUME p = <<p[1], p[2]>>, p[1] \in 1..Len(d.segs), p[2] \in 1..Len(d.segs[p[1]].recs)
      PROVE  p \in Places(d)
  <2>1. p \in {p[1]} \X (1..Len(d.segs[p[1]].recs))
    BY <1>2
  <2> QED BY <1>2, <2>1 DEF Places
<1> QED BY <1>1, <1>2

LEMMA PlaceFacts ==
    ASSUME NEW d \in Directory, NEW p \in Places(d)
    PROVE  /\ p = <<p[1], p[2]>> /\ p[1] \in Nat /\ p[2] \in Nat
           /\ 1 <= p[1] /\ p[1] <= Len(d.segs)
           /\ 1 <= p[2] /\ p[2] <= Len(d.segs[p[1]].recs)
           /\ RecordAt(d, p) \in Record
<1>1. p = <<p[1], p[2]>> /\ p[1] \in 1..Len(d.segs) /\ p[2] \in 1..Len(d.segs[p[1]].recs)
  BY PlaceType
<1>2. Len(d.segs) \in Nat /\ Len(d.segs[p[1]].recs) \in Nat /\ d.segs[p[1]].recs[p[2]] \in Record
  BY <1>1, Shape
<1> QED BY <1>1, <1>2 DEF RecordAt

LEMMA PlacesFinite ==
    ASSUME NEW d \in Directory
    PROVE  IsFiniteSet(Places(d))
<1> DEFINE Line(s) == {s} \X (1..Len(d.segs[s].recs))
           Lines == {Line(s) : s \in 1..Len(d.segs)}
           f == [s \in 1..Len(d.segs) |-> Line(s)]
<1>1. IsFiniteSet(1..Len(d.segs))
  BY Shape, FS_Interval
<1>2. f \in Surjection(1..Len(d.segs), Lines)
  BY DEF Surjection
<1>3. IsFiniteSet(Lines)
  <2> HIDE DEF f, Lines
  <2> QED BY <1>1, <1>2, FS_Surjection
<1>4. ASSUME NEW s \in 1..Len(d.segs) PROVE IsFiniteSet(Line(s))
  <2>1. Len(d.segs[s].recs) \in Nat
    BY Shape
  <2>2. IsFiniteSet(1..Len(d.segs[s].recs))
    <3>1. 1 \in Int /\ Len(d.segs[s].recs) \in Int
      BY <2>1
    <3> QED BY <3>1, FS_Interval
  <2>3. IsFiniteSet({s})
    BY FS_Singleton, Zenon
  <2> QED BY <2>2, <2>3, FS_Product
<1>5. \A T \in Lines : IsFiniteSet(T)
  <2> HIDE DEF Line
  <2> QED BY <1>4
<1>6. Places(d) = UNION Lines
  BY DEF Places
<1> QED
  <2> HIDE DEF Lines
  <2> QED BY <1>3, <1>5, <1>6, FS_UNION

\* Places before p, or from p on, in a finite stream.
LEMMA CountType ==
    ASSUME NEW d \in Directory, NEW S \in SUBSET Places(d)
    PROVE  IsFiniteSet(S) /\ Cardinality(S) \in Nat
  BY PlacesFinite, FS_Subset, FS_CardinalityType

\* One more place is one more.
LEMMA CountOneMore ==
    ASSUME NEW d \in Directory, NEW S \in SUBSET Places(d), NEW p \in Places(d), p \notin S
    PROVE  Cardinality(S \cup {p}) = Cardinality(S) + 1
  BY CountType, FS_AddElement

LEMMA OrderIsTotal ==
    ASSUME NEW d \in Directory, NEW p \in Places(d), NEW q \in Places(d)
    PROVE  /\ p = q \/ Before(p, q) \/ Before(q, p)
           /\ ~Before(p, p)
           /\ Before(p, q) => ~Before(q, p)
  BY PlaceFacts DEF Before

-----------------------------------------------------------------------------
(* Two unbroken streams that end in the same record. *)

\* The place after p, which is not the final one.
Following(d, p) == IF p[2] < Len(d.segs[p[1]].recs) THEN <<p[1], p[2] + 1>> ELSE <<p[1] + 1, 1>>

LEMMA UnbrokenShape ==
    ASSUME NEW d \in Directory, Unbroken(d)
    PROVE  /\ Len(d.segs) \in Nat /\ 1 <= Len(d.segs)
           /\ \A s \in 1..Len(d.segs) :
                 /\ Len(d.segs[s].recs) \in Nat /\ 1 <= Len(d.segs[s].recs)
                 /\ \A i \in 1..Len(d.segs[s].recs) : Linked(d, s, i)
           /\ <<1, 1>> \in Places(d) /\ FinalPlace(d) \in Places(d)
<1>1. Len(d.segs) \in Nat /\ d.segs \in Seq(Segment) /\ d.segs # <<>>
  BY Shape DEF Unbroken
<1>2. 1 <= Len(d.segs)
  BY <1>1
<1>3. ASSUME NEW s \in 1..Len(d.segs)
      PROVE  /\ Len(d.segs[s].recs) \in Nat /\ 1 <= Len(d.segs[s].recs)
             /\ \A i \in 1..Len(d.segs[s].recs) : Linked(d, s, i)
  <2>1. d.segs[s].recs # <<>> /\ \A i \in 1..Len(d.segs[s].recs) : Linked(d, s, i)
    BY DEF Unbroken
  <2>2. Len(d.segs[s].recs) \in Nat /\ (d.segs[s].recs = <<>> <=> Len(d.segs[s].recs) = 0)
    BY Shape
  <2> QED BY <2>1, <2>2
<1>4. ASSUME NEW s \in 1..Len(d.segs), NEW i \in 1..Len(d.segs[s].recs)
      PROVE  <<s, i>> \in Places(d)
  BY PlaceType
<1>5. <<1, 1>> \in Places(d)
  <2>1. 1 \in 1..Len(d.segs) /\ 1 \in 1..Len(d.segs[1].recs)
    BY <1>1, <1>2, <1>3
  <2> QED BY <1>4, <2>1
<1>6. FinalPlace(d) \in Places(d)
  <2>1. Len(d.segs) \in 1..Len(d.segs) /\ Len(d.segs[Len(d.segs)].recs) \in 1..Len(d.segs[Len(d.segs)].recs)
    BY <1>1, <1>2, <1>3
  <2> QED BY <1>4, <2>1 DEF FinalPlace
<1> QED BY <1>1, <1>2, <1>3, <1>5, <1>6

\* The place after p is a place, its record chains to the one at p, and nothing is between.
LEMMA NextPlace ==
    ASSUME NEW d \in Directory, Unbroken(d), NEW p \in Places(d), p # FinalPlace(d)
    PROVE  /\ Following(d, p) \in Places(d)
           /\ ChainPrev[RecordAt(d, Following(d, p))] = HashOf[RecordAt(d, p)]
           /\ FromEnd(d, p) = FromEnd(d, Following(d, p)) + 1
<1>1. /\ p = <<p[1], p[2]>> /\ p[1] \in Nat /\ p[2] \in Nat
      /\ 1 <= p[1] /\ p[1] <= Len(d.segs) /\ 1 <= p[2] /\ p[2] <= Len(d.segs[p[1]].recs)
  BY PlaceFacts
<1>2. /\ Len(d.segs) \in Nat
      /\ \A s \in 1..Len(d.segs) :
            /\ Len(d.segs[s].recs) \in Nat /\ 1 <= Len(d.segs[s].recs)
            /\ \A i \in 1..Len(d.segs[s].recs) : Linked(d, s, i)
  BY UnbrokenShape
<1> DEFINE n == Following(d, p)
<1>3. /\ n[1] \in 1..Len(d.segs) /\ n[2] \in 1..Len(d.segs[n[1]].recs) /\ n = <<n[1], n[2]>>
      /\ ChainPrev[d.segs[n[1]].recs[n[2]]] = HashOf[d.segs[p[1]].recs[p[2]]]
      /\ p[2] < Len(d.segs[p[1]].recs) => n[1] = p[1] /\ n[2] = p[2] + 1
      /\ ~(p[2] < Len(d.segs[p[1]].recs)) => n[1] = p[1] + 1 /\ n[2] = 1 /\ p[2] = Len(d.segs[p[1]].recs)
  <2>1. CASE p[2] < Len(d.segs[p[1]].recs)
    <3>1. n = <<p[1], p[2] + 1>>
      BY <2>1 DEF Following
    <3>2. n[1] = p[1] /\ n[2] = p[2] + 1 /\ n = <<n[1], n[2]>>
      BY <3>1
    <3>3. n[1] \in 1..Len(d.segs) /\ n[2] \in 1..Len(d.segs[n[1]].recs)
      BY <1>1, <1>2, <2>1, <3>2
    <3>4. Linked(d, n[1], n[2])
      BY <1>2, <3>3
    <3>5. ChainPrev[d.segs[n[1]].recs[n[2]]] = HashOf[d.segs[n[1]].recs[n[2] - 1]]
      <4>1. n[2] > 1
        BY <1>1, <3>2
      <4> QED BY <3>4, <4>1 DEF Linked, LinkInto
    <3>6. n[2] - 1 = p[2]
      BY <1>1, <3>2
    <3> QED BY <2>1, <3>2, <3>3, <3>5, <3>6
  <2>2. CASE ~(p[2] < Len(d.segs[p[1]].recs))
    <3>1. n = <<p[1] + 1, 1>>
      BY <2>2 DEF Following
    <3>2. n[1] = p[1] + 1 /\ n[2] = 1 /\ n = <<n[1], n[2]>>
      BY <3>1
    <3>3. p[2] = Len(d.segs[p[1]].recs)
      BY <1>1, <1>2, <2>2
    <3>4. p[1] # Len(d.segs)
      BY <1>1, <3>3 DEF FinalPlace
    <3>5. n[1] \in 1..Len(d.segs) /\ n[2] \in 1..Len(d.segs[n[1]].recs)
      <4>1. n[1] \in 1..Len(d.segs)
        BY <1>1, <1>2, <3>2, <3>4
      <4> QED BY <1>2, <3>2, <4>1
    <3>6. Linked(d, n[1], n[2])
      BY <1>2, <3>5
    <3>7. n[1] - 1 = p[1] /\ n[1] # 1 /\ ~(n[2] > 1)
      BY <1>1, <3>2
    <3>8. ChainPrev[d.segs[n[1]].recs[n[2]]] = HashOf[d.segs[p[1]].recs[Len(d.segs[p[1]].recs)]]
      BY <3>6, <3>7 DEF Linked, LinkInto
    <3> QED BY <2>2, <3>2, <3>3, <3>5, <3>8
  <2> QED BY <2>1, <2>2
<1>4. n \in Places(d)
  BY <1>3, PlaceType
<1> DEFINE After(q) == {r \in Places(d) : ~Before(r, q)}
<1>5. ASSUME NEW r \in Places(d)
      PROVE  ~Before(r, p) <=> ~Before(r, n) \/ r = p
  <2>1. /\ r = <<r[1], r[2]>> /\ r[1] \in Nat /\ r[2] \in Nat
        /\ 1 <= r[1] /\ r[1] <= Len(d.segs) /\ 1 <= r[2] /\ r[2] <= Len(d.segs[r[1]].recs)
    BY PlaceFacts
  <2>2. n[1] \in Nat /\ n[2] \in Nat /\ Len(d.segs[p[1]].recs) \in Nat
    BY <1>1, <1>2, <1>3
  <2>3. r = p <=> r[1] = p[1] /\ r[2] = p[2]
    BY <1>1, <2>1
  <2>4. CASE p[2] < Len(d.segs[p[1]].recs)
    <3>1. n[1] = p[1] /\ n[2] = p[2] + 1
      BY <1>3, <2>4
    <3> HIDE DEF n
    <3> QED BY <1>1, <2>1, <2>2, <2>3, <3>1 DEF Before
  <2>5. CASE ~(p[2] < Len(d.segs[p[1]].recs))
    <3>1. n[1] = p[1] + 1 /\ n[2] = 1 /\ p[2] = Len(d.segs[p[1]].recs)
      BY <1>3, <2>5
    <3>2. r[1] = p[1] => r[2] <= Len(d.segs[p[1]].recs)
      BY <2>1
    <3> HIDE DEF n
    <3> QED BY <1>1, <2>1, <2>2, <2>3, <3>1, <3>2 DEF Before
  <2> QED BY <2>4, <2>5
<1>6. After(p) = After(n) \cup {p} /\ p \notin After(n)
  <2>1. Before(p, n)
    <3>1. p[2] < Len(d.segs[p[1]].recs) \/ ~(p[2] < Len(d.segs[p[1]].recs))
      OBVIOUS
    <3> QED BY <1>1, <1>3, <3>1 DEF Before
  <2> HIDE DEF n
  <2> QED BY <1>5, <2>1
<1>7. Cardinality(After(p)) = Cardinality(After(n)) + 1
  <2>1. After(n) \in SUBSET Places(d)
    OBVIOUS
  <2> HIDE DEF After, n
  <2> QED BY <1>6, <2>1, CountOneMore
<1> QED BY <1>3, <1>4, <1>7 DEF FromEnd, RecordAt

\* The final place is the only one that is one from the end.
LEMMA FinalIsLast ==
    ASSUME NEW d \in Directory, Unbroken(d), NEW p \in Places(d)
    PROVE  FromEnd(d, p) \in Nat /\ (FromEnd(d, p) = 1 => p = FinalPlace(d)) /\ FromEnd(d, p) >= 1
<1> DEFINE After(q) == {r \in Places(d) : ~Before(r, q)}
<1>1. After(p) \in SUBSET Places(d) /\ p \in After(p)
  BY OrderIsTotal
<1>2. Cardinality(After(p)) \in Nat /\ IsFiniteSet(After(p))
  <2> HIDE DEF After
  <2> QED BY <1>1, CountType
<1>3. Cardinality(After(p)) # 0
  <2> HIDE DEF After
  <2> QED BY <1>1, <1>2, FS_EmptySet
<1>4. ASSUME p # FinalPlace(d) PROVE FromEnd(d, p) # 1
  <2>1. Following(d, p) \in Places(d) /\ FromEnd(d, p) = FromEnd(d, Following(d, p)) + 1
    BY <1>4, NextPlace
  <2> DEFINE n == Following(d, p)
  <2>2. After(n) \in SUBSET Places(d) /\ n \in After(n)
    <3> HIDE DEF n
    <3> QED BY <2>1, OrderIsTotal DEF n
  <2>3. Cardinality(After(n)) \in Nat /\ IsFiniteSet(After(n))
    <3> HIDE DEF After, n
    <3> QED BY <2>2, CountType
  <2>4. Cardinality(After(n)) # 0
    <3> HIDE DEF After, n
    <3> QED BY <2>2, <2>3, FS_EmptySet
  <2> QED BY <2>1, <2>3, <2>4 DEF FromEnd
<1> QED BY <1>2, <1>3, <1>4 DEF FromEnd

LEMMA FinalIsOne ==
    ASSUME NEW d \in Directory, Unbroken(d)
    PROVE  FromEnd(d, FinalPlace(d)) = 1
<1> DEFINE p == FinalPlace(d)
<1>1. p \in Places(d)
  BY UnbrokenShape
<1>2. \A r \in Places(d) : ~Before(r, p) => r = p
  <2> TAKE r \in Places(d)
  <2>1. /\ r = <<r[1], r[2]>> /\ r[1] \in Nat /\ r[2] \in Nat
        /\ r[1] <= Len(d.segs) /\ r[2] <= Len(d.segs[r[1]].recs)
    BY PlaceFacts
  <2>2. p[1] = Len(d.segs) /\ p[2] = Len(d.segs[p[1]].recs) /\ p = <<p[1], p[2]>>
    BY DEF FinalPlace
  <2> HIDE DEF p
  <2>3. p[1] \in Nat /\ p[2] \in Nat
    BY <1>1, PlaceFacts
  <2>4. ~Before(r, p) => r[1] = p[1]
    BY <2>1, <2>2, <2>3 DEF Before
  <2>5. r[1] = p[1] => r[2] <= p[2]
    BY <2>1, <2>2
  <2> QED BY <2>1, <2>2, <2>3, <2>4, <2>5 DEF Before
<1>3. {r \in Places(d) : ~Before(r, p)} = {p}
  <2> HIDE DEF p
  <2> QED BY <1>1, <1>2, OrderIsTotal
<1> QED BY <1>3, FS_Singleton, Zenon DEF FromEnd

\* Counted from the end, every number up to the length of the stream is reached.
LEMMA EveryDistance ==
    ASSUME NEW d \in Directory, Unbroken(d), NEW n \in 1..Cardinality(Places(d))
    PROVE  \E p \in Places(d) : FromEnd(d, p) = n
<1> DEFINE F == {m \in Nat : m >= n /\ \E p \in Places(d) : FromEnd(d, p) = m}
<1>1. <<1, 1>> \in Places(d) /\ FromEnd(d, <<1, 1>>) = Cardinality(Places(d))
  <2>1. <<1, 1>> \in Places(d)
    BY UnbrokenShape
  <2>2. \A r \in Places(d) : ~Before(r, <<1, 1>>)
    BY PlaceFacts DEF Before
  <2>3. {r \in Places(d) : ~Before(r, <<1, 1>>)} = Places(d)
    BY <2>2
  <2> QED BY <2>1, <2>3 DEF FromEnd
<1>2. Cardinality(Places(d)) \in Nat
  BY CountType
<1>3. Cardinality(Places(d)) \in F
  BY <1>1, <1>2
<1>4. PICK m \in F : \A k \in F : m <= k
  <2>1. F \in SUBSET Nat /\ F # {}
    BY <1>3
  <2> HIDE DEF F
  <2> QED BY <2>1, LeastOf
<1>5. PICK p \in Places(d) : FromEnd(d, p) = m
  BY <1>4
<1>6. ASSUME m # n PROVE FALSE
  <2>1. m \in Nat /\ n \in Nat /\ m > n /\ n >= 1
    BY <1>2, <1>6
  <2>2. p # FinalPlace(d)
    BY <1>5, <2>1, FinalIsOne
  <2>3. Following(d, p) \in Places(d) /\ FromEnd(d, p) = FromEnd(d, Following(d, p)) + 1
    BY <2>2, NextPlace
  <2>4. FromEnd(d, Following(d, p)) \in Nat
    BY <2>3, FinalIsLast
  <2>5. FromEnd(d, Following(d, p)) = m - 1
    BY <1>5, <2>1, <2>3, <2>4
  <2>6. m - 1 \in F
    BY <2>1, <2>3, <2>4, <2>5
  <2>7. m <= m - 1
    <3> HIDE DEF F
    <3> QED BY <1>4, <2>6
  <2> QED BY <2>1, <2>7
<1> QED BY <1>5, <1>6

\* At equal distance from the same final record the records are the same ...
LEMMA SameFromTheEnd ==
    ASSUME NEW d \in Directory, NEW e \in Directory, Unbroken(d), Unbroken(e),
           RecordAt(d, FinalPlace(d)) = RecordAt(e, FinalPlace(e)),
           NEW p \in Places(d), NEW q \in Places(e), FromEnd(d, p) = FromEnd(e, q)
    PROVE  RecordAt(d, p) = RecordAt(e, q)
<1> DEFINE Differ(x, y) == FromEnd(d, x) = FromEnd(e, y) /\ RecordAt(d, x) # RecordAt(e, y)
           F == {n \in Nat : \E x \in Places(d), y \in Places(e) : FromEnd(d, x) = n /\ Differ(x, y)}
<1>1. ASSUME F # {} PROVE FALSE
  <2>1. PICK n \in F : \A k \in F : n <= k
    <3>1. F \in SUBSET Nat
      OBVIOUS
    <3> HIDE DEF F
    <3> QED BY <1>1, <3>1, LeastOf
  <2>2. PICK x \in Places(d), y \in Places(e) : FromEnd(d, x) = n /\ Differ(x, y)
    BY <2>1
  <2>3. FromEnd(d, x) = n /\ FromEnd(e, y) = n /\ RecordAt(d, x) # RecordAt(e, y) /\ n \in Nat
    BY <2>2
  <2>4. CASE n = 1
    BY <2>3, <2>4, FinalIsLast
  <2>5. CASE n # 1
    <3> DEFINE v == Following(d, x)
               w == Following(e, y)
    <3>1. x # FinalPlace(d) /\ y # FinalPlace(e)
      <4>1. FromEnd(d, FinalPlace(d)) = 1 /\ FromEnd(e, FinalPlace(e)) = 1
        BY FinalIsOne
      <4> QED BY <2>3, <2>5, <4>1
    <3>2. /\ v \in Places(d) /\ ChainPrev[RecordAt(d, v)] = HashOf[RecordAt(d, x)]
          /\ FromEnd(d, x) = FromEnd(d, v) + 1
      BY <3>1, NextPlace
    <3>3. /\ w \in Places(e) /\ ChainPrev[RecordAt(e, w)] = HashOf[RecordAt(e, y)]
          /\ FromEnd(e, y) = FromEnd(e, w) + 1
      BY <3>1, NextPlace
    <3> HIDE DEF v, w
    <3>4. FromEnd(d, v) \in Nat /\ FromEnd(e, w) \in Nat
      BY <3>2, <3>3, FinalIsLast
    <3>5. FromEnd(d, v) = n - 1 /\ FromEnd(e, w) = n - 1
      BY <2>3, <3>2, <3>3, <3>4
    <3>6. n - 1 \notin F
      <4> HIDE DEF F
      <4> QED BY <2>1, <2>3
    <3>7. RecordAt(d, v) = RecordAt(e, w)
      BY <3>2, <3>3, <3>4, <3>5, <3>6
    <3>8. HashOf[RecordAt(d, x)] = HashOf[RecordAt(e, y)]
      BY <3>2, <3>3, <3>7
    <3> QED BY <2>3, <3>8, PlaceFacts, HashAssumption
  <2> QED BY <2>4, <2>5
<1>2. FromEnd(d, p) \in Nat
  BY FinalIsLast
<1> QED BY <1>1, <1>2

\* ... and neither stream has a record more, since only the first links to genesis.
LEMMA NoRecordMore ==
    ASSUME NEW d \in Directory, NEW e \in Directory, Unbroken(d), Unbroken(e),
           RecordAt(d, FinalPlace(d)) = RecordAt(e, FinalPlace(e))
    PROVE  ~(Cardinality(Places(d)) < Cardinality(Places(e)))
<1> SUFFICES ASSUME Cardinality(Places(d)) < Cardinality(Places(e)) PROVE FALSE
  OBVIOUS
<1> DEFINE first == <<1, 1>>
<1>1. first \in Places(d) /\ first \in Places(e)
  BY UnbrokenShape
<1>2. FromEnd(d, first) = Cardinality(Places(d)) /\ FromEnd(e, first) = Cardinality(Places(e))
  <2>1. /\ {r \in Places(d) : ~Before(r, first)} = Places(d)
        /\ {r \in Places(e) : ~Before(r, first)} = Places(e)
    BY PlaceFacts DEF Before
  <2> QED BY <2>1 DEF FromEnd
<1>3. /\ Cardinality(Places(d)) \in Nat /\ Cardinality(Places(e)) \in Nat
      /\ Cardinality(Places(d)) >= 1
  BY <1>1, <1>2, CountType, FinalIsLast
<1>4. PICK q \in Places(e) : FromEnd(e, q) = Cardinality(Places(d))
  BY <1>3, EveryDistance
<1>5. RecordAt(d, first) = RecordAt(e, q)
  BY <1>1, <1>2, <1>4, SameFromTheEnd
<1>6. q # first
  BY <1>2, <1>3, <1>4
<1>7. ChainPrev[RecordAt(d, first)] = Genesis
  <2>1. Linked(d, 1, 1)
    <3>1. 1 \in 1..Len(d.segs) /\ 1 \in 1..Len(d.segs[1].recs)
      BY <1>1, PlaceType
    <3> QED BY <3>1, UnbrokenShape
  <2> QED BY <2>1 DEF Linked, LinkInto, RecordAt
<1>8. \E r \in Record : ChainPrev[RecordAt(e, q)] = HashOf[r]
  <2>1. /\ q = <<q[1], q[2]>> /\ q[1] \in Nat /\ q[2] \in Nat
        /\ 1 <= q[1] /\ q[1] <= Len(e.segs) /\ 1 <= q[2] /\ q[2] <= Len(e.segs[q[1]].recs)
    BY PlaceFacts
  <2>2. /\ Len(e.segs) \in Nat
        /\ \A s \in 1..Len(e.segs) : Len(e.segs[s].recs) \in Nat /\ 1 <= Len(e.segs[s].recs)
    BY UnbrokenShape
  <2>3. q[1] \in 1..Len(e.segs) /\ q[2] \in 1..Len(e.segs[q[1]].recs)
    BY PlaceType
  <2>4. ChainPrev[RecordAt(e, q)] = LinkInto(e, q[1], q[2])
    BY <2>3, UnbrokenShape DEF Linked, RecordAt
  <2>5. CASE q[2] > 1
    <3>1. LinkInto(e, q[1], q[2]) = HashOf[e.segs[q[1]].recs[q[2] - 1]]
      BY <2>5 DEF LinkInto
    <3>2. e.segs[q[1]].recs[q[2] - 1] \in Record
      <4>1. q[2] - 1 \in 1..Len(e.segs[q[1]].recs)
        BY <2>1, <2>2, <2>3, <2>5
      <4> QED BY <2>3, <4>1, Shape
    <3> QED BY <2>4, <3>1, <3>2
  <2>6. CASE ~(q[2] > 1)
    <3>1. q[2] = 1
      BY <2>1, <2>6
    <3>2. q[1] # 1
      BY <1>6, <2>1, <3>1
    <3>3. LinkInto(e, q[1], q[2]) = HashOf[e.segs[q[1] - 1].recs[Len(e.segs[q[1] - 1].recs)]]
      BY <2>6, <3>2 DEF LinkInto
    <3>4. e.segs[q[1] - 1].recs[Len(e.segs[q[1] - 1].recs)] \in Record
      <4>1. q[1] - 1 \in 1..Len(e.segs)
        BY <2>1, <2>2, <3>2
      <4>2. Len(e.segs[q[1] - 1].recs) \in 1..Len(e.segs[q[1] - 1].recs)
        BY <2>2, <4>1
      <4> QED BY <4>1, <4>2, Shape
    <3> QED BY <2>4, <3>3, <3>4
  <2> QED BY <2>5, <2>6
<1> QED BY <1>5, <1>7, <1>8, HashAssumption

LEMMA FinalRecordFixesAll ==
    ASSUME NEW d \in Directory, NEW e \in Directory, Unbroken(d), Unbroken(e),
           RecordAt(d, FinalPlace(d)) = RecordAt(e, FinalPlace(e))
    PROVE  SameRecords(d, e)
<1>1. Cardinality(Places(d)) \in Nat /\ Cardinality(Places(e)) \in Nat
  BY CountType
<1>2. ~(Cardinality(Places(d)) < Cardinality(Places(e)))
  BY NoRecordMore
<1>3. ~(Cardinality(Places(e)) < Cardinality(Places(d)))
  BY NoRecordMore
<1>4. \A p \in Places(d), q \in Places(e) :
          FromEnd(d, p) = FromEnd(e, q) => RecordAt(d, p) = RecordAt(e, q)
  BY SameFromTheEnd
<1> QED BY <1>1, <1>2, <1>3, <1>4 DEF SameRecords

-----------------------------------------------------------------------------
(* One step of the walk. *)

\* What walking record r finds.
Noticed(r) ==
    (IF InWindow(EventId[r]) THEN <<Finding(si, ri + 1, "repeat")>> ELSE <<>>)
      \o (IF LinkBroken(r) THEN <<Finding(si, ri + 1, "link")>> ELSE <<>>)

LEMMA FindingType ==
    ASSUME NEW s \in Nat, NEW i \in Nat, NEW k \in Kinds
    PROVE  Finding(s, i, k) \in Findings
  BY DEF Finding, Findings

LEMMA NoticedFacts ==
    ASSUME ChainTypeOK, NEW r
    PROVE  /\ Noticed(r) \in Seq(Findings) /\ Len(Noticed(r)) \in Nat
           /\ \A n \in 1..Len(Noticed(r)) :
                 \/ InWindow(EventId[r]) /\ Noticed(r)[n] = Finding(si, ri + 1, "repeat")
                 \/ LinkBroken(r) /\ Noticed(r)[n] = Finding(si, ri + 1, "link")
           /\ LinkBroken(r) =>
                 \E n \in 1..Len(Noticed(r)) : Noticed(r)[n] = Finding(si, ri + 1, "link")
           /\ Noticed(r) = <<>> <=> ~InWindow(EventId[r]) /\ ~LinkBroken(r)
<1> DEFINE rep == Finding(si, ri + 1, "repeat")
           lnk == Finding(si, ri + 1, "link")
<1>1. rep \in Findings /\ lnk \in Findings
  <2>1. si \in Nat /\ ri + 1 \in Nat
    BY DEF ChainTypeOK
  <2> QED BY <2>1, FindingType DEF Kinds
<1> HIDE DEF rep, lnk
<1>2. Noticed(r) = (IF InWindow(EventId[r]) THEN <<rep>> ELSE <<>>)
                     \o (IF LinkBroken(r) THEN <<lnk>> ELSE <<>>)
  BY DEF Noticed, rep, lnk
<1>3. CASE InWindow(EventId[r]) /\ LinkBroken(r)
  <2>1. Noticed(r) = <<rep>> \o <<lnk>>
    BY <1>2, <1>3
  <2>2. <<rep>> \in Seq(Findings) /\ <<lnk>> \in Seq(Findings)
    BY <1>1
  <2>3. /\ Noticed(r) \in Seq(Findings) /\ Len(Noticed(r)) = 2
        /\ Noticed(r)[1] = rep /\ Noticed(r)[2] = lnk
    BY <2>1, <2>2
  <2>4. Noticed(r) # <<>> /\ 1..2 = {1, 2}
    BY <2>3
  <2> QED BY <1>1, <1>3, <2>3, <2>4 DEF rep, lnk
<1>4. CASE InWindow(EventId[r]) /\ ~LinkBroken(r)
  <2>1. Noticed(r) = <<rep>>
    BY <1>1, <1>2, <1>4
  <2> QED BY <1>1, <1>4, <2>1 DEF rep, lnk
<1>5. CASE ~InWindow(EventId[r]) /\ LinkBroken(r)
  <2>1. Noticed(r) = <<lnk>>
    BY <1>1, <1>2, <1>5
  <2> QED BY <1>1, <1>5, <2>1 DEF rep, lnk
<1>6. CASE ~InWindow(EventId[r]) /\ ~LinkBroken(r)
  <2>1. Noticed(r) = <<>>
    BY <1>2, <1>6
  <2> QED BY <1>6, <2>1
<1> QED BY <1>3, <1>4, <1>5, <1>6

\* A report past the cap is counted, one below it is kept.
LEMMA ReportFacts ==
    ASSUME ChainTypeOK, NEW new \in Seq(Findings), Report(new)
    PROVE  /\ segErrs' \in Seq(Findings) /\ Len(segErrs') \in Nat
           /\ Len(segErrs') <= MaxReported /\ hidden' \in Nat
           /\ hidden' >= hidden
           /\ \A n \in 1..Len(segErrs') :
                 \/ \E m \in 1..Len(segErrs) : segErrs'[n] = segErrs[m]
                 \/ \E m \in 1..Len(new) : segErrs'[n] = new[m]
           /\ \/ hidden' > 0
              \/ /\ \A m \in 1..Len(segErrs) : \E n \in 1..Len(segErrs') : segErrs'[n] = segErrs[m]
                 /\ \A m \in 1..Len(new) : \E n \in 1..Len(segErrs') : segErrs'[n] = new[m]
           /\ segErrs' = <<>> /\ hidden' = 0 => segErrs = <<>> /\ new = <<>> /\ hidden = 0
           /\ new = <<>> => segErrs' = segErrs /\ hidden' = hidden
<1> DEFINE all == segErrs \o new
           kept == IF Len(all) <= MaxReported THEN Len(all) ELSE MaxReported
<1>1. /\ segErrs \in Seq(Findings) /\ Len(segErrs) \in Nat /\ Len(segErrs) <= MaxReported
      /\ hidden \in Nat /\ MaxReported \in Nat /\ Len(new) \in Nat
  BY BoundAssumption DEF ChainTypeOK
<1>2. /\ all \in Seq(Findings) /\ Len(all) = Len(segErrs) + Len(new)
      /\ \A n \in 1..Len(all) : all[n] = IF n <= Len(segErrs) THEN segErrs[n] ELSE new[n - Len(segErrs)]
  BY <1>1
<1>3. segErrs' = SubSeq(all, 1, kept) /\ hidden' = hidden + (Len(all) - kept)
  BY DEF Report
<1> HIDE DEF all
<1>4. kept \in Nat /\ kept <= Len(all) /\ kept <= MaxReported /\ Len(all) \in Nat
      /\ (kept = Len(all) \/ Len(all) > kept)
  BY <1>1, <1>2
<1>5. kept = Len(all) \/ kept = MaxReported
  OBVIOUS
<1> HIDE DEF kept
<1>6. /\ segErrs' \in Seq(Findings) /\ Len(segErrs') = kept
      /\ \A n \in 1..kept : segErrs'[n] = all[n]
  BY <1>2, <1>3, <1>4
<1>7. hidden' \in Nat /\ hidden' >= hidden /\ (hidden' > 0 \/ kept = Len(all))
  BY <1>1, <1>3, <1>4
<1>8. ASSUME NEW n \in 1..Len(segErrs')
      PROVE  \/ \E m \in 1..Len(segErrs) : segErrs'[n] = segErrs[m]
             \/ \E m \in 1..Len(new) : segErrs'[n] = new[m]
  <2>1. n \in 1..Len(all) /\ n \in Nat /\ 1 <= n /\ n <= Len(all) /\ segErrs'[n] = all[n]
    BY <1>4, <1>6
  <2>2. CASE n <= Len(segErrs)
    BY <1>1, <1>2, <2>1, <2>2
  <2>3. CASE ~(n <= Len(segErrs))
    <3>1. n - Len(segErrs) \in 1..Len(new) /\ segErrs'[n] = new[n - Len(segErrs)]
      BY <1>1, <1>2, <2>1, <2>3
    <3> QED BY <3>1
  <2> QED BY <2>2, <2>3
<1>9. ASSUME kept = Len(all)
      PROVE  /\ \A m \in 1..Len(segErrs) : \E n \in 1..Len(segErrs') : segErrs'[n] = segErrs[m]
             /\ \A m \in 1..Len(new) : \E n \in 1..Len(segErrs') : segErrs'[n] = new[m]
  <2>1. ASSUME NEW m \in 1..Len(segErrs)
        PROVE  \E n \in 1..Len(segErrs') : segErrs'[n] = segErrs[m]
    <3>1. m \in 1..kept /\ all[m] = segErrs[m]
      BY <1>1, <1>2, <1>9
    <3> QED BY <1>6, <3>1
  <2>2. ASSUME NEW m \in 1..Len(new)
        PROVE  \E n \in 1..Len(segErrs') : segErrs'[n] = new[m]
    <3> DEFINE n == Len(segErrs) + m
    <3>1. m \in Nat /\ 1 <= m /\ m <= Len(new)
      BY <1>1
    <3>2. n \in 1..kept /\ ~(n <= Len(segErrs)) /\ n - Len(segErrs) = m
      BY <1>1, <1>2, <1>4, <1>9, <3>1
    <3> HIDE DEF n
    <3>3. all[n] = new[m]
      BY <1>2, <1>9, <3>2
    <3> QED BY <1>6, <3>2, <3>3
  <2> QED BY <2>1, <2>2
<1>10. ASSUME segErrs' = <<>>, hidden' = 0 PROVE segErrs = <<>> /\ new = <<>> /\ hidden = 0
  <2>1. Len(all) = 0
    BY <1>6, <1>7, <1>10
  <2>2. Len(segErrs) = 0 /\ Len(new) = 0
    BY <1>1, <1>2, <2>1
  <2> QED BY <1>1, <1>7, <1>10, <2>2
<1>11. ASSUME new = <<>> PROVE segErrs' = segErrs /\ hidden' = hidden
  <2>1. Len(all) = Len(segErrs) /\ kept = Len(segErrs)
    BY <1>1, <1>2, <1>4, <1>5, <1>11
  <2>2. hidden' = hidden
    BY <1>1, <1>3, <2>1
  <2>3. \A n \in 1..Len(segErrs) : segErrs'[n] = segErrs[n]
    BY <1>1, <1>2, <1>6, <2>1
  <2> QED BY <1>1, <1>6, <2>1, <2>2, <2>3
<1> QED BY <1>1, <1>4, <1>6, <1>7, <1>8, <1>9, <1>10, <1>11

LEMMA RememberFacts ==
    ASSUME ChainTypeOK, NEW e \in Event
    PROVE  /\ Remember(e) \in Seq(Event) /\ Len(Remember(e)) \in Nat /\ Len(window) \in Nat
           /\ Len(Remember(e)) <= Capacity
           /\ \A k \in 1..Len(Remember(e)) :
                 Remember(e)[k] = e \/ \E j \in 1..Len(window) : Remember(e)[k] = window[j]
           /\ ~InWindow(e) /\ Len(window) < Capacity =>
                 /\ Len(Remember(e)) = Len(window) + 1
                 /\ Remember(e)[Len(window) + 1] = e
                 /\ \A k \in 1..Len(window) : Remember(e)[k] = window[k]
           /\ ~InWindow(e) /\ Len(window) = Capacity =>
                 /\ Len(Remember(e)) = Capacity
                 /\ Remember(e)[Capacity] = e
                 /\ \A k \in 1..(Capacity - 1) : Remember(e)[k] = window[k + 1]
<1> DEFINE longer == Append(window, e)
<1>1. /\ window \in Seq(Event) /\ Len(window) \in Nat /\ Len(window) <= Capacity
      /\ Capacity \in Nat /\ Capacity >= 1
  BY BoundAssumption DEF ChainTypeOK
<1>2. /\ longer \in Seq(Event) /\ Len(longer) = Len(window) + 1
      /\ longer[Len(window) + 1] = e
      /\ \A k \in 1..Len(window) : longer[k] = window[k]
  BY <1>1
<1> HIDE DEF longer
<1>3. Remember(e) = IF InWindow(e) THEN window
                    ELSE IF Len(longer) > Capacity THEN Tail(longer) ELSE longer
  BY DEF Remember, longer
<1>4. CASE InWindow(e)
  <2>1. Remember(e) = window
    BY <1>3, <1>4
  <2> QED BY <1>1, <1>4, <2>1
<1>5. CASE ~InWindow(e) /\ Len(window) < Capacity
  <2>1. Remember(e) = longer
    BY <1>1, <1>2, <1>3, <1>5
  <2>2. \A k \in 1..Len(longer) : k = Len(window) + 1 \/ k \in 1..Len(window)
    BY <1>1, <1>2
  <2> QED BY <1>1, <1>2, <1>5, <2>1, <2>2
<1>6. CASE ~InWindow(e) /\ Len(window) = Capacity
  <2>1. Remember(e) = Tail(longer) /\ longer # <<>>
    BY <1>1, <1>2, <1>3, <1>6
  <2>2. /\ Tail(longer) \in Seq(Event) /\ Len(Tail(longer)) = Capacity
        /\ \A k \in 1..Capacity : Tail(longer)[k] = longer[k + 1]
    BY <1>1, <1>2, <1>6, <2>1
  <2>3. Tail(longer)[Capacity] = e
    BY <1>1, <1>2, <1>6, <2>2
  <2>4. ASSUME NEW k \in 1..(Capacity - 1)
        PROVE  Tail(longer)[k] = window[k + 1] /\ k + 1 \in 1..Len(window)
    <3>1. k \in 1..Capacity /\ k + 1 \in 1..Len(window)
      BY <1>1, <1>6
    <3> QED BY <1>2, <2>2, <3>1
  <2>5. \A k \in 1..Capacity : k = Capacity \/ k \in 1..(Capacity - 1)
    BY <1>1
  <2>6. \A k \in 1..Capacity : Tail(longer)[k] = e \/ \E j \in 1..Len(window) : Tail(longer)[k] = window[j]
    BY <2>3, <2>4, <2>5
  <2> QED BY <1>1, <1>6, <2>1, <2>2, <2>3, <2>4, <2>6
<1> QED BY <1>1, <1>4, <1>5, <1>6

-----------------------------------------------------------------------------
(* The types. *)

LEMMA OneIsASequence ==
    ASSUME NEW S, NEW x \in S
    PROVE  <<x>> \in Seq(S) /\ <<>> \in Seq(S)
  OBVIOUS

LEMMA OneMoreInSequence ==
    ASSUME NEW S, NEW q \in Seq(S), NEW x \in S
    PROVE  /\ Append(q, x) \in Seq(S) /\ Len(Append(q, x)) = Len(q) + 1 /\ Len(q) \in Nat
           /\ Append(q, x)[Len(q) + 1] = x
           /\ \A n \in 1..Len(q) : Append(q, x)[n] = q[n]
  OBVIOUS

LEMMA RecordRead ==
    ASSUME ChainTypeOK, WalkRecord
    PROVE  /\ si \in 1..Len(stream.segs) /\ ri + 1 \in 1..Len(Recs) /\ ri \in Nat
           /\ Recs[ri + 1] \in Record /\ EventId[Recs[ri + 1]] \in Event
           /\ HashOf[Recs[ri + 1]] \in Digest /\ ChainPrev[Recs[ri + 1]] \in Digest
           /\ Report(Noticed(Recs[ri + 1]))
<1>1. stream \in Directory /\ si \in Nat /\ 1 <= si /\ si <= Len(stream.segs) /\ ri \in Nat /\ ri < Len(Recs)
  BY DEF WalkRecord, ChainTypeOK, SegmentSeen
<1>2. Len(stream.segs) \in Nat
  BY <1>1, Shape
<1>3. si \in 1..Len(stream.segs)
  BY <1>1, <1>2
<1>4. Len(Recs) \in Nat /\ \A i \in 1..Len(Recs) : Recs[i] \in Record
  BY <1>1, <1>3, Shape DEF Recs
<1>5. ri + 1 \in 1..Len(Recs)
  BY <1>1, <1>4
<1>6. Recs[ri + 1] \in Record
  BY <1>4, <1>5
<1>7. Report(Noticed(Recs[ri + 1]))
  BY DEF WalkRecord, Noticed
<1> QED BY <1>1, <1>3, <1>5, <1>6, <1>7, HashAssumption

\* A segment is closed when its last record was read.
SegmentClosed == SegmentRaises \/ SegmentEmpty \/ SegmentWalked

LEMMA ClosedFacts ==
    ASSUME ChainTypeOK, SegmentClosed
    PROVE  /\ si \in 1..Len(Segs) /\ ri = Len(Recs) /\ phase = "walk"
           /\ Len(Segs) \in Nat /\ Len(Recs) \in Nat /\ si \in Nat
           /\ stream' = stream /\ phase' = phase /\ window' = window
           /\ si' = si + 1 /\ ri' = 0 /\ prevHash' = None /\ firstPrev' = None
           /\ segErrs' = <<>> /\ hidden' = 0
<1>1. /\ stream \in Directory /\ si \in Nat /\ 1 <= si /\ si <= Len(Segs) /\ ri = Len(Recs)
      /\ phase = "walk"
  BY DEF SegmentClosed, SegmentRaises, SegmentEmpty, SegmentWalked, SegmentRead, ChainTypeOK,
         SegmentSeen, Segs
<1>2. /\ stream' = stream /\ phase' = phase /\ window' = window
      /\ si' = si + 1 /\ ri' = 0 /\ prevHash' = None /\ firstPrev' = None
      /\ segErrs' = <<>> /\ hidden' = 0
  BY DEF SegmentClosed, SegmentRaises, SegmentEmpty, SegmentWalked, NextSegment
<1>3. Len(Segs) \in Nat /\ Len(Recs) \in Nat
  <2>1. Len(Segs) \in Nat
    BY <1>1, Shape DEF Segs
  <2>2. si \in 1..Len(stream.segs)
    BY <1>1, <2>1 DEF Segs
  <2> QED BY <1>1, <2>1, <2>2, Shape DEF Recs
<1> QED BY <1>1, <1>2, <1>3

LEMMA BoundaryType ==
    ASSUME ChainTypeOK
    PROVE  /\ BoundaryFindings \in Seq(Findings) /\ Len(BoundaryFindings) \in {0, 1}
           /\ Len(BoundaryFindings) = 0 <=> BoundaryFindings = <<>>
<1>1. si \in Nat /\ 1 \in Nat
  BY DEF ChainTypeOK
<1>2. /\ Finding(si, 1, "genesis") \in Findings
      /\ Finding(si, 1, "unverified") \in Findings
      /\ Finding(si, 1, "boundary") \in Findings
  BY <1>1, FindingType DEF Kinds
<1> QED BY <1>2 DEF BoundaryFindings

LEMMA HiddenType ==
    ASSUME ChainTypeOK
    PROVE  /\ (IF hidden > 0 THEN <<Finding(si, 0, "hidden")>> ELSE <<>>) \in Seq(Findings)
           /\ errs \in Seq(Findings) /\ segErrs \in Seq(Findings)
<1>1. Finding(si, 0, "hidden") \in Findings
  BY FindingType DEF Kinds, ChainTypeOK
<1> QED BY <1>1 DEF ChainTypeOK

LEMMA TypeInit == ChainInit => ChainTypeOK
<1> SUFFICES ASSUME ChainInit PROVE ChainTypeOK
  OBVIOUS
<1>1. stream \in Directory
  BY StreamAssumption DEF ChainInit
<1>2. Finding(0, 0, "no segments") \in Findings /\ Finding(0, 0, "index") \in Findings
  BY FindingType DEF Kinds
<1>3. errs \in Seq(Findings)
  <2>1. /\ <<Finding(0, 0, "no segments")>> \in Seq(Findings)
        /\ <<Finding(0, 0, "index")>> \in Seq(Findings)
        /\ <<>> \in Seq(Findings)
    BY <1>2, OneIsASequence
  <2> QED BY <2>1 DEF ChainInit, WalkStarted
<1>4. Capacity \in Nat /\ MaxReported \in Nat
  BY BoundAssumption
<1>5. /\ phase \in {"walk", "done"} /\ si = 1 /\ ri = 0 /\ window = <<>> /\ prevHash = None
      /\ firstPrev = None /\ segErrs = <<>> /\ hidden = 0 /\ prevLast = None
      /\ prevUnlinked = FALSE /\ counts = <<>>
  BY DEF ChainInit, WalkStarted
<1>6. /\ window \in Seq(Event) /\ Len(window) <= Capacity
      /\ segErrs \in Seq(Findings) /\ Len(segErrs) <= MaxReported
      /\ counts \in Seq([seg : Nat, records : Nat])
  BY <1>4, <1>5
<1>7. /\ si \in Nat \ {0} /\ ri \in Nat /\ hidden \in Nat
      /\ prevHash \in Digest \cup {None} /\ firstPrev \in Digest \cup {None}
      /\ prevLast \in Digest \cup {None}
  BY <1>5
<1>8. prevUnlinked \in BOOLEAN
  BY <1>5, Zenon
<1> QED BY <1>1, <1>3, <1>5, <1>6, <1>7, <1>8, Zenon DEF ChainTypeOK

LEMMA TypeStep ==
    ASSUME ChainTypeOK, [ChainNext]_chainVars
    PROVE  ChainTypeOK'
<1>1. CASE WalkRecord
  <2> DEFINE r == Recs[ri + 1]
  <2>1. /\ r \in Record /\ EventId[r] \in Event /\ HashOf[r] \in Digest /\ ChainPrev[r] \in Digest
        /\ Report(Noticed(r)) /\ ri \in Nat
    BY <1>1, RecordRead
  <2>2. /\ window' = Remember(EventId[r])
        /\ firstPrev' = (IF firstPrev = None THEN ChainPrev[r] ELSE firstPrev)
        /\ prevHash' = HashOf[r] /\ ri' = ri + 1
        /\ UNCHANGED <<stream, phase, si, prevLast, prevUnlinked, errs, counts>>
    BY <1>1 DEF WalkRecord
  <2> HIDE DEF r
  <2>3. Noticed(r) \in Seq(Findings)
    BY NoticedFacts
  <2>4. segErrs' \in Seq(Findings) /\ Len(segErrs') <= MaxReported /\ hidden' \in Nat
    BY <2>1, <2>3, ReportFacts
  <2>5. window' \in Seq(Event) /\ Len(window') <= Capacity
    BY <2>1, <2>2, RememberFacts
  <2>6. ri' \in Nat /\ prevHash' \in Digest \cup {None} /\ firstPrev' \in Digest \cup {None}
    BY <2>1, <2>2 DEF ChainTypeOK
  <2> QED BY <2>2, <2>4, <2>5, <2>6 DEF ChainTypeOK
<1>2. CASE SegmentClosed
  <2>1. /\ stream' = stream /\ phase' = phase /\ window' = window
        /\ si' = si + 1 /\ ri' = 0 /\ prevHash' = None /\ firstPrev' = None
        /\ segErrs' = <<>> /\ hidden' = 0 /\ MaxReported \in Nat
    BY <1>2, ClosedFacts, BoundAssumption
  <2>2. /\ prevLast' \in Digest \cup {None} /\ prevUnlinked' \in BOOLEAN
    BY <1>2 DEF ChainTypeOK, SegmentClosed, SegmentRaises, SegmentEmpty, SegmentWalked
  <2>3. errs' \in Seq(Findings)
    <3>1. CASE SegmentRaises \/ SegmentEmpty
      <4>1. /\ Finding(si, 0, "unreadable") \in Findings
            /\ Finding(si, 0, "empty") \in Findings
        BY FindingType DEF Kinds, ChainTypeOK
      <4>2. errs' = Append(errs, Finding(si, 0, "unreadable"))
            \/ errs' = Append(errs, Finding(si, 0, "empty"))
        BY <3>1 DEF SegmentRaises, SegmentEmpty
      <4>3. errs \in Seq(Findings)
        BY DEF ChainTypeOK
      <4> QED BY <4>1, <4>2, <4>3, OneMoreInSequence
    <3>2. CASE SegmentWalked
      <4>1. errs' = errs \o segErrs
                      \o (IF hidden > 0 THEN <<Finding(si, 0, "hidden")>> ELSE <<>>)
                      \o BoundaryFindings
        BY <3>2 DEF SegmentWalked
      <4> QED BY <4>1, BoundaryType, HiddenType
    <3> QED BY <1>2, <3>1, <3>2 DEF SegmentClosed
  <2>4. counts' \in Seq([seg : Nat, records : Nat])
    <3>1. [seg |-> si, records |-> ri] \in [seg : Nat, records : Nat]
      BY DEF ChainTypeOK
    <3>2. counts' = counts \/ counts' = Append(counts, [seg |-> si, records |-> ri])
      BY <1>2 DEF SegmentClosed, SegmentRaises, SegmentEmpty, SegmentWalked, SegmentRead
    <3>3. counts \in Seq([seg : Nat, records : Nat])
      BY DEF ChainTypeOK
    <3> DEFINE C == [seg : Nat, records : Nat]
               c == [seg |-> si, records |-> ri]
    <3>4. c \in C /\ counts \in Seq(C) /\ (counts' = counts \/ counts' = Append(counts, c))
      BY <3>1, <3>2, <3>3
    <3> HIDE DEF c, C
    <3>5. counts' \in Seq(C)
      BY <3>4, OneMoreInSequence
    <3> QED BY <3>5 DEF C
  <2>5. si' \in Nat \ {0} /\ ri' \in Nat
    BY <2>1 DEF ChainTypeOK
  <2> QED BY <2>1, <2>2, <2>3, <2>4, <2>5 DEF ChainTypeOK
<1>3. CASE CheckIndex
  <2>1. Finding(0, 0, "index") \in Findings
    BY FindingType DEF Kinds
  <2>2. errs' \in Seq(Findings)
    BY <1>3, <2>1 DEF CheckIndex, ChainTypeOK
  <2> QED BY <1>3, <2>2 DEF CheckIndex, ChainTypeOK
<1>4. CASE UNCHANGED chainVars
  BY <1>4 DEF chainVars, ChainTypeOK
<1> QED BY <1>1, <1>2, <1>3, <1>4 DEF ChainNext, Done, SegmentClosed

-----------------------------------------------------------------------------
(* The inductive invariant: where the walk is, what it carries from record   *)
(* to record, and what the findings and counts of the part walked say.       *)

\* The place of the next record, if there is one, and the records before it.
Here == <<si, ri + 1>>
Walked == {p \in Places(stream) : Before(p, Here)}

WalkPlace ==
    /\ si \in 1..(Len(Segs) + 1)
    /\ ri \in IF SegmentSeen THEN 0..Len(Recs) ELSE {0}
    /\ phase = "done" => si = Len(Segs) + 1

\* The hash and the first chainPrev carried through a segment, and what is
\* known of the segment before it.
WalkLinks ==
    /\ ri = 0 => prevHash = None /\ firstPrev = None /\ segErrs = <<>> /\ hidden = 0
    /\ ri > 0 => prevHash = HashOf[Recs[ri]] /\ firstPrev = ChainPrev[Recs[1]]
    /\ si > 1 => /\ prevUnlinked <=> ~KnownBefore(si)
                 /\ KnownBefore(si)
                       => prevLast = HashOf[Segs[si - 1].recs[Len(Segs[si - 1].recs)]]

\* Findings are justified when they are made.
WalkJustified ==
    /\ \A n \in 1..Len(segErrs) : Justified(segErrs[n])
    /\ \A n \in 1..Len(errs) : Justified(errs[n])

LinkKept(i) == \E n \in 1..Len(segErrs) : segErrs[n] = Finding(si, i, "link")

\* No break behind the walk is forgotten.
WalkNamed ==
    /\ \A i \in 1..ri : (i > 1 \/ si = 1) /\ ~Linked(stream, si, i) => hidden > 0 \/ LinkKept(i)
    /\ \A p \in Places(stream) : p[1] < si /\ Visible(p[1], p[2]) => Named(p[1], p[2])
    /\ errs = <<>> =>
          /\ Segs # <<>>
          /\ \A s \in 1..(si - 1) : Segs[s].readable /\ Segs[s].recs # <<>>

WalkCounts ==
    /\ \A n \in 1..Len(counts) :
          /\ counts[n].seg \in 1..(si - 1) /\ Segs[counts[n].seg].readable
          /\ counts[n].records = Len(Segs[counts[n].seg].recs)
    /\ \A m, n \in 1..Len(counts) : m < n => counts[m].seg < counts[n].seg
    /\ \A s \in 1..(si - 1) :
          Segs[s].readable => \E n \in 1..Len(counts) : counts[n].seg = s

Age(p) == Distance(stream, p, Here)
NoRepeat == \A q \in Walked : ~RepeatAt(q)
EventAt(p) == EventId[RecordAt(stream, p)]

\* The window holds ids that were walked.  As long as none was repeated inside it,
\* it holds those of the last Capacity records, each at the place its age gives it.
WalkWindow ==
    /\ \A k \in 1..Len(window) : \E p \in Walked : EventAt(p) = window[k]
    /\ NoRepeat =>
          /\ \A k \in 1..Len(window) : \E p \in Walked : 
                Age(p) = Len(window) + 1 - k /\ EventAt(p) = window[k]
          /\ \A p \in Walked : Age(p) <= Capacity =>
                Age(p) <= Len(window) /\ EventAt(p) = window[Len(window) + 1 - Age(p)]

SoFarClean == errs = <<>> /\ segErrs = <<>> /\ hidden = 0

WalkVerdict ==
    /\ SoFarClean => NoRepeat
    /\ Unbroken(stream) /\ IndexOK /\ NoRepeat => SoFarClean

ChainInv ==
    ChainTypeOK /\ WalkPlace /\ WalkLinks /\ WalkJustified /\ WalkNamed /\ WalkCounts
      /\ WalkWindow /\ WalkVerdict

-----------------------------------------------------------------------------
(* Where the walk is, the links it carries and the counts. *)

\* The stream is only read, so what is said of it alone stays as it is.
LEMMA StreamStays ==
    ASSUME stream' = stream
    PROVE  /\ \A f : Justified(f)' <=> Justified(f)
           /\ \A s, i : Visible(s, i)' <=> Visible(s, i)
           /\ \A s : KnownBefore(s)' <=> KnownBefore(s)
           /\ \A q : RepeatAt(q)' <=> RepeatAt(q)
           /\ \A p : EventAt(p)' = EventAt(p)
           /\ Places(stream)' = Places(stream)
           /\ Segs' = Segs
  BY DEF Justified, Visible, KnownBefore, RepeatAt, Repeats, EventAt, RecordAt, Segs, Places, Linked,
         LinkInto, Distance, Before

LEMMA StreamStep ==
    ASSUME [ChainNext]_chainVars
    PROVE  stream' = stream
  BY DEF ChainNext, chainVars, WalkRecord, SegmentRaises, SegmentEmpty, SegmentWalked, CheckIndex,
         Done, NextSegment

LEMMA WalkPlaceInit == ChainInit => WalkPlace
<1> SUFFICES ASSUME ChainInit PROVE WalkPlace
  OBVIOUS
<1>1. stream \in Directory /\ si = 1 /\ ri = 0 /\ (phase = "done" <=> Segs = <<>>)
  BY StreamAssumption DEF ChainInit, WalkStarted, Segs
<1>2. Segs \in Seq(Segment) /\ Len(Segs) \in Nat
  BY <1>1, Shape DEF Segs
<1>3. SegmentSeen => Len(Recs) \in Nat
  BY <1>1, <1>2, Shape DEF SegmentSeen, Recs, Segs
<1>4. ri \in IF SegmentSeen THEN 0..Len(Recs) ELSE {0}
  BY <1>1, <1>3
<1>5. si \in 1..(Len(Segs) + 1) /\ (phase = "done" => si = Len(Segs) + 1)
  BY <1>1, <1>2
<1> QED BY <1>4, <1>5 DEF WalkPlace

LEMMA WalkPlaceStep ==
    ASSUME ChainTypeOK, WalkPlace, [ChainNext]_chainVars
    PROVE  WalkPlace'
<1>1. stream' = stream /\ Segs' = Segs /\ Len(Segs) \in Nat /\ si \in Nat
  BY StreamStep, StreamStays, Shape DEF ChainTypeOK, Segs
<1>2. CASE WalkRecord
  <2>1. si' = si /\ ri' = ri + 1 /\ phase' = phase /\ phase # "done" /\ SegmentSeen /\ ri + 1 \in 1..Len(Recs)
    BY <1>2, RecordRead DEF WalkRecord
  <2>2. SegmentSeen' /\ Recs' = Recs
    BY <1>1, <2>1 DEF SegmentSeen, Recs
  <2>3. ri' \in 0..Len(Recs)
    BY <1>2, <2>1, RecordRead
  <2>4. ri' \in (IF SegmentSeen THEN 0..Len(Recs) ELSE {0})'
    BY <2>2, <2>3
  <2> QED BY <1>1, <2>1, <2>4 DEF WalkPlace
<1>3. CASE SegmentClosed
  <2>1. si \in 1..Len(Segs) /\ si' = si + 1 /\ ri' = 0 /\ phase' # "done"
    BY <1>3, ClosedFacts
  <2>2. si' \in 1..(Len(Segs) + 1)
    BY <1>1, <2>1
  <2>3. SegmentSeen' => (Len(Recs) \in Nat)'
    <3>1. (stream \in Directory)' /\ (si \in Nat \ {0})'
      BY TypeStep DEF ChainTypeOK
    <3>2. SegmentSeen' => (si \in 1..Len(stream.segs))'
      BY <1>1, <2>2, <3>1 DEF SegmentSeen, Segs
    <3> QED BY <3>1, <3>2, Shape DEF Recs
  <2>4. ri' \in (IF SegmentSeen THEN 0..Len(Recs) ELSE {0})'
    BY <2>1, <2>3
  <2> QED BY <1>1, <2>1, <2>2, <2>4 DEF WalkPlace
<1>4. CASE CheckIndex
  <2>1. ~SegmentSeen /\ UNCHANGED <<si, ri, stream>>
    BY <1>4 DEF CheckIndex
  <2>2. si = Len(Segs) + 1
    BY <1>1, <2>1 DEF SegmentSeen, Segs, WalkPlace
  <2> QED BY <1>1, <2>1, <2>2 DEF WalkPlace, SegmentSeen, Recs
<1>5. CASE UNCHANGED chainVars
  BY <1>5 DEF chainVars, WalkPlace, SegmentSeen, Recs, Segs
<1> QED BY <1>2, <1>3, <1>4, <1>5 DEF ChainNext, Done, SegmentClosed

LEMMA WalkLinksInit == ChainInit => WalkLinks
<1> SUFFICES ASSUME ChainInit PROVE WalkLinks
  OBVIOUS
<1>1. /\ si = 1 /\ ri = 0 /\ prevHash = None /\ firstPrev = None /\ segErrs = <<>> /\ hidden = 0
  BY DEF ChainInit, WalkStarted
<1>2. ~(si > 1) /\ ~(ri > 0)
  BY <1>1
<1> QED BY <1>1, <1>2, Zenon DEF WalkLinks

LEMMA WalkLinksStep ==
    ASSUME ChainTypeOK, WalkPlace, WalkLinks, [ChainNext]_chainVars
    PROVE  WalkLinks'
<1>1. stream' = stream /\ Segs' = Segs /\ \A s : KnownBefore(s)' <=> KnownBefore(s)
  BY StreamStep, StreamStays
<1>2. CASE WalkRecord
  <2>1. /\ ri \in Nat /\ ri' = ri + 1 /\ si' = si /\ prevHash' = HashOf[Recs[ri + 1]]
        /\ prevLast' = prevLast /\ prevUnlinked' = prevUnlinked
        /\ firstPrev' = IF firstPrev = None THEN ChainPrev[Recs[ri + 1]] ELSE firstPrev
    BY <1>2, RecordRead DEF WalkRecord
  <2>2. Recs' = Recs
    BY <1>1, <2>1 DEF Recs
  <2>3. ri' > 0 /\ ri' # 0
    BY <2>1
  <2>4. firstPrev' = ChainPrev[Recs[1]]
    <3>1. CASE ri = 0
      BY <2>1, <3>1 DEF WalkLinks
    <3>2. CASE ri # 0
      <4>1. firstPrev = ChainPrev[Recs[1]]
        BY <2>1, <3>2 DEF WalkLinks
      <4>2. Recs[1] \in Record
        <5>1. si \in 1..Len(stream.segs) /\ ri + 1 \in 1..Len(Recs) /\ stream \in Directory
          BY <1>2, RecordRead DEF ChainTypeOK
        <5>2. Len(Recs) \in Nat /\ \A i \in 1..Len(Recs) : Recs[i] \in Record
          BY <5>1, Shape DEF Recs
        <5>3. 1 \in 1..Len(Recs)
          BY <2>1, <5>1, <5>2
        <5> QED BY <5>2, <5>3
      <4>3. firstPrev # None
        BY <4>1, <4>2, HashAssumption
      <4> QED BY <2>1, <4>1, <4>3
    <3> QED BY <3>1, <3>2
  <2>5. prevHash' = HashOf[Recs'[ri']] /\ firstPrev' = ChainPrev[Recs'[1]]
    BY <2>1, <2>2, <2>4
  <2> QED BY <1>1, <2>1, <2>3, <2>5 DEF WalkLinks
<1>3. CASE SegmentClosed
  <2>1. /\ si \in 1..Len(Segs) /\ si \in Nat /\ ri = Len(Recs) /\ Len(Recs) \in Nat
        /\ si' = si + 1 /\ ri' = 0 /\ prevHash' = None /\ firstPrev' = None
        /\ segErrs' = <<>> /\ hidden' = 0
    BY <1>3, ClosedFacts
  <2>2. si' > 1 /\ si' - 1 = si /\ ~(ri' > 0)
    BY <2>1
  <2>3. Recs = Segs[si].recs /\ (Recs = <<>> <=> Len(Recs) = 0) /\ Segs[si].readable \in BOOLEAN
    BY <2>1, Shape DEF Recs, Segs, ChainTypeOK
  <2>4. KnownBefore(si') <=> Segs[si].readable /\ ri # 0
    BY <2>1, <2>2, <2>3 DEF KnownBefore
  <2>5. CASE SegmentRaises \/ SegmentEmpty
    <3>1. ~(Segs[si].readable /\ ri # 0) /\ prevUnlinked' = TRUE
      BY <2>5 DEF SegmentRaises, SegmentEmpty, Segs
    <3>2. prevUnlinked' <=> ~KnownBefore(si')
      BY <2>4, <3>1, Zenon
    <3> QED BY <1>1, <2>1, <2>2, <2>4, <3>1, <3>2 DEF WalkLinks
  <2>6. CASE SegmentWalked
    <3>1. Segs[si].readable /\ ri > 0 /\ prevUnlinked' = FALSE /\ prevLast' = prevHash
      BY <2>6 DEF SegmentWalked, SegmentRead, Segs
    <3>2. prevUnlinked' <=> ~KnownBefore(si')
      <4>1. Segs[si].readable /\ ri # 0
        BY <2>1, <3>1
      <4> QED BY <2>4, <3>1, <4>1, Zenon
    <3>3. prevLast' = HashOf[Segs[si].recs[Len(Segs[si].recs)]]
      BY <2>1, <2>3, <3>1 DEF WalkLinks
    <3> QED BY <1>1, <2>1, <2>2, <3>2, <3>3 DEF WalkLinks
  <2> QED BY <1>3, <2>5, <2>6 DEF SegmentClosed
<1>4. CASE CheckIndex
  BY <1>1, <1>4 DEF CheckIndex, WalkLinks, Recs
<1>5. CASE UNCHANGED chainVars
  BY <1>1, <1>5 DEF chainVars, WalkLinks, Recs
<1> QED BY <1>2, <1>3, <1>4, <1>5 DEF ChainNext, Done, SegmentClosed

LEMMA WalkCountsInit == ChainInit => WalkCounts
<1> SUFFICES ASSUME ChainInit PROVE WalkCounts
  OBVIOUS
<1>1. counts = <<>> /\ si = 1
  BY DEF ChainInit, WalkStarted
<1>2. 1..Len(counts) = {} /\ 1..(si - 1) = {}
  BY <1>1
<1> QED BY <1>2, Zenon DEF WalkCounts

LEMMA WalkCountsStep ==
    ASSUME ChainTypeOK, WalkCounts, [ChainNext]_chainVars
    PROVE  WalkCounts'
<1>1. stream' = stream /\ Segs' = Segs
  BY StreamStep, StreamStays
<1>2. CASE SegmentClosed
  <2>1. /\ si \in 1..Len(Segs) /\ si \in Nat /\ ri = Len(Recs) /\ si' = si + 1
    BY <1>2, ClosedFacts
  <2>2. Recs = Segs[si].recs /\ Segs[si].readable \in BOOLEAN
    BY <2>1, Shape DEF Recs, Segs, ChainTypeOK
  <2>3. 1..(si' - 1) = (1..(si - 1)) \cup {si} /\ si \notin 1..(si - 1)
    BY <2>1
  <2>4. CASE SegmentRaises
    <3>1. ~Segs[si].readable /\ counts' = counts
      BY <2>4 DEF SegmentRaises, Segs
    <3> QED BY <1>1, <2>3, <3>1 DEF WalkCounts
  <2>5. CASE SegmentEmpty \/ SegmentWalked
    <3> DEFINE c == [seg |-> si, records |-> ri]
    <3>1. Segs[si].readable /\ counts' = Append(counts, c)
      BY <2>5 DEF SegmentEmpty, SegmentWalked, SegmentRead, Segs
    <3>2. c.seg = si /\ c.records = Len(Segs[si].recs) /\ c \in [seg : Nat, records : Nat]
      BY <2>1, <2>2 DEF ChainTypeOK
    <3> HIDE DEF c
    <3>3. /\ Len(counts') = Len(counts) + 1 /\ Len(counts) \in Nat
          /\ counts'[Len(counts) + 1] = c
          /\ \A n \in 1..Len(counts) : counts'[n] = counts[n]
      <4> DEFINE C == [seg : Nat, records : Nat]
      <4>1. counts \in Seq(C) /\ c \in C
        BY <3>2 DEF ChainTypeOK
      <4> HIDE DEF C
      <4> QED BY <3>1, <4>1, OneMoreInSequence
    <3>4. \A n \in 1..Len(counts') : n \in 1..Len(counts) \/ n = Len(counts) + 1
      BY <3>3
    <3>5. Len(counts) + 1 \in 1..Len(counts') /\ \A n \in 1..Len(counts) : n \in 1..Len(counts')
      BY <3>3
    <3>6. ASSUME NEW n \in 1..Len(counts')
          PROVE  /\ counts'[n].seg \in 1..(si' - 1) /\ Segs[counts'[n].seg].readable
                 /\ counts'[n].records = Len(Segs[counts'[n].seg].recs)
      <4>1. CASE n = Len(counts) + 1
        BY <2>3, <3>1, <3>2, <3>3, <4>1
      <4>2. CASE n \in 1..Len(counts)
        BY <2>3, <3>3, <4>2 DEF WalkCounts
      <4> QED BY <3>4, <4>1, <4>2
    <3>7. ASSUME NEW m \in 1..Len(counts'), NEW n \in 1..Len(counts'), m < n
          PROVE  counts'[m].seg < counts'[n].seg
      <4>1. m \in 1..Len(counts)
        BY <3>3, <3>4, <3>7
      <4>2. CASE n = Len(counts) + 1
        <5>1. counts'[m].seg \in 1..(si - 1)
          BY <3>3, <4>1 DEF WalkCounts
        <5> QED BY <2>1, <3>2, <3>3, <4>2, <5>1
      <4>3. CASE n \in 1..Len(counts)
        BY <3>3, <3>7, <4>1, <4>3 DEF WalkCounts
      <4> QED BY <3>4, <4>2, <4>3
    <3>8. ASSUME NEW s \in 1..(si' - 1), Segs[s].readable
          PROVE  \E n \in 1..Len(counts') : counts'[n].seg = s
      <4>1. CASE s = si
        BY <3>2, <3>3, <3>5, <4>1
      <4>2. CASE s \in 1..(si - 1)
        <5>1. PICK n \in 1..Len(counts) : counts[n].seg = s
          BY <3>8, <4>2 DEF WalkCounts
        <5> QED BY <3>3, <3>5, <5>1
      <4> QED BY <2>3, <4>1, <4>2
    <3> QED BY <1>1, <3>6, <3>7, <3>8 DEF WalkCounts
  <2> QED BY <1>2, <2>4, <2>5 DEF SegmentClosed
<1>3. CASE WalkRecord \/ CheckIndex \/ UNCHANGED chainVars
  <2>1. UNCHANGED <<si, counts>>
    BY <1>3 DEF WalkRecord, CheckIndex, chainVars
  <2> QED BY <1>1, <2>1 DEF WalkCounts
<1> QED BY <1>2, <1>3 DEF ChainNext, Done, SegmentClosed

-----------------------------------------------------------------------------
(* What the findings say. *)

Holds(q, x) == \E n \in 1..Len(q) : q[n] = x

LEMMA HoldsConcat ==
    ASSUME NEW S, NEW p \in Seq(S), NEW q \in Seq(S), NEW x
    PROVE  /\ p \o q \in Seq(S)
           /\ Holds(p \o q, x) <=> Holds(p, x) \/ Holds(q, x)
<1> DEFINE pq == p \o q
<1>1. /\ pq \in Seq(S) /\ Len(p) \in Nat /\ Len(q) \in Nat /\ Len(pq) = Len(p) + Len(q)
      /\ \A n \in 1..Len(pq) : pq[n] = IF n <= Len(p) THEN p[n] ELSE q[n - Len(p)]
  OBVIOUS
<1> HIDE DEF pq
<1>2. ASSUME Holds(pq, x) PROVE Holds(p, x) \/ Holds(q, x)
  <2>1. PICK n \in 1..Len(pq) : pq[n] = x
    BY <1>2 DEF Holds
  <2>2. CASE n <= Len(p)
    <3>1. n \in 1..Len(p) /\ p[n] = x
      BY <1>1, <2>1, <2>2
    <3> QED BY <3>1 DEF Holds
  <2>3. CASE ~(n <= Len(p))
    <3>1. n - Len(p) \in 1..Len(q) /\ q[n - Len(p)] = x
      BY <1>1, <2>1, <2>3
    <3> QED BY <3>1 DEF Holds
  <2> QED BY <2>2, <2>3
<1>3. ASSUME Holds(p, x) PROVE Holds(pq, x)
  <2>1. PICK n \in 1..Len(p) : p[n] = x
    BY <1>3 DEF Holds
  <2>2. n \in 1..Len(pq) /\ pq[n] = x
    BY <1>1, <2>1
  <2> QED BY <2>2 DEF Holds
<1>4. ASSUME Holds(q, x) PROVE Holds(pq, x)
  <2>1. PICK m \in 1..Len(q) : q[m] = x
    BY <1>4 DEF Holds
  <2> DEFINE n == Len(p) + m
  <2>2. n \in 1..Len(pq) /\ ~(n <= Len(p)) /\ n - Len(p) = m
    BY <1>1, <2>1
  <2> HIDE DEF n
  <2>3. pq[n] = x
    BY <1>1, <2>1, <2>2
  <2> QED BY <2>2, <2>3 DEF Holds
<1> QED BY <1>1, <1>2, <1>3, <1>4 DEF pq

LEMMA HoldsOne ==
    ASSUME NEW x, NEW y
    PROVE  (Holds(<<y>>, x) <=> x = y) /\ ~Holds(<<>>, x)
  BY DEF Holds

LEMMA HoldsAppend ==
    ASSUME NEW S, NEW q \in Seq(S), NEW y \in S, NEW x
    PROVE  Holds(Append(q, y), x) <=> Holds(q, x) \/ x = y
<1>1. /\ Len(Append(q, y)) = Len(q) + 1 /\ Len(q) \in Nat /\ Append(q, y)[Len(q) + 1] = y
      /\ \A n \in 1..Len(q) : Append(q, y)[n] = q[n]
  BY OneMoreInSequence
<1>2. \A n : n \in 1..(Len(q) + 1) <=> n \in 1..Len(q) \/ n = Len(q) + 1
  BY <1>1
<1> QED BY <1>1, <1>2 DEF Holds

LEMMA HoldsNothing ==
    ASSUME NEW S, NEW q \in Seq(S)
    PROVE  q = <<>> <=> \A x : ~Holds(q, x)
<1>1. ASSUME q # <<>> PROVE \E x : Holds(q, x)
  <2>1. 1 \in 1..Len(q)
    BY <1>1
  <2> QED BY <2>1 DEF Holds
<1> QED BY <1>1, HoldsOne

\* A closed segment adds to the findings and takes none away.
LEMMA ErrsOfClosed ==
    ASSUME ChainTypeOK, SegmentClosed, NEW x
    PROVE  /\ SegmentRaises => (Holds(errs', x) <=> Holds(errs, x) \/ x = Finding(si, 0, "unreadable"))
           /\ SegmentEmpty => (Holds(errs', x) <=> Holds(errs, x) \/ x = Finding(si, 0, "empty"))
           /\ SegmentWalked =>
                 (Holds(errs', x) <=> \/ Holds(errs, x) \/ Holds(segErrs, x)
                                      \/ hidden > 0 /\ x = Finding(si, 0, "hidden")
                                      \/ Holds(BoundaryFindings, x))
<1>1. errs \in Seq(Findings) /\ segErrs \in Seq(Findings)
  BY DEF ChainTypeOK
<1>2. SegmentRaises => (Holds(errs', x) <=> Holds(errs, x) \/ x = Finding(si, 0, "unreadable"))
  <2>1. Finding(si, 0, "unreadable") \in Findings
    BY FindingType DEF Kinds, ChainTypeOK
  <2> QED BY <1>1, <2>1, HoldsAppend DEF SegmentRaises
<1>3. SegmentEmpty => (Holds(errs', x) <=> Holds(errs, x) \/ x = Finding(si, 0, "empty"))
  <2>1. Finding(si, 0, "empty") \in Findings
    BY FindingType DEF Kinds, ChainTypeOK
  <2> QED BY <1>1, <2>1, HoldsAppend DEF SegmentEmpty
<1>4. ASSUME SegmentWalked
      PROVE  Holds(errs', x) <=> \/ Holds(errs, x) \/ Holds(segErrs, x)
                                 \/ hidden > 0 /\ x = Finding(si, 0, "hidden")
                                 \/ Holds(BoundaryFindings, x)
  <2> DEFINE h == IF hidden > 0 THEN <<Finding(si, 0, "hidden")>> ELSE <<>>
             b == BoundaryFindings
  <2>1. h \in Seq(Findings) /\ b \in Seq(Findings)
    BY HiddenType, BoundaryType
  <2>2. errs' = ((errs \o segErrs) \o h) \o b
    BY <1>4 DEF SegmentWalked
  <2>3. Holds(h, x) <=> hidden > 0 /\ x = Finding(si, 0, "hidden")
    BY HoldsOne
  <2> HIDE DEF h, b
  <2>4. /\ errs \o segErrs \in Seq(Findings)
        /\ Holds(errs \o segErrs, x) <=> Holds(errs, x) \/ Holds(segErrs, x)
    BY <1>1, HoldsConcat
  <2>5. /\ (errs \o segErrs) \o h \in Seq(Findings)
        /\ Holds((errs \o segErrs) \o h, x) <=> Holds(errs \o segErrs, x) \/ Holds(h, x)
    BY <2>1, <2>4, HoldsConcat
  <2>6. Holds(((errs \o segErrs) \o h) \o b, x) <=> Holds((errs \o segErrs) \o h, x) \/ Holds(b, x)
    BY <2>1, <2>5, HoldsConcat
  <2> QED BY <2>2, <2>3, <2>4, <2>5, <2>6 DEF b
<1> QED BY <1>2, <1>3, <1>4

\* verify_chain finds a link broken exactly when it is, but leaves the first record
\* of a later segment to the caller.
LEMMA LinkBrokenExact ==
    ASSUME ChainTypeOK, WalkLinks, WalkRecord
    PROVE  LinkBroken(Recs[ri + 1]) <=> (ri > 0 \/ si = 1) /\ ~Linked(stream, si, ri + 1)
<1>1. si \in 1..Len(stream.segs) /\ si \in Nat /\ 1 <= si /\ ri \in Nat /\ ri + 1 \in 1..Len(Recs)
  <2>1. si \in Nat \ {0}
    BY DEF ChainTypeOK
  <2> QED BY <2>1, RecordRead
<1>2. Linked(stream, si, ri + 1) <=> ChainPrev[Recs[ri + 1]] = LinkInto(stream, si, ri + 1)
  BY DEF Linked, Recs
<1>3. CASE ri > 0
  <2>1. /\ ri + 1 > 1 /\ (ri + 1) - 1 = ri /\ ri # 0
    BY <1>1, <1>3
  <2>2. LinkInto(stream, si, ri + 1) = HashOf[Recs[ri]] /\ prevHash = HashOf[Recs[ri]]
    BY <1>3, <2>1 DEF LinkInto, Recs, WalkLinks
  <2>3. Recs[ri] \in Record
    <3>1. stream \in Directory
      BY DEF ChainTypeOK
    <3>2. Len(Recs) \in Nat /\ \A i \in 1..Len(Recs) : Recs[i] \in Record
      BY <1>1, <3>1, Shape DEF Recs
    <3>3. ri \in 1..Len(Recs)
      BY <1>1, <1>3, <3>2
    <3> QED BY <3>2, <3>3
  <2>4. prevHash # None
    BY <2>2, <2>3, HashAssumption
  <2> QED BY <1>2, <1>3, <2>1, <2>2, <2>4 DEF LinkBroken
<1>4. CASE ri = 0 /\ si = 1
  <2>1. ~(ri + 1 > 1) /\ prevHash = None /\ ~(si > 1)
    BY <1>4 DEF WalkLinks
  <2>2. LinkInto(stream, si, ri + 1) = Genesis
    BY <1>4, <2>1 DEF LinkInto
  <2> QED BY <1>2, <1>4, <2>1, <2>2 DEF LinkBroken
<1>5. CASE ri = 0 /\ si # 1
  <2>1. si > 1 /\ ~(ri > 0)
    BY <1>1, <1>5
  <2> QED BY <1>5, <2>1 DEF LinkBroken
<1> QED BY <1>1, <1>3, <1>4, <1>5

\* The caller finds the link into a later segment broken exactly when it is, and
\* says that it could not tell when the segment before it gave no hash.
LEMMA BoundaryExact ==
    ASSUME ChainTypeOK, WalkLinks, SegmentWalked, NEW x
    PROVE  Holds(BoundaryFindings, x) <=>
              \/ si = 1 /\ ~Linked(stream, 1, 1) /\ x = Finding(si, 1, "genesis")
              \/ si > 1 /\ ~KnownBefore(si) /\ x = Finding(si, 1, "unverified")
              \/ /\ si > 1 /\ KnownBefore(si) /\ ~Linked(stream, si, 1)
                 /\ x = Finding(si, 1, "boundary")
<1>1. /\ si \in 1..Len(Segs) /\ si \in Nat /\ 1 <= si /\ ri > 0 /\ firstPrev = ChainPrev[Recs[1]]
  <2>1. SegmentClosed /\ ri > 0
    BY DEF SegmentClosed, SegmentWalked
  <2>2. si \in 1..Len(Segs) /\ si \in Nat
    BY <2>1, ClosedFacts
  <2> QED BY <2>1, <2>2 DEF WalkLinks
<1>2. CASE si = 1
  <2>1. Linked(stream, 1, 1) <=> firstPrev = Genesis
    BY <1>1, <1>2 DEF Linked, LinkInto, Recs
  <2>2. BoundaryFindings = IF firstPrev # Genesis THEN <<Finding(si, 1, "genesis")>> ELSE <<>>
    BY <1>2 DEF BoundaryFindings
  <2> QED BY <1>2, <2>1, <2>2, HoldsOne
<1>3. CASE si # 1
  <2>1. si > 1 /\ ~(1 > 1)
    BY <1>1, <1>3
  <2>2. prevUnlinked <=> ~KnownBefore(si)
    BY <2>1 DEF WalkLinks
  <2>3. KnownBefore(si) => (Linked(stream, si, 1) <=> firstPrev = prevLast)
    BY <1>1, <1>3, <2>1 DEF WalkLinks, Linked, LinkInto, Recs, Segs
  <2>4. CASE KnownBefore(si)
    <3>1. ~prevUnlinked
      BY <2>2, <2>4
    <3>2. BoundaryFindings = IF firstPrev # prevLast THEN <<Finding(si, 1, "boundary")>> ELSE <<>>
      BY <1>3, <2>1, <3>1 DEF BoundaryFindings
    <3> QED BY <1>3, <2>1, <2>3, <2>4, <3>2, HoldsOne
  <2>5. CASE ~KnownBefore(si)
    <3>1. prevUnlinked
      BY <2>2, <2>5
    <3>2. BoundaryFindings = <<Finding(si, 1, "unverified")>>
      BY <1>3, <2>1, <3>1 DEF BoundaryFindings
    <3> QED BY <1>3, <2>1, <2>5, <3>2, HoldsOne
  <2> QED BY <2>4, <2>5
<1> QED BY <1>2, <1>3

\* Kinds of finding that claim nothing about a record.
LEMMA GeneralFinding ==
    ASSUME NEW s, NEW i, NEW k \in {"hidden", "unverified", "empty", "unreadable", "index", "no segments"}
    PROVE  Justified(Finding(s, i, k))
<1>1. Finding(s, i, k).kind \notin {"link", "genesis", "boundary", "repeat"}
  BY DEF Finding
<1> QED BY <1>1 DEF Justified

LEMMA WalkJustifiedInit == ChainInit => WalkJustified
<1> SUFFICES ASSUME ChainInit PROVE WalkJustified
  OBVIOUS
<1>1. 1..Len(segErrs) = {}
  <2>1. segErrs = <<>>
    BY DEF ChainInit, WalkStarted
  <2> QED BY <2>1
<1> DEFINE a == Finding(0, 0, "no segments")
           b == Finding(0, 0, "index")
<1>4. errs = <<a>> \/ errs = <<b>> \/ errs = <<>>
  <2> HIDE DEF a, b
  <2> QED BY DEF ChainInit, WalkStarted, a, b
<1>2. Justified(Finding(0, 0, "no segments")) /\ Justified(Finding(0, 0, "index"))
  BY GeneralFinding
<1>3. ASSUME NEW n \in 1..Len(errs) PROVE Justified(errs[n])
  <2>1. Holds(errs, errs[n])
    BY DEF Holds
  <2> HIDE DEF a, b
  <2>2. errs[n] = a \/ errs[n] = b
    BY <1>4, <2>1, HoldsOne
  <2> QED BY <1>2, <2>2 DEF a, b
<1> QED BY <1>1, <1>3 DEF WalkJustified

\* What walking a record notices is so.
LEMMA NoticedJustified ==
    ASSUME ChainTypeOK, WalkLinks, WalkWindow, WalkRecord, NEW n \in 1..Len(Noticed(Recs[ri + 1]))
    PROVE  Justified(Noticed(Recs[ri + 1])[n])
<1> DEFINE r == Recs[ri + 1]
           f == Noticed(r)[n]
<1>1. /\ si \in 1..Len(stream.segs) /\ ri + 1 \in 1..Len(Recs) /\ ri \in Nat
      /\ stream \in Directory /\ si \in Nat
  BY RecordRead DEF ChainTypeOK
<1>2. <<si, ri + 1>> \in Places(stream) /\ RecordAt(stream, <<si, ri + 1>>) = r
  BY <1>1, PlaceType DEF Recs, RecordAt
<1>3. \/ InWindow(EventId[r]) /\ f = Finding(si, ri + 1, "repeat")
      \/ LinkBroken(r) /\ f = Finding(si, ri + 1, "link")
  BY NoticedFacts
<1> SUFFICES Justified(f)
  OBVIOUS
<1> HIDE DEF f
<1>4. CASE InWindow(EventId[r]) /\ f = Finding(si, ri + 1, "repeat")
  <2>1. PICK k \in 1..Len(window) : window[k] = EventId[r]
    BY <1>4 DEF InWindow
  <2>2. PICK p \in Walked : EventAt(p) = window[k]
    BY <2>1 DEF WalkWindow
  <2>3. p \in Places(stream) /\ Repeats(p, <<si, ri + 1>>)
    BY <1>2, <2>1, <2>2 DEF Walked, Here, Repeats, EventAt
  <2>4. f.seg = si /\ f.at = ri + 1 /\ f.kind = "repeat"
    BY <1>4 DEF Finding
  <2> QED BY <1>2, <2>3, <2>4 DEF Justified
<1>5. CASE LinkBroken(r) /\ f = Finding(si, ri + 1, "link")
  <2>1. (ri > 0 \/ si = 1) /\ ~Linked(stream, si, ri + 1)
    BY <1>5, LinkBrokenExact
  <2>2. ~(ri + 1 = 1 /\ si > 1)
    BY <1>1, <2>1
  <2>3. f.seg = si /\ f.at = ri + 1 /\ f.kind = "link"
    BY <1>5 DEF Finding
  <2> QED BY <1>2, <2>1, <2>2, <2>3 DEF Justified
<1> QED BY <1>3, <1>4, <1>5

LEMMA WalkJustifiedStep ==
    ASSUME ChainTypeOK, WalkPlace, WalkLinks, WalkWindow, WalkJustified, [ChainNext]_chainVars
    PROVE  WalkJustified'
<1>1. \A f : Justified(f)' <=> Justified(f)
  BY StreamStep, StreamStays
<1>2. CASE WalkRecord
  <2> DEFINE new == Noticed(Recs[ri + 1])
  <2>1. new \in Seq(Findings) /\ \A n \in 1..Len(new) : Justified(new[n])
    BY <1>2, NoticedFacts, NoticedJustified
  <2>2. Report(new) /\ errs' = errs
    BY <1>2, RecordRead DEF WalkRecord
  <2> HIDE DEF new
  <2>3. \A n \in 1..Len(segErrs') :
            \/ \E m \in 1..Len(segErrs) : segErrs'[n] = segErrs[m]
            \/ \E m \in 1..Len(new) : segErrs'[n] = new[m]
    BY <2>1, <2>2, ReportFacts
  <2>4. \A n \in 1..Len(segErrs') : Justified(segErrs'[n])
    BY <2>1, <2>3 DEF WalkJustified
  <2> QED BY <1>1, <2>2, <2>4 DEF WalkJustified
<1>3. CASE SegmentClosed
  <2>1. segErrs' = <<>> /\ si \in 1..Len(Segs) /\ si \in Nat /\ ri = Len(Recs) /\ Len(Recs) \in Nat
    BY <1>3, ClosedFacts
  <2>2. ASSUME NEW x, Holds(errs', x) PROVE Justified(x)
    <3>1. CASE Holds(errs, x) \/ Holds(segErrs, x)
      BY <3>1 DEF Holds, WalkJustified
    <3>2. CASE \E k \in {"hidden", "empty", "unreadable"} : x = Finding(si, 0, k)
      BY <3>2, GeneralFinding
    <3>3. CASE SegmentWalked /\ Holds(BoundaryFindings, x)
      <4>1. <<si, 1>> \in Places(stream)
        <5>1. 1 \in 1..Len(Recs) /\ si \in 1..Len(stream.segs)
          BY <2>1, <3>3 DEF SegmentWalked, Segs
        <5> QED BY <5>1, PlaceType DEF Recs
      <4>2. CASE si > 1 /\ ~KnownBefore(si) /\ x = Finding(si, 1, "unverified")
        BY <4>2, GeneralFinding
      <4>3. CASE \/ si = 1 /\ ~Linked(stream, 1, 1) /\ x = Finding(si, 1, "genesis")
                 \/ /\ si > 1 /\ KnownBefore(si) /\ ~Linked(stream, si, 1)
                    /\ x = Finding(si, 1, "boundary")
        <5>1. /\ x.seg = si /\ x.at = 1 /\ x.kind \in {"genesis", "boundary"}
              /\ ~Linked(stream, si, 1) /\ (si > 1 => KnownBefore(si))
          BY <4>3 DEF Finding
        <5> QED BY <4>1, <5>1 DEF Justified
      <4> QED BY <3>3, <4>2, <4>3, BoundaryExact
    <3> QED BY <1>3, <2>2, <3>1, <3>2, <3>3, ErrsOfClosed DEF SegmentClosed
  <2>3. \A n \in 1..Len(errs') : Justified(errs'[n])
    BY <2>2 DEF Holds
  <2>4. 1..Len(segErrs') = {}
    BY <2>1
  <2> QED BY <1>1, <2>3, <2>4 DEF WalkJustified
<1>4. CASE CheckIndex
  <2>1. segErrs' = segErrs /\ errs' = errs \o (IF stream.index = "differs" THEN <<Finding(0, 0, "index")>> ELSE <<>>)
    BY <1>4 DEF CheckIndex
  <2>2. ASSUME NEW x, Holds(errs', x) PROVE Justified(x)
    <3>1. Finding(0, 0, "index") \in Findings /\ errs \in Seq(Findings)
      BY FindingType DEF Kinds, ChainTypeOK
    <3>2. <<Finding(0, 0, "index")>> \in Seq(Findings) /\ <<>> \in Seq(Findings)
      BY <3>1, OneIsASequence
    <3> DEFINE t == IF stream.index = "differs" THEN <<Finding(0, 0, "index")>> ELSE <<>>
    <3>3. Holds(errs, x) \/ x = Finding(0, 0, "index")
      <4>1. t \in Seq(Findings) /\ errs' = errs \o t
        BY <2>1, <3>2
      <4>2. Holds(t, x) => x = Finding(0, 0, "index")
        BY HoldsOne
      <4> HIDE DEF t
      <4>3. Holds(errs \o t, x) <=> Holds(errs, x) \/ Holds(t, x)
        BY <3>1, <4>1, HoldsConcat
      <4> QED BY <2>2, <4>1, <4>2, <4>3
    <3>4. CASE Holds(errs, x)
      BY <3>4 DEF Holds, WalkJustified
    <3> QED BY <3>3, <3>4, GeneralFinding
  <2>3. \A n \in 1..Len(errs') : Justified(errs'[n])
    BY <2>2 DEF Holds
  <2> QED BY <1>1, <2>1, <2>3 DEF WalkJustified
<1>5. CASE UNCHANGED chainVars
  BY <1>1, <1>5 DEF chainVars, WalkJustified
<1> QED BY <1>2, <1>3, <1>4, <1>5 DEF ChainNext, Done, SegmentClosed

\* What is named stays named.
LEMMA NamedHolds ==
    ASSUME NEW s, NEW i
    PROVE  /\ Named(s, i) <=> \E x : Holds(errs, x) /\ x.seg = s
                                   /\ \/ x.at = i /\ x.kind \in {"link", "genesis", "boundary"}
                                      \/ x.at = 0 /\ x.kind \in {"hidden"}
           /\ Named(s, i)' <=> \E x : Holds(errs', x) /\ x.seg = s
                                    /\ \/ x.at = i /\ x.kind \in {"link", "genesis", "boundary"}
                                       \/ x.at = 0 /\ x.kind \in {"hidden"}
  BY DEF Named, Reported, Holds

LEMMA ErrsGrow ==
    ASSUME ChainTypeOK, [ChainNext]_chainVars, NEW x, Holds(errs, x)
    PROVE  Holds(errs', x)
<1>1. CASE SegmentClosed
  BY <1>1, ErrsOfClosed DEF SegmentClosed
<1>2. CASE CheckIndex
  <2>1. errs' = errs \o (IF stream.index = "differs" THEN <<Finding(0, 0, "index")>> ELSE <<>>)
    BY <1>2 DEF CheckIndex
  <2>2. Finding(0, 0, "index") \in Findings /\ errs \in Seq(Findings)
    BY FindingType DEF Kinds, ChainTypeOK
  <2>3. <<Finding(0, 0, "index")>> \in Seq(Findings) /\ <<>> \in Seq(Findings)
    BY <2>2, OneIsASequence
  <2> QED BY <2>1, <2>2, <2>3, HoldsConcat
<1>3. CASE WalkRecord \/ UNCHANGED chainVars
  BY <1>3 DEF WalkRecord, chainVars
<1> QED BY <1>1, <1>2, <1>3 DEF ChainNext, Done, SegmentClosed

LEMMA NamedStays ==
    ASSUME ChainTypeOK, [ChainNext]_chainVars, NEW s, NEW i, Named(s, i)
    PROVE  Named(s, i)'
  BY NamedHolds, ErrsGrow

LEMMA WalkNamedInit == ChainInit => WalkNamed
<1> SUFFICES ASSUME ChainInit PROVE WalkNamed
  OBVIOUS
<1>1. si = 1 /\ 1..ri = {} /\ 1..(si - 1) = {} /\ (Segs = <<>> => errs # <<>>)
  <2>1. si = 1 /\ ri = 0
    BY DEF ChainInit, WalkStarted
  <2> DEFINE f == Finding(0, 0, "no segments")
  <2>2. Segs = <<>> => errs = <<f>>
    BY DEF ChainInit, WalkStarted, Segs
  <2> HIDE DEF f
  <2>3. <<f>> # <<>>
    OBVIOUS
  <2> QED BY <2>1, <2>2, <2>3
<1>2. stream \in Directory
  BY StreamAssumption DEF ChainInit
<1>3. \A p \in Places(stream) : ~(p[1] < si)
  BY <1>1, <1>2, PlaceFacts
<1> QED BY <1>1, <1>3, Zenon DEF WalkNamed

LEMMA WalkNamedStep ==
    ASSUME ChainTypeOK, WalkPlace, WalkLinks, WalkNamed, [ChainNext]_chainVars
    PROVE  WalkNamed'
<1>1. /\ stream' = stream /\ Segs' = Segs /\ Places(stream)' = Places(stream)
      /\ \A s, i : Visible(s, i)' <=> Visible(s, i)
  BY StreamStep, StreamStays
<1>2. stream \in Directory
  BY DEF ChainTypeOK
<1>3. CASE WalkRecord
  <2> DEFINE r == Recs[ri + 1]
             new == Noticed(r)
  <2>1. /\ ri \in Nat /\ ri' = ri + 1 /\ si' = si /\ errs' = errs /\ Report(new)
    BY <1>3, RecordRead DEF WalkRecord
  <2>2. new \in Seq(Findings) /\ hidden \in Nat
    BY NoticedFacts DEF ChainTypeOK
  <2>3. LinkBroken(r) => \E n \in 1..Len(new) : new[n] = Finding(si, ri + 1, "link")
    BY NoticedFacts
  <2>4. LinkBroken(r) <=> (ri > 0 \/ si = 1) /\ ~Linked(stream, si, ri + 1)
    BY <1>3, LinkBrokenExact
  <2> HIDE DEF r, new
  <2>5. /\ hidden' \in Nat /\ hidden' >= hidden
        /\ \/ hidden' > 0
           \/ /\ \A m \in 1..Len(segErrs) : \E n \in 1..Len(segErrs') : segErrs'[n] = segErrs[m]
              /\ \A m \in 1..Len(new) : \E n \in 1..Len(segErrs') : segErrs'[n] = new[m]
    BY <2>1, <2>2, ReportFacts
  <2>6. ASSUME NEW i \in 1..ri', i > 1 \/ si = 1, ~Linked(stream, si, i)
        PROVE  hidden' > 0 \/ \E n \in 1..Len(segErrs') : segErrs'[n] = Finding(si, i, "link")
    <3>1. CASE i = ri + 1
      <4>1. ri > 0 \/ si = 1
        BY <2>1, <2>6, <3>1
      <4> QED BY <2>3, <2>4, <2>5, <2>6, <3>1, <4>1
    <3>2. CASE i \in 1..ri
      <4>1. hidden > 0 \/ LinkKept(i)
        BY <2>6, <3>2 DEF WalkNamed
      <4>2. hidden > 0 => hidden' > 0
        BY <2>2, <2>5
      <4> QED BY <2>5, <4>1, <4>2 DEF LinkKept
    <3> QED BY <2>1, <3>1, <3>2
  <2>7. \A s, i : Named(s, i)' <=> Named(s, i)
    BY <2>1, NamedHolds
  <2>8. ASSUME NEW p \in Places(stream), p[1] < si, Visible(p[1], p[2])
        PROVE  Named(p[1], p[2])'
    BY <2>7, <2>8 DEF WalkNamed
  <2>9. \A i \in 1..ri' : (i > 1 \/ si' = 1) /\ ~Linked(stream', si', i) => hidden' > 0 \/ LinkKept(i)'
    BY <1>1, <2>1, <2>6 DEF LinkKept
  <2>10. \A p \in Places(stream') : p[1] < si' /\ Visible(p[1], p[2])' => Named(p[1], p[2])'
    BY <1>1, <2>1, <2>8
  <2>11. errs' = <<>> => /\ Segs' # <<>>
                         /\ \A s \in 1..(si' - 1) : Segs'[s].readable /\ Segs'[s].recs # <<>>
    BY <1>1, <2>1 DEF WalkNamed
  <2> QED BY <2>9, <2>10, <2>11 DEF WalkNamed
<1>4. CASE SegmentClosed
  <2>1. /\ si \in 1..Len(Segs) /\ si \in Nat /\ ri = Len(Recs) /\ Len(Recs) \in Nat
        /\ si' = si + 1 /\ ri' = 0
    BY <1>4, ClosedFacts
  <2>2. Recs = Segs[si].recs /\ (Recs = <<>> <=> Len(Recs) = 0) /\ Segs[si].readable \in BOOLEAN
    BY <1>2, <2>1, Shape DEF Recs, Segs
  <2>3. ASSUME NEW p \in Places(stream), p[1] < si', Visible(p[1], p[2])
        PROVE  Named(p[1], p[2])'
    <3>1. p[1] \in Nat /\ p[2] \in Nat /\ p[1] \in 1..Len(stream.segs) /\ p[2] \in 1..Len(stream.segs[p[1]].recs)
          /\ p[2] >= 1
      BY <1>2, PlaceFacts, PlaceType
    <3>2. CASE p[1] < si
      BY <2>3, <3>2, NamedStays DEF WalkNamed
    <3>3. CASE p[1] = si
      <4>1. p[2] \in 1..Len(Recs) /\ Len(Recs) # 0
        BY <2>1, <3>1, <3>3 DEF Recs
      <4>2. SegmentWalked
        <5>1. ~SegmentEmpty
          BY <2>1, <4>1 DEF SegmentEmpty
        <5>2. ~SegmentRaises
          BY <2>3, <3>3 DEF SegmentRaises, Visible, Segs
        <5> QED BY <1>4, <5>1, <5>2 DEF SegmentClosed
      <4>3. ~Linked(stream, si, p[2]) /\ (p[2] = 1 /\ si > 1 => KnownBefore(si))
        BY <2>3, <3>3 DEF Visible
      <4>4. CASE p[2] > 1 \/ si = 1
        <5>1. hidden > 0 \/ LinkKept(p[2])
          BY <2>1, <4>1, <4>3, <4>4 DEF WalkNamed
        <5>2. CASE hidden > 0
          <6>1. Holds(errs', Finding(si, 0, "hidden"))
            BY <1>4, <4>2, <5>2, ErrsOfClosed
          <6>2. /\ Finding(si, 0, "hidden").seg = p[1] /\ Finding(si, 0, "hidden").at = 0
                /\ Finding(si, 0, "hidden").kind \in {"hidden"}
            BY <3>3 DEF Finding
          <6> QED BY <6>1, <6>2, NamedHolds
        <5>3. CASE LinkKept(p[2])
          <6>1. Holds(errs', Finding(si, p[2], "link"))
            BY <1>4, <4>2, <5>3, ErrsOfClosed DEF LinkKept, Holds
          <6>2. /\ Finding(si, p[2], "link").seg = p[1] /\ Finding(si, p[2], "link").at = p[2]
                /\ Finding(si, p[2], "link").kind \in {"link", "genesis", "boundary"}
            BY <3>3 DEF Finding
          <6> QED BY <6>1, <6>2, NamedHolds
        <5> QED BY <5>1, <5>2, <5>3
      <4>5. CASE ~(p[2] > 1 \/ si = 1)
        <5>1. p[2] = 1 /\ si > 1
          BY <2>1, <3>1, <4>5
        <5>2. Holds(BoundaryFindings, Finding(si, 1, "boundary"))
          BY <4>2, <4>3, <5>1, BoundaryExact
        <5>3. Holds(errs', Finding(si, 1, "boundary"))
          BY <1>4, <4>2, <5>2, ErrsOfClosed
        <5>4. /\ Finding(si, 1, "boundary").seg = p[1] /\ Finding(si, 1, "boundary").at = p[2]
              /\ Finding(si, 1, "boundary").kind \in {"link", "genesis", "boundary"}
          BY <3>3, <5>1 DEF Finding
        <5> QED BY <5>3, <5>4, NamedHolds
      <4> QED BY <4>4, <4>5
    <3> QED BY <2>1, <2>3, <3>1, <3>2, <3>3
  <2>4. ASSUME errs' = <<>>
        PROVE  Segs # <<>> /\ \A s \in 1..si : Segs[s].readable /\ Segs[s].recs # <<>>
    <3>1. \A x : ~Holds(errs', x)
      BY <2>4, HoldsOne
    <3>2. SegmentWalked
      BY <1>4, <3>1, ErrsOfClosed DEF SegmentClosed
    <3>3. Segs[si].readable /\ Segs[si].recs # <<>>
      BY <2>1, <2>2, <3>2 DEF SegmentWalked, SegmentRead, Segs
    <3>4. errs = <<>>
      <4>1. \A x : ~Holds(errs, x)
        BY <1>4, <3>1, ErrsGrow
      <4>2. errs \in Seq(Findings) /\ Len(errs) \in Nat
        BY DEF ChainTypeOK
      <4>3. ASSUME errs # <<>> PROVE FALSE
        <5>1. 1 \in 1..Len(errs)
          BY <4>2, <4>3
        <5> QED BY <4>1, <5>1 DEF Holds
      <4> QED BY <4>3
    <3>5. Segs # <<>> /\ \A s \in 1..(si - 1) : Segs[s].readable /\ Segs[s].recs # <<>>
      BY <3>4 DEF WalkNamed
    <3>6. \A s \in 1..si : s = si \/ s \in 1..(si - 1)
      BY <2>1
    <3> QED BY <3>3, <3>5, <3>6
  <2>5. 1..ri' = {} /\ 1..(si' - 1) = 1..si
    BY <2>1
  <2>6. \A p \in Places(stream') : p[1] < si' /\ Visible(p[1], p[2])' => Named(p[1], p[2])'
    BY <1>1, <2>3
  <2>7. errs' = <<>> => /\ Segs' # <<>>
                        /\ \A s \in 1..(si' - 1) : Segs'[s].readable /\ Segs'[s].recs # <<>>
    BY <1>1, <2>4, <2>5
  <2> QED BY <2>5, <2>6, <2>7 DEF WalkNamed
<1>5. CASE CheckIndex
  <2>1. UNCHANGED <<si, ri, segErrs, hidden>>
    BY <1>5 DEF CheckIndex
  <2>2. errs' = <<>> => errs = <<>>
    <3>1. errs' = errs \o (IF stream.index = "differs" THEN <<Finding(0, 0, "index")>> ELSE <<>>)
      BY <1>5 DEF CheckIndex
    <3>2. errs \in Seq(Findings) /\ Finding(0, 0, "index") \in Findings
      BY FindingType DEF ChainTypeOK, Kinds
    <3> QED BY <3>1, <3>2
  <2>3. \A p \in Places(stream') : p[1] < si' /\ Visible(p[1], p[2])' => Named(p[1], p[2])'
    BY <1>1, <2>1, NamedStays DEF WalkNamed
  <2> QED BY <1>1, <2>1, <2>2, <2>3 DEF WalkNamed, LinkKept
<1>6. CASE UNCHANGED chainVars
  <2>1. UNCHANGED <<si, ri, segErrs, hidden, errs>>
    BY <1>6 DEF chainVars
  <2>2. \A s, i : Named(s, i)' <=> Named(s, i)
    BY <2>1, NamedHolds
  <2> QED BY <1>1, <2>1, <2>2 DEF WalkNamed, LinkKept
<1> QED BY <1>3, <1>4, <1>5, <1>6 DEF ChainNext, Done, SegmentClosed

-----------------------------------------------------------------------------
(* The window and the repeats. *)

LEMMA AgeType ==
    ASSUME ChainTypeOK, NEW p \in Walked
    PROVE  p \in Places(stream) /\ Age(p) \in Nat /\ Age(p) >= 1
<1>1. stream \in Directory /\ p \in Places(stream) /\ Before(p, Here)
  BY DEF ChainTypeOK, Walked
<1> DEFINE S == {r \in Places(stream) : ~Before(r, p) /\ Before(r, Here)}
<1>2. S \in SUBSET Places(stream) /\ p \in S
  BY <1>1, OrderIsTotal
<1> HIDE DEF S
<1>3. IsFiniteSet(S) /\ Cardinality(S) \in Nat
  BY <1>1, <1>2, CountType
<1>4. Cardinality(S) # 0
  BY <1>2, <1>3, FS_EmptySet
<1>5. Cardinality(S) >= 1
  BY <1>3, <1>4
<1> QED BY <1>1, <1>3, <1>5 DEF Age, Distance, S

\* A record walked is one place more, and every record before it is one older.
LEMMA WalkedGrows ==
    ASSUME ChainTypeOK, WalkRecord
    PROVE  /\ Here \in Places(stream) /\ EventAt(Here) = EventId[Recs[ri + 1]]
           /\ Walked' = Walked \cup {Here} /\ Here \notin Walked
           /\ \A p \in Walked : Age(p)' = Age(p) + 1
           /\ \A h : h = Here => Age(h)' = 1
<1>1. /\ stream \in Directory /\ si \in 1..Len(stream.segs) /\ ri + 1 \in 1..Len(Recs)
      /\ ri \in Nat /\ si \in Nat /\ Here = <<si, ri + 1>>
      /\ stream' = stream /\ si' = si /\ ri' = ri + 1
  BY RecordRead DEF ChainTypeOK, Here, WalkRecord
<1> DEFINE q == Here
<1>2. q \in Places(stream) /\ EventAt(q) = EventId[Recs[ri + 1]]
  BY <1>1, PlaceType DEF Recs, EventAt, RecordAt
<1>3. Here' = <<si, ri + 2>>
  <2>1. ri + 1 + 1 = ri + 2
    BY <1>1
  <2> QED BY <1>1, <2>1 DEF Here
<1>4. ASSUME NEW r \in Places(stream)
      PROVE  Before(r, Here') <=> Before(r, q) \/ r = q
  <2>1. r = <<r[1], r[2]>> /\ r[1] \in Nat /\ r[2] \in Nat
    BY <1>1, PlaceFacts
  <2>2. r = q <=> r[1] = si /\ r[2] = ri + 1
    BY <1>1, <2>1
  <2>3. Before(r, Here') <=> r[1] < si \/ (r[1] = si /\ r[2] < ri + 2)
    BY <1>3 DEF Before
  <2>4. Before(r, q) <=> r[1] < si \/ (r[1] = si /\ r[2] < ri + 1)
    BY <1>1 DEF Before
  <2> QED BY <1>1, <2>1, <2>2, <2>3, <2>4
<1> HIDE DEF q
<1>5. /\ Walked' = {p \in Places(stream) : Before(p, Here')}
      /\ Walked = {p \in Places(stream) : Before(p, q)}
  BY <1>1 DEF Walked, q
<1>6. ~Before(q, q) /\ \A r \in Places(stream) : r = q \/ Before(r, q) \/ Before(q, r)
  BY <1>1, <1>2, OrderIsTotal
<1>7. Walked' = Walked \cup {q} /\ q \notin Walked
  BY <1>2, <1>4, <1>5, <1>6
<1>8. \A p : Age(p)' = Cardinality({r \in Places(stream) : ~Before(r, p) /\ Before(r, Here')})
  BY <1>1 DEF Age, Distance, Before
<1>9. ASSUME NEW p \in Walked PROVE Age(p)' = Age(p) + 1
  <2> DEFINE S == {r \in Places(stream) : ~Before(r, p) /\ Before(r, q)}
             T == {r \in Places(stream) : ~Before(r, p) /\ Before(r, Here')}
  <2>1. p \in Places(stream) /\ Before(p, q)
    BY <1>5
  <2>2. ~Before(q, p)
    BY <1>1, <1>2, <2>1, OrderIsTotal
  <2>3. T = S \cup {q} /\ q \notin S /\ S \in SUBSET Places(stream)
    BY <1>2, <1>4, <1>6, <2>2
  <2>4. Age(p) = Cardinality(S) /\ Age(p)' = Cardinality(T)
    BY <1>8 DEF Age, Distance, q
  <2> HIDE DEF S, T
  <2> QED BY <1>1, <1>2, <2>3, <2>4, CountOneMore
<1>10. ASSUME NEW h, h = q PROVE Age(h)' = 1
  <2>1. {r \in Places(stream) : ~Before(r, h) /\ Before(r, Here')} = {h}
    BY <1>2, <1>4, <1>6, <1>10
  <2>2. Cardinality({h}) = 1
    BY FS_Singleton, Zenon
  <2> QED BY <1>8, <2>1, <2>2
<1> QED BY <1>2, <1>7, <1>9, <1>10 DEF q

LEMMA WalkedStays ==
    ASSUME ChainTypeOK, WalkPlace, [ChainNext]_chainVars, ~WalkRecord
    PROVE  Walked' = Walked /\ \A p : Age(p)' = Age(p)
<1>1. stream' = stream /\ stream \in Directory
  BY StreamStep DEF ChainTypeOK
<1>2. ASSUME NEW r \in Places(stream) PROVE Before(r, Here') <=> Before(r, Here)
  <2>1. CASE SegmentClosed
    <3>1. /\ si \in 1..Len(Segs) /\ ri = Len(Recs) /\ Len(Segs) \in Nat /\ Len(Recs) \in Nat
          /\ si \in Nat /\ si' = si + 1 /\ ri' = 0
      BY <2>1, ClosedFacts
    <3>2. r[1] \in Nat /\ r[2] \in Nat /\ r[2] <= Len(stream.segs[r[1]].recs) /\ r[2] >= 1
      BY <1>1, PlaceFacts
    <3>3. r[1] = si => r[2] <= ri
      BY <3>1, <3>2 DEF Recs
    <3>4. Here' = <<si + 1, 1>> /\ Here = <<si, ri + 1>>
      BY <3>1 DEF Here
    <3>5. /\ Before(r, Here') <=> r[1] < si + 1 \/ (r[1] = si + 1 /\ r[2] < 1)
          /\ Before(r, Here) <=> r[1] < si \/ (r[1] = si /\ r[2] < ri + 1)
      BY <3>4 DEF Before
    <3> QED BY <3>1, <3>2, <3>3, <3>5
  <2>2. CASE UNCHANGED <<si, ri>>
    BY <2>2 DEF Here
  <2> QED BY <2>1, <2>2 DEF ChainNext, Done, SegmentClosed, CheckIndex, chainVars
<1>3. Walked' = {p \in Places(stream) : Before(p, Here')} /\ Walked = {p \in Places(stream) : Before(p, Here)}
  BY <1>1 DEF Walked
<1>4. Walked' = Walked
  BY <1>2, <1>3
<1>5. ASSUME NEW p PROVE Age(p)' = Age(p)
  <2>1. Age(p)' = Cardinality({r \in Places(stream) : ~Before(r, p) /\ Before(r, Here')})
    BY <1>1 DEF Age, Distance, Before
  <2>2. {r \in Places(stream) : ~Before(r, p) /\ Before(r, Here')}
          = {r \in Places(stream) : ~Before(r, p) /\ Before(r, Here)}
    BY <1>2
  <2> QED BY <2>1, <2>2 DEF Age, Distance
<1> QED BY <1>4, <1>5

\* While nothing was repeated, the window tells whether the next record repeats.
LEMMA WindowTells ==
    ASSUME ChainTypeOK, WalkWindow, WalkRecord, NoRepeat
    PROVE  InWindow(EventId[Recs[ri + 1]]) <=> RepeatAt(Here)
<1> DEFINE e == EventId[Recs[ri + 1]]
           n == Len(window)
<1>1. n \in Nat /\ n <= Capacity /\ Capacity \in Nat
  BY BoundAssumption DEF ChainTypeOK
<1>2. EventAt(Here) = e
  BY WalkedGrows
<1> HIDE DEF e, n
<1>3. ASSUME InWindow(e) PROVE RepeatAt(Here)
  <2>1. PICK k \in 1..n : window[k] = e
    BY <1>3 DEF InWindow, n
  <2>2. PICK p \in Walked : Age(p) = n + 1 - k /\ EventAt(p) = window[k]
    BY <2>1 DEF WalkWindow, n
  <2>3. Age(p) <= Capacity
    BY <1>1, <2>1, <2>2
  <2>4. p \in Places(stream) /\ Before(p, Here) /\ EventAt(p) = EventAt(Here)
    BY <1>2, <2>1, <2>2 DEF Walked
  <2> QED BY <2>3, <2>4 DEF RepeatAt, Repeats, EventAt, Age
<1>4. ASSUME RepeatAt(Here) PROVE InWindow(e)
  <2>1. PICK p \in Places(stream) : Repeats(p, Here) /\ Distance(stream, p, Here) <= Capacity
    BY <1>4 DEF RepeatAt
  <2>2. p \in Walked /\ Age(p) <= Capacity /\ EventAt(p) = e
    BY <1>2, <2>1 DEF Walked, Age, Repeats, EventAt
  <2>3. Age(p) \in Nat /\ Age(p) >= 1
    BY <2>2, AgeType
  <2>4. Age(p) <= n /\ window[n + 1 - Age(p)] = e
    BY <2>2 DEF WalkWindow, n
  <2>5. n + 1 - Age(p) \in 1..n
    BY <1>1, <2>3, <2>4
  <2> QED BY <2>4, <2>5 DEF InWindow, n
<1> QED BY <1>3, <1>4 DEF e

LEMMA NoRepeatStep ==
    ASSUME ChainTypeOK, WalkPlace, [ChainNext]_chainVars
    PROVE  /\ WalkRecord => (NoRepeat' <=> NoRepeat /\ ~RepeatAt(Here))
           /\ ~WalkRecord => (NoRepeat' <=> NoRepeat)
<1>1. \A q : RepeatAt(q)' <=> RepeatAt(q)
  BY StreamStep, StreamStays
<1>2. NoRepeat' <=> \A q \in Walked' : ~RepeatAt(q)
  BY <1>1 DEF NoRepeat
<1>3. WalkRecord => (NoRepeat' <=> NoRepeat /\ ~RepeatAt(Here))
  BY <1>2, WalkedGrows DEF NoRepeat
<1>4. ~WalkRecord => (NoRepeat' <=> NoRepeat)
  BY <1>2, WalkedStays DEF NoRepeat
<1> QED BY <1>3, <1>4

LEMMA WalkWindowInit == ChainInit => WalkWindow /\ WalkVerdict
<1> SUFFICES ASSUME ChainInit PROVE WalkWindow /\ WalkVerdict
  OBVIOUS
<1>1. /\ stream \in Directory /\ si = 1 /\ ri = 0 /\ window = <<>> /\ segErrs = <<>> /\ hidden = 0
      /\ errs = CASE stream.segs = <<>> -> <<Finding(0, 0, "no segments")>>
                  [] stream.segs # <<>> /\ stream.index = "unusable" -> <<Finding(0, 0, "index")>>
                  [] OTHER -> <<>>
  BY StreamAssumption DEF ChainInit, WalkStarted
<1>7. stream \in Directory /\ si = 1 /\ ri = 0
  BY <1>1
<1>2. Walked = {}
  <2>1. Here = <<1, 1>>
    BY <1>7 DEF Here
  <2>2. \A p \in Places(stream) : ~Before(p, <<1, 1>>)
    BY <1>7, PlaceFacts DEF Before
  <2> QED BY <2>1, <2>2 DEF Walked
<1>3. 1..Len(window) = {}
  <2>1. Len(window) = 0
    BY <1>1
  <2> QED BY <2>1
<1>4. Unbroken(stream) /\ IndexOK => errs = <<>>
  BY <1>1 DEF Unbroken, IndexOK
<1>5. WalkWindow
  BY <1>2, <1>3, Zenon DEF WalkWindow
<1>6. WalkVerdict
  BY <1>1, <1>2, <1>4, Zenon DEF WalkVerdict, NoRepeat, SoFarClean
<1> QED BY <1>5, <1>6

LEMMA WalkWindowStep ==
    ASSUME ChainTypeOK, WalkPlace, WalkWindow, [ChainNext]_chainVars
    PROVE  WalkWindow'
<1>1. \A p : EventAt(p)' = EventAt(p)
  BY StreamStep, StreamStays
<1>2. CASE WalkRecord
  <2> DEFINE e == EventId[Recs[ri + 1]]
             n == Len(window)
             m == Len(window')
  <2>1. PICK h :
           /\ e \in Event /\ window' = Remember(e)
           /\ h \in Places(stream) /\ EventAt(h) = e
           /\ Walked' = Walked \cup {h}
           /\ \A p \in Walked : Age(p)' = Age(p) + 1
           /\ Age(h)' = 1
    BY <1>2, RecordRead, WalkedGrows DEF WalkRecord
  <2>2. n \in Nat /\ n <= Capacity /\ Capacity \in Nat /\ Capacity >= 1
    BY BoundAssumption DEF ChainTypeOK
  <2>3. NoRepeat' => NoRepeat /\ ~InWindow(e)
    BY <1>2, WindowTells, NoRepeatStep
  <2> HIDE DEF e
  <2>4. /\ m \in Nat
        /\ \A k \in 1..m : window'[k] = e \/ \E j \in 1..n : window'[k] = window[j]
        /\ ~InWindow(e) /\ n < Capacity =>
              m = n + 1 /\ window'[n + 1] = e /\ \A k \in 1..n : window'[k] = window[k]
        /\ ~InWindow(e) /\ n = Capacity =>
              m = n /\ window'[n] = e /\ \A k \in 1..(n - 1) : window'[k] = window[k + 1]
    BY <2>1, RememberFacts, ZenonT(30)
  <2> HIDE DEF n, m
  <2>5. ASSUME NEW k \in 1..m PROVE \E p \in Walked' : EventAt(p) = window'[k]
    <3>1. CASE window'[k] = e
      BY <2>1, <3>1
    <3>2. CASE \E j \in 1..n : window'[k] = window[j]
      BY <2>1, <3>2 DEF WalkWindow, n
    <3> QED BY <2>4, <3>1, <3>2
  <2>6. ASSUME NoRepeat'
        PROVE  /\ \A k \in 1..m : \E p \in Walked' : Age(p)' = m + 1 - k /\ EventAt(p) = window'[k]
               /\ \A p \in Walked' : Age(p)' <= Capacity =>
                     Age(p)' <= m /\ EventAt(p) = window'[m + 1 - Age(p)']
    <3>1. ~InWindow(e) /\ NoRepeat
      BY <2>3, <2>6
    <3>2. /\ \A k \in 1..n : \E p \in Walked : Age(p) = n + 1 - k /\ EventAt(p) = window[k]
          /\ \A p \in Walked : Age(p) <= Capacity => Age(p) <= n /\ EventAt(p) = window[n + 1 - Age(p)]
      BY <3>1 DEF WalkWindow, n
    <3>3. CASE n < Capacity
      <4>1. m = n + 1 /\ window'[n + 1] = e /\ \A k \in 1..n : window'[k] = window[k]
        BY <2>4, <3>1, <3>3
      <4>2. ASSUME NEW k \in 1..m
            PROVE  \E p \in Walked' : Age(p)' = m + 1 - k /\ EventAt(p) = window'[k]
        <5>1. CASE k = n + 1
          BY <2>1, <2>2, <4>1, <5>1
        <5>2. CASE k # n + 1
          <6>1. k \in 1..n
            BY <2>2, <4>1, <5>2
          <6>2. PICK p \in Walked : Age(p) = n + 1 - k /\ EventAt(p) = window[k]
            BY <3>2, <6>1
          <6>3. Age(p)' = m + 1 - k
            <7>1. Age(p)' = (n + 1 - k) + 1 /\ k \in Int /\ n \in Int
              BY <2>1, <2>2, <6>1, <6>2
            <7> QED BY <4>1, <7>1
          <6> QED BY <2>1, <4>1, <6>1, <6>2, <6>3
        <5> QED BY <5>1, <5>2
      <4>3. ASSUME NEW p \in Walked', Age(p)' <= Capacity
            PROVE  Age(p)' <= m /\ EventAt(p) = window'[m + 1 - Age(p)']
        <5>1. CASE p = h
          <6>1. Age(p)' = 1 /\ m + 1 - 1 = n + 1
            BY <2>1, <2>2, <4>1, <5>1
          <6> QED BY <2>1, <2>2, <4>1, <5>1, <6>1
        <5>2. CASE p \in Walked
          <6>1. Age(p) \in Nat /\ Age(p) >= 1 /\ Age(p)' = Age(p) + 1
            BY <2>1, <5>2, AgeType
          <6>2. Age(p) <= n /\ EventAt(p) = window[n + 1 - Age(p)]
            BY <2>2, <3>2, <4>3, <5>2, <6>1
          <6>3. n + 1 - Age(p) \in 1..n /\ m + 1 - Age(p)' = n + 1 - Age(p) /\ Age(p)' <= m
            BY <2>2, <4>1, <6>1, <6>2
          <6> QED BY <4>1, <6>2, <6>3
        <5> QED BY <2>1, <5>1, <5>2
      <4> QED BY <4>2, <4>3
    <3>4. CASE n = Capacity
      <4>1. m = n /\ window'[n] = e /\ \A k \in 1..(n - 1) : window'[k] = window[k + 1]
        BY <2>4, <3>1, <3>4
      <4>2. ASSUME NEW k \in 1..m
            PROVE  \E p \in Walked' : Age(p)' = m + 1 - k /\ EventAt(p) = window'[k]
        <5>1. CASE k = n
          <6>1. m + 1 - k = 1
            BY <2>2, <4>1, <5>1
          <6> QED BY <2>1, <4>1, <5>1, <6>1
        <5>2. CASE k # n
          <6>1. k \in 1..(n - 1) /\ k + 1 \in 1..n
            BY <2>2, <4>1, <5>2
          <6>2. PICK p \in Walked : Age(p) = n + 1 - (k + 1) /\ EventAt(p) = window[k + 1]
            BY <3>2, <6>1
          <6>3. Age(p)' = m + 1 - k
            <7>1. Age(p)' = (n + 1 - (k + 1)) + 1 /\ k \in Int /\ n \in Int
              BY <2>1, <2>2, <6>1, <6>2
            <7> QED BY <4>1, <7>1
          <6> QED BY <2>1, <4>1, <6>1, <6>2, <6>3
        <5> QED BY <5>1, <5>2
      <4>3. ASSUME NEW p \in Walked', Age(p)' <= Capacity
            PROVE  Age(p)' <= m /\ EventAt(p) = window'[m + 1 - Age(p)']
        <5>1. CASE p = h
          <6>1. Age(p)' = 1 /\ m + 1 - 1 = n
            BY <2>1, <2>2, <4>1, <5>1
          <6> QED BY <2>1, <2>2, <3>4, <4>1, <5>1, <6>1
        <5>2. CASE p \in Walked
          <6>1. Age(p) \in Nat /\ Age(p) >= 1 /\ Age(p)' = Age(p) + 1
            BY <2>1, <5>2, AgeType
          <6>2. Age(p) <= n /\ EventAt(p) = window[n + 1 - Age(p)]
            BY <2>2, <3>2, <4>3, <5>2, <6>1
          <6>3. /\ n - Age(p) \in 1..(n - 1) /\ m + 1 - Age(p)' = n - Age(p)
                /\ (n - Age(p)) + 1 = n + 1 - Age(p) /\ Age(p)' <= m
            BY <2>2, <3>4, <4>1, <4>3, <6>1, <6>2
          <6> QED BY <4>1, <6>2, <6>3
        <5> QED BY <2>1, <5>1, <5>2
      <4> QED BY <4>2, <4>3
    <3> QED BY <2>2, <3>3, <3>4
  <2> QED BY <1>1, <2>5, <2>6 DEF WalkWindow, m
<1>3. CASE ~WalkRecord
  <2>1. window' = window
    <3>1. SegmentClosed => window' = window
      BY ClosedFacts
    <3>2. CheckIndex \/ UNCHANGED chainVars => window' = window
      BY DEF CheckIndex, chainVars
    <3> QED BY <1>3, <3>1, <3>2 DEF ChainNext, Done, SegmentClosed
  <2>2. Walked' = Walked /\ (\A p : Age(p)' = Age(p)) /\ (NoRepeat' <=> NoRepeat)
    BY <1>3, WalkedStays, NoRepeatStep
  <2> QED BY <1>1, <2>1, <2>2 DEF WalkWindow
<1> QED BY <1>2, <1>3

LEMMA WalkVerdictStep ==
    ASSUME ChainTypeOK, WalkPlace, WalkLinks, WalkWindow, WalkVerdict, [ChainNext]_chainVars
    PROVE  WalkVerdict'
<1>1. stream' = stream /\ Segs' = Segs /\ stream \in Directory
  BY StreamStep, StreamStays DEF ChainTypeOK
<1>2. CASE WalkRecord
  <2> DEFINE r == Recs[ri + 1]
             new == Noticed(r)
  <2>1. Report(new) /\ errs' = errs /\ new \in Seq(Findings)
    BY <1>2, RecordRead, NoticedFacts DEF WalkRecord
  <2>2. new = <<>> <=> ~InWindow(EventId[r]) /\ ~LinkBroken(r)
    BY NoticedFacts
  <2>3. NoRepeat' <=> NoRepeat /\ ~RepeatAt(Here)
    BY <1>2, NoRepeatStep
  <2>4. NoRepeat => (InWindow(EventId[r]) <=> RepeatAt(Here))
    BY <1>2, WindowTells
  <2>5. Unbroken(stream) => ~LinkBroken(r)
    <3>1. si \in 1..Len(stream.segs) /\ ri + 1 \in 1..Len(stream.segs[si].recs)
      BY <1>2, RecordRead DEF Recs
    <3>2. Unbroken(stream) => Linked(stream, si, ri + 1)
      BY <3>1 DEF Unbroken
    <3> QED BY <1>2, <3>2, LinkBrokenExact
  <2> HIDE DEF r, new
  <2>6. /\ segErrs' = <<>> /\ hidden' = 0 => segErrs = <<>> /\ new = <<>> /\ hidden = 0
        /\ new = <<>> => segErrs' = segErrs /\ hidden' = hidden
    BY <2>1, ReportFacts
  <2>7. SoFarClean' => NoRepeat'
    BY <2>1, <2>2, <2>3, <2>4, <2>6 DEF SoFarClean, WalkVerdict
  <2>8. Unbroken(stream) /\ IndexOK /\ NoRepeat' => SoFarClean'
    BY <2>1, <2>2, <2>3, <2>4, <2>5, <2>6 DEF SoFarClean, WalkVerdict
  <2> QED BY <1>1, <2>7, <2>8 DEF WalkVerdict, IndexOK
<1>3. CASE SegmentClosed
  <2>1. segErrs' = <<>> /\ hidden' = 0 /\ si \in 1..Len(Segs) /\ si \in Nat /\ ri = Len(Recs)
        /\ Len(Recs) \in Nat /\ Len(Segs) \in Nat
    BY <1>3, ClosedFacts
  <2>2. ~WalkRecord
    BY <2>1 DEF WalkRecord
  <2>3. NoRepeat' <=> NoRepeat
    BY <2>2, NoRepeatStep
  <2>4. errs \in Seq(Findings) /\ segErrs \in Seq(Findings) /\ errs' \in Seq(Findings) /\ hidden \in Nat
    BY TypeStep DEF ChainTypeOK
  <2>5. /\ errs = <<>> <=> \A x : ~Holds(errs, x)
        /\ segErrs = <<>> <=> \A x : ~Holds(segErrs, x)
        /\ errs' = <<>> <=> \A x : ~Holds(errs', x)
    BY <2>4, HoldsNothing
  <2>6. SoFarClean' => SoFarClean
    <3>1. SUFFICES ASSUME errs' = <<>> PROVE SoFarClean
      BY DEF SoFarClean
    <3>2. SegmentWalked
      BY <1>3, <2>5, <3>1, ErrsOfClosed DEF SegmentClosed
    <3>3. errs = <<>> /\ segErrs = <<>> /\ ~(hidden > 0)
      BY <1>3, <2>5, <3>1, <3>2, ErrsOfClosed
    <3> QED BY <2>4, <3>3 DEF SoFarClean
  <2>7. ASSUME Unbroken(stream), SoFarClean PROVE SoFarClean'
    <3>1. Segs[si].readable /\ Segs[si].recs # <<>> /\ \A i \in 1..Len(Segs[si].recs) : Linked(stream, si, i)
      BY <2>1, <2>7 DEF Unbroken, Segs
    <3>2. Recs = Segs[si].recs /\ Len(Recs) # 0
      BY <1>1, <2>1, <3>1, Shape DEF Recs, Segs
    <3>3. SegmentWalked
      BY <1>3, <2>1, <3>1, <3>2 DEF SegmentClosed, SegmentRaises, SegmentEmpty, Segs
    <3>4. Linked(stream, si, 1)
      BY <2>1, <3>1, <3>2
    <3>5. si > 1 => KnownBefore(si)
      <4>1. ASSUME si > 1 PROVE KnownBefore(si)
        <5>1. si - 1 \in 1..Len(stream.segs)
          BY <2>1, <4>1 DEF Segs
        <5> QED BY <2>7, <5>1 DEF Unbroken, KnownBefore, Segs
      <4> QED BY <4>1
    <3>6. \A x : ~Holds(BoundaryFindings, x)
      BY <3>3, <3>4, <3>5, BoundaryExact
    <3>7. \A x : ~Holds(errs', x)
      <4>1. \A x : ~Holds(errs, x) /\ ~Holds(segErrs, x)
        BY <2>5, <2>7 DEF SoFarClean
      <4>2. ~(hidden > 0)
        BY <2>7 DEF SoFarClean
      <4> QED BY <1>3, <3>3, <3>6, <4>1, <4>2, ErrsOfClosed
    <3> QED BY <2>1, <2>5, <3>7 DEF SoFarClean
  <2> QED BY <1>1, <2>3, <2>6, <2>7 DEF WalkVerdict, IndexOK
<1>4. CASE CheckIndex
  <2>1. /\ UNCHANGED <<segErrs, hidden>>
        /\ errs' = errs \o (IF stream.index = "differs" THEN <<Finding(0, 0, "index")>> ELSE <<>>)
    BY <1>4 DEF CheckIndex
  <2>2. errs \in Seq(Findings) /\ Finding(0, 0, "index") \in Findings
    BY FindingType DEF ChainTypeOK, Kinds
  <2>3. /\ errs' = <<>> => errs = <<>>
        /\ IndexOK => errs' = errs
    BY <2>1, <2>2 DEF IndexOK
  <2>4. ~WalkRecord
    BY <1>4 DEF WalkRecord, CheckIndex
  <2>5. NoRepeat' <=> NoRepeat
    BY <2>4, NoRepeatStep
  <2> QED BY <1>1, <2>1, <2>3, <2>5 DEF WalkVerdict, SoFarClean, IndexOK
<1>5. CASE UNCHANGED chainVars
  <2>1. UNCHANGED <<stream, errs, segErrs, hidden, ri>> /\ ri \in Nat
    BY <1>5 DEF chainVars, ChainTypeOK
  <2>2. ~WalkRecord
    BY <2>1 DEF WalkRecord
  <2>3. NoRepeat' <=> NoRepeat
    BY <2>2, NoRepeatStep
  <2> QED BY <2>1, <2>3 DEF WalkVerdict, SoFarClean, IndexOK
<1> QED BY <1>2, <1>3, <1>4, <1>5 DEF ChainNext, Done, SegmentClosed

-----------------------------------------------------------------------------
(* The theorems. *)

LEMMA ChainInvariant == ChainSpec => []ChainInv
<1>1. ChainInit => ChainInv
  BY TypeInit, WalkPlaceInit, WalkLinksInit, WalkJustifiedInit, WalkNamedInit, WalkCountsInit,
     WalkWindowInit DEF ChainInv
<1>2. ChainInv /\ [ChainNext]_chainVars => ChainInv'
  <2> SUFFICES ASSUME ChainInv, [ChainNext]_chainVars PROVE ChainInv'
    OBVIOUS
  <2>1. ChainTypeOK /\ WalkPlace /\ WalkLinks /\ WalkJustified /\ WalkNamed /\ WalkCounts
          /\ WalkWindow /\ WalkVerdict
    BY DEF ChainInv
  <2>2. ChainTypeOK' /\ WalkPlace' /\ WalkLinks' /\ WalkJustified' /\ WalkNamed' /\ WalkCounts'
    BY <2>1, TypeStep, WalkPlaceStep, WalkLinksStep, WalkJustifiedStep, WalkNamedStep, WalkCountsStep
  <2>3. WalkWindow' /\ WalkVerdict'
    BY <2>1, WalkWindowStep, WalkVerdictStep
  <2> QED BY <2>2, <2>3 DEF ChainInv
<1> QED BY <1>1, <1>2, PTL DEF ChainSpec

\* When the walk is over, every place was walked and nothing is carried any more.
LEMMA AtTheEnd ==
    ASSUME ChainInv, Finished
    PROVE  /\ si = Len(Segs) + 1 /\ ri = 0 /\ Len(Segs) \in Nat
           /\ Walked = Places(stream) /\ segErrs = <<>> /\ hidden = 0
           /\ 1..(si - 1) = 1..Len(Segs) /\ \A p \in Places(stream) : p[1] < si
<1>1. stream \in Directory /\ si = Len(Segs) + 1 /\ Len(Segs) \in Nat
  BY Shape DEF ChainInv, ChainTypeOK, WalkPlace, Finished, Segs
<1>2. ~SegmentSeen
  BY <1>1 DEF SegmentSeen, Segs
<1>3. ri = 0
  BY <1>2 DEF ChainInv, WalkPlace
<1>4. \A p \in Places(stream) : p[1] < si /\ Before(p, Here)
  BY <1>1, PlaceFacts DEF Before, Here, Segs
<1>5. Walked = Places(stream)
  BY <1>4 DEF Walked
<1>6. 1..(si - 1) = 1..Len(Segs)
  BY <1>1
<1> QED BY <1>1, <1>3, <1>4, <1>5, <1>6 DEF ChainInv, WalkLinks

LEMMA CleanStream ==
    ASSUME ChainInv, Clean
    PROVE  Unbroken(stream) /\ NoRepeat
<1>1. Finished /\ errs = <<>> /\ stream \in Directory
  BY DEF Clean, ChainInv, ChainTypeOK
<1>2. /\ Segs # <<>> /\ \A s \in 1..Len(Segs) : Segs[s].readable /\ Segs[s].recs # <<>>
  BY <1>1, AtTheEnd DEF ChainInv, WalkNamed
<1>3. NoRepeat
  BY <1>1, AtTheEnd DEF ChainInv, WalkVerdict, SoFarClean
<1>4. ASSUME NEW s \in 1..Len(Segs), NEW i \in 1..Len(Segs[s].recs)
      PROVE  Linked(stream, s, i)
  <2> DEFINE p == <<s, i>>
  <2>1. p \in Places(stream) /\ p[1] = s /\ p[2] = i /\ s \in Nat /\ Len(Segs) \in Nat
    BY <1>1, PlaceType, AtTheEnd DEF Segs
  <2>2. ~Named(s, i)
    <3>1. \A x : ~Holds(errs, x)
      BY <1>1, HoldsOne
    <3> QED BY <3>1, NamedHolds
  <2>3. s > 1 => KnownBefore(s)
    <3>1. s > 1 => s - 1 \in 1..Len(Segs)
      BY <2>1
    <3> QED BY <1>2, <3>1 DEF KnownBefore
  <2>4. ~Visible(s, i)
    BY <1>1, <2>1, <2>2, AtTheEnd DEF ChainInv, WalkNamed
  <2> QED BY <1>2, <2>3, <2>4 DEF Visible
<1> QED BY <1>2, <1>3, <1>4 DEF Unbroken, Segs

\* What SCHEMAS.md promises of a directory that the verifier calls clean, and of one
\* that it need not fault, for every stream, every cut and every size of the window
\* and of the cap: a clean verdict means one unbroken chain, in which the last record
\* fixes all others and no id repeats within the window; and an unbroken stream gets it.
THEOREM CleanIsUnbroken == ChainSpec => []ChainVerdict
<1>1. ASSUME ChainInv PROVE ChainVerdict
  <2>1. CleanMeansUnbroken
    BY <1>1, CleanStream DEF CleanMeansUnbroken, Clean, Finished
  <2>2. RepeatsFound
    <3>1. ASSUME Clean PROVE \A q \in Places(stream) : ~RepeatAt(q)
      <4>1. NoRepeat /\ Walked = Places(stream)
        BY <1>1, <3>1, CleanStream, AtTheEnd DEF Clean
      <4> QED BY <4>1 DEF NoRepeat
    <3> QED BY <3>1 DEF RepeatsFound
  <2>3. NoFalseAlarm
    <3>1. ASSUME Finished, Unbroken(stream), IndexOK, ~(\E q \in Places(stream) : RepeatAt(q))
          PROVE  errs = <<>>
      <4>1. NoRepeat
        BY <1>1, <3>1, AtTheEnd DEF NoRepeat
      <4> QED BY <1>1, <3>1, <4>1 DEF ChainInv, WalkVerdict, SoFarClean
    <3> QED BY <3>1 DEF NoFalseAlarm
  <2>4. TamperEvident
    <3>1. ASSUME Clean, NEW d \in UnbrokenStreams,
                 RecordAt(d, FinalPlace(d)) = RecordAt(stream, FinalPlace(stream))
          PROVE  SameRecords(d, stream)
      <4>1. d \in Directory /\ Unbroken(d)
        BY StreamAssumption DEF UnbrokenStreams
      <4>2. stream \in Directory /\ Unbroken(stream)
        BY <1>1, <3>1, CleanStream DEF ChainInv, ChainTypeOK
      <4> QED BY <3>1, <4>1, <4>2, FinalRecordFixesAll
    <3> QED BY <3>1 DEF TamperEvident
  <2> QED BY <2>1, <2>2, <2>3, <2>4 DEF ChainVerdict
<1> QED BY <1>1, ChainInvariant, PTL

\* What the report says is so, whatever the verdict: no finding accuses a record that
\* is in order, no visible break is left out, and a manifest attests exactly the
\* segments that were read to their end.
THEOREM ReportIsExact == ChainSpec => []ChainReport
<1>1. ASSUME ChainInv PROVE ChainReport
  <2>1. ChainTypeOK
    BY <1>1 DEF ChainInv
  <2>2. FindingsReal
    BY <1>1 DEF ChainInv, WalkJustified, FindingsReal
  <2>3. BreaksNamed
    <3>1. ASSUME Finished, NEW p \in Places(stream), Visible(p[1], p[2])
          PROVE  Named(p[1], p[2])
      BY <1>1, <3>1, AtTheEnd DEF ChainInv, WalkNamed
    <3> QED BY <3>1 DEF BreaksNamed
  <2>4. CountsExact
    <3>1. ASSUME Finished
          PROVE  1..(si - 1) = 1..Len(Segs) /\ WalkCounts
      BY <1>1, <3>1, AtTheEnd DEF ChainInv
    <3> QED BY <3>1, Zenon DEF CountsExact, WalkCounts
  <2> QED BY <2>1, <2>2, <2>3, <2>4 DEF ChainReport
<1> QED BY <1>1, ChainInvariant, PTL
=============================================================================
