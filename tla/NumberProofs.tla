---------------------------- MODULE NumberProofs ----------------------------
(***************************************************************************)
(* What the proofs need of numbers: a set of naturals has a least member,  *)
(* a bounded one a largest, and numbers that are listed have a sum.        *)
(***************************************************************************)
EXTENDS Integers, Sequences, WellFoundedInduction, TLAPS

\* A set of naturals has a least member, and a largest one if it is bounded.
LEMMA LeastOf ==
    ASSUME NEW F \in SUBSET Nat, F # {}
    PROVE  \E m \in F : \A n \in F : m <= n
<1> DEFINE Less == {ss \in Nat \X Nat : ss[1] < ss[2]}
<1>1. OpToRel(<, Nat) = Less
  BY Zenon DEF OpToRel
<1>2. IsWellFoundedOn(Less, Nat)
  BY <1>1, NatLessThanWellFounded, Zenon
<1>3. PICK m \in F : \A n \in F : ~ (<<n, m>> \in Less)
  <2> HIDE DEF Less
  <2> QED BY <1>2, WFMin, Zenon
<1>4. ASSUME NEW n \in F PROVE m <= n
  <2>1. m \in Nat /\ n \in Nat /\ ~ (<<n, m>> \in Less)
    <3> HIDE DEF Less
    <3> QED BY <1>3
  <2>2. n < m => <<n, m>> \in Less
    BY <2>1
  <2> QED BY <2>1, <2>2
<1> QED BY <1>4

LEMMA LargestOf ==
    ASSUME NEW N \in Nat, NEW F \in SUBSET (0..N), F # {}
    PROVE  \E m \in F : \A n \in F : n <= m
<1> DEFINE G == {N - f : f \in F}
<1>1. G \in SUBSET Nat /\ G # {}
  <2>1. \A f \in F : N - f \in Nat
    <3> TAKE f \in F
    <3>1. f \in Int /\ 0 <= f /\ f <= N
      OBVIOUS
    <3> QED BY <3>1
  <2>2. PICK f \in F : TRUE
    OBVIOUS
  <2>3. N - f \in G
    BY Zenon
  <2> QED BY <2>1, <2>3
<1>2. PICK g \in G : \A h \in G : g <= h
  <2> HIDE DEF G
  <2> QED BY <1>1, LeastOf
<1>3. PICK m \in F : g = N - m
  OBVIOUS
<1>4. ASSUME NEW n \in F PROVE n <= m
  <2>1. N - m <= N - n
    BY <1>2, <1>3
  <2>2. N \in Int /\ m \in Int /\ n \in Int
    OBVIOUS
  <2> QED BY <2>1, <2>2
<1> QED BY <1>4

\* The sums of the first n numbers, for an n that has them.
Partial(numbers, n, sum) ==
    /\ sum \in [0..n -> Int]
    /\ sum[0] = 0
    /\ \A k \in 1..n : sum[k] = sum[k - 1] + numbers[k]

\* There is one for every n: the least without one would have a predecessor that has.
LEMMA PartialSums ==
    ASSUME NEW numbers \in Seq(Int), NEW n \in 0..Len(numbers)
    PROVE  \E sum : Partial(numbers, n, sum)
<1> DEFINE Without == {k \in 0..Len(numbers) : ~\E sum : Partial(numbers, k, sum)}
<1>1. SUFFICES ASSUME Without # {} PROVE FALSE
  OBVIOUS
<1>2. PICK k \in Without : \A j \in Without : k <= j
  <2>1. Without \in SUBSET Nat
    OBVIOUS
  <2> HIDE DEF Without
  <2> QED BY <1>1, <2>1, LeastOf
<1>3. CASE k = 0
  <2>1. Partial(numbers, 0, [i \in 0..0 |-> 0])
    BY DEF Partial
  <2> QED BY <1>2, <1>3, <2>1
<1>4. CASE k # 0
  <2>1. k - 1 \in 0..Len(numbers) /\ k - 1 \notin Without
    BY <1>2, <1>4
  <2>2. PICK sum : Partial(numbers, k - 1, sum)
    BY <2>1
  <2> DEFINE more == [i \in 0..k |-> IF i = k THEN sum[k - 1] + numbers[k] ELSE sum[i]]
  <2>3. numbers[k] \in Int /\ sum[k - 1] \in Int
    BY <1>4, <2>1, <2>2 DEF Partial
  <2>4. more \in [0..k -> Int] /\ more[0] = 0
    BY <1>4, <2>2, <2>3 DEF Partial
  <2>5. ASSUME NEW i \in 1..k PROVE more[i] = more[i - 1] + numbers[i]
    BY <1>4, <2>2, <2>3 DEF Partial
  <2>6. Partial(numbers, k, more)
    <3> HIDE DEF more
    <3> QED BY <2>4, <2>5 DEF Partial
  <2> QED BY <1>2, <2>6
<1> QED BY <1>3, <1>4

\* What adds up from each place to the next is made of those sums.
AddsUp(numbers, all) ==
    all = [n \in 0..Len(numbers) |-> IF n = 0 THEN 0 ELSE all[n - 1] + numbers[n]]

LEMMA AddedUp ==
    ASSUME NEW numbers \in Seq(Int), NEW all, AddsUp(numbers, all)
    PROVE  Partial(numbers, Len(numbers), all)
<1>1. all = [n \in 0..Len(numbers) |-> IF n = 0 THEN 0 ELSE all[n - 1] + numbers[n]]
  BY DEF AddsUp
<1>2. DOMAIN all = 0..Len(numbers) /\ all[0] = 0
  BY <1>1
<1>3. ASSUME NEW n \in 1..Len(numbers) PROVE all[n] = all[n - 1] + numbers[n]
  <2>1. n \in 0..Len(numbers) /\ n # 0
    OBVIOUS
  <2>2. all[n] = IF n = 0 THEN 0 ELSE all[n - 1] + numbers[n]
    BY <1>1, <2>1, Zenon
  <2> QED BY <2>1, <2>2
<1>4. \A n \in 0..Len(numbers) : all[n] \in Int
  <2> DEFINE Odd == {n \in 0..Len(numbers) : all[n] \notin Int}
  <2>1. SUFFICES ASSUME Odd # {} PROVE FALSE
    OBVIOUS
  <2>2. PICK n \in Odd : \A j \in Odd : n <= j
    <3>1. Odd \in SUBSET Nat
      OBVIOUS
    <3> HIDE DEF Odd
    <3> QED BY <2>1, <3>1, LeastOf
  <2>3. n # 0
    BY <1>2
  <2>4. all[n - 1] \in Int /\ numbers[n] \in Int
    BY <2>2, <2>3
  <2> QED BY <1>3, <2>3, <2>4
<1>5. all \in [0..Len(numbers) -> Int]
  BY <1>1, <1>2, <1>4
<1> QED BY <1>2, <1>3, <1>5 DEF Partial
=============================================================================
