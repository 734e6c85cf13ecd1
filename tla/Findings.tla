------------------------------- MODULE Findings -----------------------------
(***************************************************************************)
(* The checkers return what they report.  A checker is a record with one   *)
(* condition per thing it may report, true where it reports it.            *)
(***************************************************************************)
EXTENDS Integers, Sequences

CONSTANT Ill    \* what stands for a value of the wrong type, or for none

Broken(rules) == {rule \in DOMAIN rules : rules[rule]}

\* sum() over the first n of some numbers, for each n.
Sums(numbers) ==
    LET sum[n \in 0..Len(numbers)] == IF n = 0 THEN 0 ELSE sum[n - 1] + numbers[n] IN sum
=============================================================================
