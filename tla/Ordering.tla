-------------------------------- MODULE Ordering --------------------------------
(***************************************************************************)
(* Arranging things in the order of a relation: what the sorts and filters *)
(* of the page do.                                                         *)
(***************************************************************************)
EXTENDS Naturals, FiniteSets

\* The order of numbers.
Ascending(S) == {p \in S \X S : p[1] < p[2]}

\* The element of S with n - 1 others before it.
Nth(S, before, n) == CHOOSE x \in S : Cardinality({y \in S : <<y, x>> \in before}) = n - 1

\* The elements of S in a sequence.
Arranged(S, before) == [n \in 1..Cardinality(S) |-> Nth(S, before, n)]

\* The entries of s at the places `at`, in the order they have in s.
Kept(s, at) == [n \in 1..Cardinality(at) |-> s[Nth(at, Ascending(at), n)]]

\* The entries of s in the order of the pairs of places in `before`.
Sorted(s, before) == [n \in DOMAIN s |-> s[Nth(DOMAIN s, before, n)]]
================================================================================
