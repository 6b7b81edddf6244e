------------------------------ MODULE Ordering ------------------------------
(***************************************************************************)
(* Lists in the order the code puts them in: sorted, filtered, and without *)
(* repetitions.                                                            *)
(***************************************************************************)
EXTENDS Naturals, Sequences, FiniteSets

\* The elements of a finite set from first to last under the strict order R, a set of pairs.
InOrder(S, R) ==
    [n \in 1..Cardinality(S) |-> CHOOSE x \in S : Cardinality({y \in S : <<y, x>> \in R}) = n - 1]

\* The elements at the indices of S, in order.
Picked(s, S) ==
    LET order == InOrder(S, {p \in S \X S : p[1] < p[2]}) IN [n \in 1..Cardinality(S) |-> s[order[n]]]

\* The first element of every key, in order; key[i] is the key of s[i].
FirstOf(s, key) == Picked(s, {i \in DOMAIN s : \A j \in 1..(i - 1) : key[j] # key[i]})
=============================================================================
