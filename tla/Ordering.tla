-------------------------------- MODULE Ordering --------------------------------
(***************************************************************************)
(* A finite set under a strict linear order, as the sequence of its        *)
(* elements from the least to the greatest.                                *)
(***************************************************************************)
EXTENDS Integers, FiniteSets

\* R is a strict linear order of S.
Linear(R, S) ==
    /\ R \subseteq S \X S
    /\ \A k \in S : <<k, k>> \notin R
    /\ \A j, k \in S : j # k => (<<j, k>> \in R <=> <<k, j>> \notin R)
    /\ \A i, j, k \in S : <<i, j>> \in R /\ <<j, k>> \in R => <<i, k>> \in R

InOrder(S, R) ==
    CHOOSE t \in [1 .. Cardinality(S) -> S] :
        \A i, j \in DOMAIN t : i < j => <<t[i], t[j]>> \in R

\* The order of the natural numbers, on a set of them.
Ascending(P) == {p \in P \X P : p[1] < p[2]}
=================================================================================
