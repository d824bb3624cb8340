----------------------------- MODULE Subsequences -----------------------------
(***************************************************************************)
(* Some of the elements of a sequence, in their order: what a list         *)
(* comprehension with a condition, a query with ORDER BY and a LIMIT, or   *)
(* an upsert that moves a row to the end make of rows that are in order.   *)
(* It is a function of an index, so that proofs can say what it holds.     *)
(***************************************************************************)
EXTENDS Naturals, FiniteSets, Sequences

FirstOf(I) == CHOOSE i \in I : \A k \in I : i <= k

(* The place of i among the indexes I.                                     *)
Rank(I, i) == Cardinality({k \in I : k <= i})

Picked(s, I) == [j \in 1..Cardinality(I) |-> s[CHOOSE i \in I : Rank(I, i) = j]]

Dropping(s, x) == Picked(s, {i \in DOMAIN s : s[i] # x})
=============================================================================
