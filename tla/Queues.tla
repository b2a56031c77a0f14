------------------------------- MODULE Queues -------------------------------
EXTENDS Naturals, Sequences, FiniteSets

(***************************************************************************)
(* remove_if + erase on a queue or a list: the members of q at the         *)
(* positions in S, in their order.  Nth(S, k) is the k-th smallest of the numbers S;    *)
(* it is some member of S even where no number has rank k, which makes it  *)
(* total on every non-empty S.                                             *)
(***************************************************************************)
Rank(S, i) == Cardinality({j \in S : j <= i})

Nth(S, k) ==
    CHOOSE i \in S : (\E j \in S : Rank(S, j) = k) => Rank(S, i) = k

KeepAt(q, S) == [k \in 1..Cardinality(S) |-> q[Nth(S, k)]]
=============================================================================
