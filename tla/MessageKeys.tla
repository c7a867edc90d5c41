----------------------------- MODULE MessageKeys -----------------------------
(***************************************************************************)
(* The store of skipped message keys that session chains and sender-key    *)
(* chains share: a key that a later message jumped over is kept, by index, *)
(* until its message arrives; the list is cut at MAX_MESSAGE_KEYS from its *)
(* oldest end.  Indices are added in increasing order, so the oldest key   *)
(* is the smallest index and the list is determined by the set.            *)
(***************************************************************************)
EXTENDS Naturals, FiniteSets

(* The n newest indices of S.                                              *)
NewestOneMore(S, n) == {i \in S : Cardinality({j \in S : j > i}) <= n}
Newest(S, n) == {i \in S : Cardinality({j \in S : j > i}) < n}
=============================================================================
