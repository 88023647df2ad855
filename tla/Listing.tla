------------------------------ MODULE Listing ------------------------------
(***************************************************************************)
(* The sequence a sort returns, for the places where the code iterates or  *)
(* sorts in a definite order.  SequencesExt has SetToSortSeq for it, which *)
(* starts from an arbitrary sequence of the set; here the n-th element is  *)
(* the one with n - 1 elements before it, which is what the proofs reason  *)
(* about.                                                                  *)
(***************************************************************************)
EXTENDS Integers, FiniteSets

\* The elements of the finite set S; before[x] are those that come before x.
Listed(S, before) ==
  [n \in 1 .. Cardinality(S) |-> CHOOSE x \in S : Cardinality(before[x]) = n - 1]

\* The numbers of K from the smallest up.
Ascending(K) == Listed(K, [k \in K |-> {j \in K : j < k}])

\* The elements of a sequence at the positions of K, in order.
Selection(s, K) == [k \in DOMAIN Ascending(K) |-> s[Ascending(K)[k]]]

\* The positions of a sequence of keys as a stable sort arranges them.
StableOrder(key) ==
  Listed(DOMAIN key,
         [k \in DOMAIN key |->
            {j \in DOMAIN key : key[j] < key[k] \/ (key[j] = key[k] /\ j < k)}])
=============================================================================
