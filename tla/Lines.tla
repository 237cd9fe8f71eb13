-------------------------------- MODULE Lines --------------------------------
(* Sequences that are kept as lines: queues, and orders of last use.       *)
EXTENDS Integers, Sequences, FiniteSets

\* The elements of s that stand at the places K, in their order.
AtPlaces(s, K) ==
  LET place(n) == CHOOSE i \in K : Cardinality({j \in K : j <= i}) = n
  IN  [n \in 1 .. Cardinality(K) |-> s[place(n)]]

\* The elements of s that are in S, in their order: what `retain` and `filter`
\* leave of a line.  (SelectSeq, by the places that are kept.)
Keep(s, S) == AtPlaces(s, {i \in DOMAIN s : s[i] \in S})

\* a stands before b in s.
Before(s, a, b) == \E i, j \in DOMAIN s : i < j /\ s[i] = a /\ s[j] = b
=============================================================================
