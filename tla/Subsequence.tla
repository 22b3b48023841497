---------------------------- MODULE Subsequence ----------------------------
(***************************************************************************)
(* VecDeque::retain and VecDeque::remove keep some of a queue's elements   *)
(* in their order.  Both are the subsequence at a set of positions, given  *)
(* here without recursion so that its properties can be proved (in module  *)
(* EventDeliveryProofs).                                                   *)
(***************************************************************************)
EXTENDS Integers, Sequences, FiniteSets

(* How many positions of I are at or before i.                             *)
Rank(I, i) == Cardinality({j \in I : j <= i})

(* The position of I with rank k.                                          *)
Position(I, k) == CHOOSE i \in I : Rank(I, i) = k

(* The elements of q at the positions in I, in order.                      *)
KeepAt(q, I) == [k \in 1..Cardinality(I) |-> q[Position(I, k)]]

(* VecDeque::remove: everything but position i.                            *)
DropAt(q, i) == KeepAt(q, DOMAIN q \ {i})
=============================================================================
