------------------------------ MODULE MCChatd -------------------------------
(* A small instance of Chatd for TLC. *)
EXTENDS Chatd, TLC

CONSTANTS u1, u2, g1

BothInG1 == [g \in {g1} |-> <<u1, u2>>]

ChatdSymmetry == Permutations(Workers) \cup Permutations(Msgs)
=============================================================================
