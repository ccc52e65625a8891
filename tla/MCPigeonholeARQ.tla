--------------------------- MODULE MCPigeonholeARQ ---------------------------
(* Small instances of PigeonholeARQ for TLC. *)
EXTENDS PigeonholeARQ, TLC

CONSTANTS a1, m1, m2, h1, h2

(* Which operation is which, chosen per run in the .cfg. *)
OneOwner  == [m \in Msgs |-> a1]
TwoHashes == [m \in Msgs |-> IF m = m1 THEN h1 ELSE h2]
SameHash  == [m \in Msgs |-> h1]
ReadCopy  == [m \in Msgs |-> IF m = m1 THEN "read" ELSE "copy"]
AllReads  == [m \in Msgs |-> "read"]
AllWrites == [m \in Msgs |-> "write"]
AllCopies == [m \in Msgs |-> "copy"]

SurbSymmetry == Permutations(Surbs)
=============================================================================
