---------------------------- MODULE MCThinSession ----------------------------
(***************************************************************************)
(* Small instances of ThinSession for TLC.                                 *)
(***************************************************************************)
EXTENDS ThinSession, TLC

CONSTANTS r1, r2, none, noDoc

OneReq   == {r1}
TwoReqs  == {r1, r2}
ReqSymmetry == Permutations(TwoReqs)

(* Two documents cached, three epochs: the third makes one too many.       *)
ThreeEpochs == {2, 3, 5}
TwoEpochs   == {2, 3}
=============================================================================
