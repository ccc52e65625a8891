---------------------------- MODULE MCPKIDocCache ----------------------------
(***************************************************************************)
(* A small instance of PKIDocCache for TLC: every order of documents.      *)
(***************************************************************************)
EXTENDS PKIDocCache

CONSTANTS noDoc

SevenEpochs == 2..8
=============================================================================
