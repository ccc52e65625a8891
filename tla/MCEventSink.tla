----------------------------- MODULE MCEventSink -----------------------------
(***************************************************************************)
(* Small instances of EventSink for TLC.                                   *)
(***************************************************************************)
EXTENDS EventSink

CONSTANTS c1, c2, nobody

TwoCallers == {c1, c2}
OneCaller  == {c1}
=============================================================================
