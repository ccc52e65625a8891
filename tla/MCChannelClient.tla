--------------------------- MODULE MCChannelClient ---------------------------
(* A small instance of ChannelClient for TLC. *)
EXTENDS ChannelClient
=============================================================================
