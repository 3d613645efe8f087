--------------------------- MODULE MCChannelJoins ---------------------------
(* ChannelJoins with two rooms, the default one and another.               *)
EXTENDS ChannelJoins
=============================================================================
