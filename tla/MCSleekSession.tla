--------------------------- MODULE MCSleekSession ---------------------------
(* SleekSession with the bounds of its configurations.  The desktop        *)
(* configurations sign in through a loopback server, the mobile one        *)
(* through a deep link.                                                     *)
EXTENDS SleekSession
=============================================================================
