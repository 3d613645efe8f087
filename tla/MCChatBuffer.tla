---------------------------- MODULE MCChatBuffer ----------------------------
(* ChatBuffer with a few messages and nicks; one text is as good as another, *)
(* and so is one nick of the user's.                                         *)
EXTENDS ChatBuffer, TLC

NameSymmetry == Permutations(Texts) \cup Permutations(OwnNicks)
=============================================================================
