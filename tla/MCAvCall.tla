------------------------------ MODULE MCAvCall ------------------------------
(* AvCall in a few situations, each with what can happen in it.            *)
EXTENDS AvCall, TLC

RoomSymmetry == Permutations(Rooms)

Quiet == [calls |-> 1, toggles |-> 0, peers |-> 0, fails |-> 0, ends |-> 0,
          drops |-> 0, camera |-> "none", on |-> FALSE, mic |-> TRUE]

\* Two calls of the user and a peer in either room; a call of a peer that comes
\* and goes around the user's; a call that loses media and connection; a call
\* with toggles and each kind of device.
Situations ==
    {[Quiet EXCEPT !.calls = 2, !.peers = 1],
     [Quiet EXCEPT !.peers = 2],
     [Quiet EXCEPT !.ends = 1, !.fails = 1, !.drops = 1],
     [Quiet EXCEPT !.toggles = 2, !.ends = 1, !.camera = "works", !.on = TRUE],
     [Quiet EXCEPT !.toggles = 1, !.ends = 1, !.mic = FALSE]}
=============================================================================
