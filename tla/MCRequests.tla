----------------------------- MODULE MCRequests -----------------------------
EXTENDS Requests, TLC

Idle == [media |-> 0, sends |-> 0, giveups |-> 0, drops |-> 0, profiles |-> 0,
         whois |-> 0, gates |-> 0, refreshes |-> 0, typing |-> 0]

\* Nothing the parts do touches another part: each has a situation of its own.
Situations == {
    [Idle EXCEPT !.media = 3, !.sends = 3, !.giveups = 2, !.drops = 2],
    [Idle EXCEPT !.profiles = 4, !.whois = 3],
    [Idle EXCEPT !.gates = 3, !.refreshes = 4],
    [Idle EXCEPT !.typing = 6]}
=============================================================================
