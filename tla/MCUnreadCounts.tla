-------------------------- MODULE MCUnreadCounts --------------------------
\* TLC instance of UnreadCounts: symmetric rooms, and three situations.
EXTENDS UnreadCounts, TLC

RoomSymmetry == Permutations(Rooms)

\* One room with a past: history, live messages, a reconnect in between.
Past == {[rooms |-> {c}, log |-> 3, time |-> 3, batches |-> 1, wire |-> 1] : c \in Rooms}

\* Two batches of one room, the first of which may be cut off.
CutOff == {[rooms |-> {c}, log |-> 2, time |-> 2, batches |-> 2, wire |-> 2] : c \in Rooms}

\* Two rooms, one of which may be open while the other gets a message.
Aside == {[rooms |-> Rooms, log |-> 1, time |-> 2, batches |-> 1, wire |-> 1]}

Situations == Past \cup CutOff \cup Aside
===========================================================================
