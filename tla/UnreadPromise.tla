-------------------------- MODULE UnreadPromise ---------------------------
(***************************************************************************)
(* What the unread badges of Sleek promise, whatever the message store, the*)
(* watermark and the history batches do to keep it: every message of a room*)
(* is settled once, as one that counts or as one that is passed over (own, *)
(* old history, seen on arrival); one that counts goes on counting until   *)
(* the user opens the room, and then all of the room's stop together; a    *)
(* message that was settled never starts to count again.                   *)
(***************************************************************************)
CONSTANTS
    Rooms,     \* rooms and direct-message threads
    Messages,  \* what may ever be said in them
    NoRoom     \* no chat is open

VARIABLES
    counted,   \* per room: the messages its badge counts
    passed,    \* per room: the messages that are known and do not count
    open       \* the chat on the screen

vars == <<counted, passed, open>>

Init ==
    /\ counted = [c \in Rooms |-> {}]
    /\ passed = [c \in Rooms |-> {}]
    /\ open = NoRoom

New(c, m) == m \notin counted[c] \cup passed[c]

\* A message the user has yet to see arrives in a room that is not open.
Counts(c, m) ==
    /\ New(c, m)
    /\ open # c
    /\ counted' = [counted EXCEPT ![c] = @ \cup {m}]
    /\ UNCHANGED <<passed, open>>

\* A message arrives that the badge will never show.
Passes(c, m) ==
    /\ New(c, m)
    /\ passed' = [passed EXCEPT ![c] = @ \cup {m}]
    /\ UNCHANGED <<counted, open>>

\* The user opens the room: nothing of it counts any more.
Opens(c) ==
    /\ open' = c
    /\ passed' = [passed EXCEPT ![c] = @ \cup counted[c]]
    /\ counted' = [counted EXCEPT ![c] = {}]

Closes == open' = NoRoom /\ UNCHANGED <<counted, passed>>

Next ==
    \/ \E c \in Rooms, m \in Messages : Counts(c, m) \/ Passes(c, m)
    \/ \E c \in Rooms : Opens(c)
    \/ Closes

Spec == Init /\ [][Next]_vars

===========================================================================
