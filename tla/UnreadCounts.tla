--------------------------- MODULE UnreadCounts ---------------------------
(***************************************************************************)
(* The unread counts of Sleek: the SQLite index of message_store.rs (rows  *)
(* and a last-read watermark per room), the badge each buffer caches, and  *)
(* the handlers of app.rs and state.rs that feed them from live messages   *)
(* and from CHATHISTORY batches.                                           *)
(*                                                                         *)
(*   on disk     stored, mark                 message_store.rs             *)
(*   in memory   shown, filled, badge,        AppState, Buffer             *)
(*               batches, open                                             *)
(*   session     member, wire, asked      net thread, SDK and server   *)
(*                                                                         *)
(* A message is its number in the server's log. Buffer.unread is the number*)
(* of rows it counts; here it is the set of them. One account uses the     *)
(* index; message texts and edits are the subject of ChatBuffer.           *)
(***************************************************************************)
EXTENDS Integers, Sequences, FiniteSets

CONSTANTS
    Rooms,       \* rooms and direct-message threads
    NoRoom,      \* no chat is open
    HistLimit,   \* messages a history batch replays (100 in the code)
    MaxLog,      \* bound: messages ever said
    Budgets      \* bounds of a run, one of which Init chooses: the rooms in
                 \* use, messages said, seconds of the clock, history batches,
                 \* and lines that wait before the server pauses

ASSUME RoomsAssumption == NoRoom \notin Rooms
ASSUME LimitsAssumption == HistLimit \in Nat /\ MaxLog \in Nat
ASSUME BudgetsAssumption ==
    Budgets \subseteq [rooms : SUBSET Rooms, log : 0..MaxLog, time : Nat,
                      batches : Nat, wire : Nat]

VARIABLES
    log,       \* what was said: room, second, by the user or not
    now,       \* the clock, in seconds
    stored,    \* messages table: rows per room
    mark,      \* read_state table: last_read_ts per room, or NoMark
    shown,     \* rooms with a buffer
    filled,    \* ... that holds chat lines
    badge,     \* Buffer.unread, as the set of rows it counts
    batches,   \* AppState.history_batches: open batches and their room
    open,      \* AppState.active_channel
    member,    \* rooms the server has this session in
    wire,      \* lines of the session the UI has yet to handle
    asked,     \* rooms whose history was asked for and is not sent yet
    nextBatch, \* the server's next batch id
    budget,    \* the bounds of this behaviour
    looked     \* history: when the user last opened each room

diskVars == <<stored, mark>>
bufVars  == <<shown, filled, badge>>
netVars  == <<member, wire, asked, nextBatch>>
vars     == <<log, now, diskVars, bufVars, batches, open, netVars, budget, looked>>

NoMark == -1

Said    == [room : Rooms, at : Nat \ {0}, mine : BOOLEAN]
Batch   == [id : Nat, room : Rooms]
Line(e, c, n) == [ev |-> e, room |-> c, n |-> n]
Lines   == [ev : {"Joined", "Parted", "Message", "Start", "End"},
            room : Rooms, n : Nat]

StoreOK ==
    /\ log \in Seq(Said) /\ Len(log) <= MaxLog /\ now \in Nat \ {0}
    /\ stored \in [Rooms -> SUBSET (1..Len(log))]
    /\ mark \in [Rooms -> Nat \cup {NoMark}]
    /\ looked \in [Rooms -> Nat \cup {NoMark}]
    /\ open \in Rooms \cup {NoRoom}

BuffersOK ==
    /\ shown \subseteq Rooms /\ filled \subseteq shown
    /\ badge \in [Rooms -> SUBSET (1..Len(log))]

SessionOK ==
    /\ batches \subseteq Batch /\ budget \in Budgets
    /\ member \subseteq Rooms /\ asked \subseteq Rooms /\ nextBatch \in Nat
    /\ wire \in Seq(Lines)
    /\ \A i \in 1..Len(wire) : wire[i].ev = "Message" =>
           wire[i].n \in 1..Len(log) /\ log[wire[i].n].room = wire[i].room

TypeOK == StoreOK /\ BuffersOK /\ SessionOK

---------------------------------------------------------------------------
(* message_store.rs                                                        *)

\* COALESCE(MAX(ts), 0) over some rows.
Latest(rows) ==
    CHOOSE t \in {0} \cup {log[m].at : m \in rows} : \A m \in rows : log[m].at <= t

Later(s, t) == IF s < t THEN t ELSE s

\* unread_count: other people's rows strictly after the watermark.
UnreadOf(rows, read) ==
    IF read = NoMark THEN {}
    ELSE {m \in rows : ~log[m].mine /\ log[m].at > read}

Unread(c) == UnreadOf(stored[c], mark[c])

\* mark_read: at least to at, at least to the latest row, and never back.
MarkRead(read, rows, at) == Later(read, Later(at, Latest(rows)))

\* Slip: history that comes after a reconnect clobbers the watermark.
BaselineAlways(read, rows) == Latest(rows)

\* baseline_after_history, ensure_live_baseline: a first watermark.
Baseline(read, rows) == IF read = NoMark THEN Latest(rows) ELSE read

---------------------------------------------------------------------------
(* The buffers                                                             *)

InBatch(c) == \E b \in batches : b.room = c

\* Slip: a buffer that comes back starts without its count.
EnsureBufferEmpty(c, lines) ==
    /\ shown' = shown \cup {c}
    /\ filled' = IF lines THEN filled \cup {c} ELSE filled
    /\ badge' = IF c \in shown THEN badge ELSE [badge EXCEPT ![c] = {}]

\* ensure_buffer, with the count the store has for a new buffer; lines: the
\* caller appends a chat line.
EnsureBuffer(c, lines) ==
    /\ shown' = shown \cup {c}
    /\ filled' = IF lines THEN filled \cup {c} ELSE filled
    /\ badge' = IF c \in shown THEN badge ELSE [badge EXCEPT ![c] = Unread(c)]

\* Slip: the room is still taken to hold chat lines.
DropBufferFilled(c) ==
    /\ shown' = shown \ {c} /\ filled' = filled
    /\ badge' = [badge EXCEPT ![c] = {}]
    /\ open' = IF open = c THEN NoRoom ELSE open

\* The buffer of a room goes away, the open chat with it; the store stays.
DropBuffer(c) ==
    /\ shown' = shown \ {c} /\ filled' = filled \ {c}
    /\ badge' = [badge EXCEPT ![c] = {}]
    /\ open' = IF open = c THEN NoRoom ELSE open

\* HistoryLatest; answered while the server has the session in the room.
AskHistory(c) ==
    asked' = IF c \in member \ filled THEN asked \cup {c} ELSE asked

---------------------------------------------------------------------------
(* Events of the session                                                   *)

Head1(e) == wire # <<>> /\ wire[1].ev = e /\ wire' = Tail(wire)

\* Own JOIN.
OnJoined ==
    /\ Head1("Joined")
    /\ EnsureBuffer(wire[1].room, FALSE)
    /\ AskHistory(wire[1].room)
    /\ UNCHANGED <<log, now, diskVars, batches, open, member, nextBatch, budget, looked>>

\* Own PART.
OnParted ==
    /\ Head1("Parted")
    /\ DropBuffer(wire[1].room)
    /\ UNCHANGED <<log, now, diskVars, batches, member, asked, nextBatch, budget, looked>>

\* Slip: the first live message is part of its own baseline.
WatermarkOverItself(c, m, rows) ==
    IF open = c THEN MarkRead(mark[c], rows, log[m].at)
    ELSE IF ~log[m].mine /\ ~InBatch(c) THEN Baseline(mark[c], rows)
    ELSE mark[c]

\* The watermark a new row leaves behind.
Watermark(c, m, rows) ==
    IF open = c THEN MarkRead(mark[c], rows, log[m].at)
    ELSE IF ~log[m].mine /\ ~InBatch(c) THEN Baseline(mark[c], rows \ {m})
    ELSE mark[c]

\* Message: append, then record_message_for_unread and refresh_unread.
OnMessage ==
    /\ Head1("Message")
    /\ LET c == wire[1].room
           m == wire[1].n
           rows == stored[c] \cup {m}
           read == Watermark(c, m, rows)
       IN  /\ shown' = shown \cup {c} /\ filled' = filled \cup {c}
           /\ stored' = [stored EXCEPT ![c] = rows]
           /\ mark' = [mark EXCEPT ![c] = read]
           /\ badge' = [badge EXCEPT ![c] = UnreadOf(rows, read)]
    /\ UNCHANGED <<log, now, batches, open, member, asked, nextBatch, budget, looked>>

OnBatchStart ==
    /\ Head1("Start")
    /\ batches' = batches \cup {[id |-> wire[1].n, room |-> wire[1].room]}
    /\ UNCHANGED <<log, now, diskVars, bufVars, open, member, asked, nextBatch, budget, looked>>

OnBatchEnd ==
    /\ Head1("End")
    /\ LET c == wire[1].room
           read == Baseline(mark[c], stored[c])
       IN  /\ batches' = {b \in batches : b.id # wire[1].n}
           /\ mark' = [mark EXCEPT ![c] = read]
           /\ badge' = IF c \in shown
                       THEN [badge EXCEPT ![c] = UnreadOf(stored[c], read)] ELSE badge
    /\ UNCHANGED <<log, now, stored, shown, filled, open, member, asked, nextBatch, budget, looked>>

---------------------------------------------------------------------------
(* The user                                                                *)

\* Opened from the chat list or after asking to join: open_chat_with_history,
\* do_join.
OpenChat(c) ==
    /\ c \in budget.rooms
    /\ LET read == MarkRead(mark[c], stored[c], now)
       IN  /\ mark' = [mark EXCEPT ![c] = read]
           /\ badge' = [badge EXCEPT ![c] = UnreadOf(stored[c], read)]
    /\ shown' = shown \cup {c}
    /\ open' = c
    /\ AskHistory(c)
    /\ looked' = [looked EXCEPT ![c] = now]
    /\ UNCHANGED <<log, now, stored, filled, batches, member, wire, nextBatch, budget>>

CloseChat ==
    /\ open # NoRoom
    /\ open' = NoRoom
    /\ UNCHANGED <<log, now, diskVars, bufVars, batches, netVars, budget, looked>>

\* do_part of a joined room; its PART is confirmed by an event.
PartRoom(c) ==
    /\ c \in shown \cap member
    /\ DropBuffer(c)
    /\ member' = member \ {c}
    /\ wire' = Append(wire, Line("Parted", c, 0))
    /\ UNCHANGED <<log, now, diskVars, batches, asked, nextBatch, budget, looked>>

\* clear_session: the buffers go, history_batches stays.
Disconnect ==
    /\ member # {}
    /\ member' = {} /\ asked' = {}
    /\ \E k \in 0..Len(wire) : wire' = SubSeq(wire, 1, k)
    /\ shown' = {} /\ filled' = {} /\ badge' = [c \in Rooms |-> {}]
    /\ open' = NoRoom
    /\ UNCHANGED <<log, now, diskVars, batches, nextBatch, budget, looked>>

\* The process ends and starts again: only the store is left.
Restart ==
    /\ member' = {} /\ asked' = {} /\ wire' = <<>>
    /\ shown' = {} /\ filled' = {} /\ badge' = [c \in Rooms |-> {}]
    /\ batches' = {} /\ open' = NoRoom
    /\ UNCHANGED <<log, now, diskVars, nextBatch, budget, looked>>

---------------------------------------------------------------------------
(* The server and the network (external)                                   *)

\* A JOIN the net thread or the user sent is confirmed.
Join(c) ==
    /\ c \in budget.rooms \ member /\ Len(wire) < budget.wire
    /\ member' = member \cup {c}
    /\ wire' = Append(wire, Line("Joined", c, 0))
    /\ UNCHANGED <<log, now, diskVars, bufVars, batches, open, asked, nextBatch, budget, looked>>

\* Somebody, or the user here or on another device, says something.
Post(c, mine) ==
    /\ c \in budget.rooms
    /\ Len(log) < budget.log /\ Len(wire) < budget.wire
    /\ log' = Append(log, [room |-> c, at |-> now, mine |-> mine])
    /\ wire' = IF c \in member
               THEN Append(wire, Line("Message", c, Len(log) + 1)) ELSE wire
    /\ UNCHANGED <<now, diskVars, bufVars, batches, open, member, asked, nextBatch, budget, looked>>

\* The messages a history batch of the room replays.
Newest(c) ==
    LET all == {m \in 1..Len(log) : log[m].room = c}
    IN  {m \in all : Cardinality({k \in all : k > m}) < HistLimit}

\* CHATHISTORY LATEST: the last messages of the room in order, between batch
\* lines.
Replay(c) ==
    /\ c \in asked /\ nextBatch < budget.batches /\ Len(wire) < budget.wire
    /\ \E s \in [1..Cardinality(Newest(c)) -> Newest(c)] :
           /\ \A i, j \in DOMAIN s : i < j => s[i] < s[j]
           /\ wire' = wire \o <<Line("Start", c, nextBatch)>>
                            \o [i \in DOMAIN s |-> Line("Message", c, s[i])]
                            \o <<Line("End", c, nextBatch)>>
    /\ asked' = asked \ {c} /\ nextBatch' = nextBatch + 1
    /\ UNCHANGED <<log, now, diskVars, bufVars, batches, open, member, budget, looked>>

\* The session drops; what it had not delivered is lost.
Drop ==
    /\ member # {}
    /\ member' = {} /\ asked' = {}
    /\ \E k \in 0..Len(wire) : wire' = SubSeq(wire, 1, k)
    /\ UNCHANGED <<log, now, diskVars, bufVars, batches, open, nextBatch, budget, looked>>

Tick ==
    /\ now < budget.time /\ now' = now + 1
    /\ UNCHANGED <<log, diskVars, bufVars, batches, open, netVars, budget, looked>>

---------------------------------------------------------------------------
Init ==
    /\ log = <<>> /\ now = 1
    /\ stored = [c \in Rooms |-> {}] /\ mark = [c \in Rooms |-> NoMark]
    /\ shown = {} /\ filled = {} /\ badge = [c \in Rooms |-> {}]
    /\ batches = {} /\ open = NoRoom
    /\ member = {} /\ wire = <<>> /\ asked = {} /\ nextBatch = 0
    /\ looked = [c \in Rooms |-> NoMark]
    /\ budget \in Budgets

Next ==
    \/ OnJoined \/ OnParted \/ OnMessage \/ OnBatchStart \/ OnBatchEnd
    \/ \E c \in Rooms : OpenChat(c) \/ PartRoom(c)
    \/ CloseChat \/ Disconnect \/ Restart
    \/ Drop \/ Tick
    \/ \E c \in Rooms : Join(c) \/ Replay(c)
    \/ \E c \in Rooms, mine \in BOOLEAN : Post(c, mine)

Spec == Init /\ [][Next]_vars

---------------------------------------------------------------------------
(* Properties                                                              *)

\* The badge a buffer caches is the count the store would give, after every
\* message, batch, open, part, reconnect and restart (refresh_unread,
\* ensure_buffer and open_chat keep the copy; state.rs:1969-2005, 2166-2178).
BadgeAgrees == \A c \in shown : badge[c] = Unread(c)

\* A live message of somebody else that is later than every row the room has,
\* and later than the last time the user opened the room, counts when the room
\* is not open: no history batch and no reconnect may move the watermark past
\* it (record_message_for_unread, state.rs:1944-1965; message_store.rs:3-5,
\* "live traffic after that advances the badge").
LiveCounts ==
    [][\A c \in Rooms : \A m \in stored'[c] \ stored[c] :
          ( /\ open # c /\ ~InBatch(c) /\ ~log[m].mine
            /\ log[m].at > looked[c]
            /\ \A r \in stored[c] : log[m].at > log[r].at )
          => m \in Unread(c)']_vars

\* The store, the watermark and the batches together keep the promise of
\* UnreadPromise: a row counts or is passed over once and for all, and what
\* counts stops only when its room is opened.
Promise == INSTANCE UnreadPromise WITH
    Messages <- 1..MaxLog,
    counted <- [c \in Rooms |-> Unread(c)],
    passed <- [c \in Rooms |-> stored[c] \ Unread(c)]

KeepsPromise == Promise!Spec

===========================================================================
