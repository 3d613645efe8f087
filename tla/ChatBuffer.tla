----------------------------- MODULE ChatBuffer -----------------------------
(***************************************************************************)
(* One chat of Sleek: what the buffer shows of a conversation, while       *)
(* messages, edits and deletions of several authors, the user's optimistic *)
(* rows, history replays, changes of nick and dropped sessions cross each  *)
(* other.                                                                  *)
(*                                                                         *)
(*   UI thread   AppState of state.rs  : buf, editing, nick                *)
(*   connection  both directions       : up, wire, renames                 *)
(*   server      external              : log, gone, me                     *)
(*                                                                         *)
(* The net thread and the SDK only pass lines on and are folded into the   *)
(* two directions.  The user may have a second device: a message, an edit  *)
(* or a deletion of his own can come from elsewhere.  The code tells whose *)
(* a message is by the nick that is on it, the server by the person.       *)
(***************************************************************************)
EXTENDS Naturals, Sequences, FiniteSets, SequencesExt

CONSTANTS
    OwnNicks,   \* the nicks the user has at one time or another
    OtherNicks, \* those of the others
    Texts,      \* what a message may say
    MaxRows,    \* MAX_MESSAGES of a buffer (500 in the code)
    HistLimit,  \* messages per CHATHISTORY reply (100 in the code)
    MaxLog,     \* bound: messages and edits the server ever logs
    MaxUp,      \* bound: lines of the user on their way to the server
    MaxWire,    \* bound: the server pauses while this many lines wait for the UI
    MaxLost,    \* bound: optimistic rows the user writes without a session
    MaxTurns    \* bound: lost connections and changes of nick

Nicks == OwnNicks \cup OtherNicks

ASSUME NicksAssumption == OwnNicks # {} /\ OwnNicks \cap OtherNicks = {}
ASSUME TextsAssumption == Texts # {}
ASSUME LimitsAssumption == /\ MaxRows \in Nat \ {0} /\ HistLimit \in Nat \ {0}
                           /\ MaxLog \in Nat \ {0} /\ MaxUp \in Nat \ {0}
                           /\ MaxWire \in Nat \ {0} /\ MaxLost \in Nat
                           /\ MaxTurns \in Nat

VARIABLES
    buf,      \* the buffer: rows, message_ids, edit_aliases
    editing,  \* AppState.editing_msgid, 0 when no edit is being typed
    nick,     \* AppState.nick
    online,   \* the session
    up,       \* the user's lines the server has not read
    wire,     \* the server's lines the UI has not handled
    renames,  \* its NICK lines about the user the UI has not handled
    me,       \* the user's nick
    log,      \* messages and edits, the msgid is the place in it
    gone,     \* messages deleted on the server
    missed,   \* history: messages of which a line was lost with a session
    orphans,  \* history: messages with an edit or a deletion that found no row
              \* with the nick it came from
    lost,     \* history: own messages never confirmed, or not under the nick
              \* they were written with
    turns     \* how many connections were lost and nicks changed

serverVars  == <<log, gone>>
nickVars    == <<nick, renames, me>>
historyVars == <<missed, orphans, lost>>
vars == <<buf, editing, online, up, wire, serverVars, nickVars, historyVars, turns>>

Ids == 1..MaxLog

\* The row of an optimistic message has no msgid yet ("local-..." in the code).
Local == 0
Row  == [id : Ids \cup {Local}, of : Ids \cup {0}, text : Texts,
         from : Nicks, deleted : BOOLEAN, ts : Nat]
Entry == [kind : {"post", "edit"}, id : Ids, names : Ids \cup {0}, root : Ids,
          text : Texts, from : Nicks]

\* A deletion names the message; its text is of no account.
Deletion == [kind : {"delete"}, names : Ids, from : Nicks]

\* What is sent does not say under which nick it was written: from is history.
Request  == [kind : {"post", "edit"}, names : Ids \cup {0}, text : Texts,
             from : OwnNicks]
            \cup [kind : {"delete"}, names : Ids] \cup [kind : {"history"}]

TypeOK ==
    /\ buf.rows \in Seq(Row) /\ Len(buf.rows) <= MaxRows
    /\ buf.ids \subseteq Ids /\ buf.aliases \subseteq Ids
    /\ DOMAIN buf = {"rows", "ids", "aliases"}
    /\ editing \in Ids \cup {0} /\ online \in BOOLEAN
    /\ up \in Seq(Request) /\ wire \in Seq(Entry \cup Deletion)
    /\ log \in Seq(Entry) /\ Len(log) <= MaxLog
    /\ \A i \in 1..Len(log) : log[i].id = i
    /\ gone \subseteq Ids /\ missed \subseteq Ids /\ orphans \subseteq Ids
    /\ nick \in OwnNicks /\ me \in OwnNicks /\ renames \in Seq(OwnNicks)
    /\ lost \in Nat /\ turns \in 0..MaxTurns

---------------------------------------------------------------------------
(* Buffer                                                                  *)

Matches(row, n) == n # 0 /\ (row.id = n \/ row.of = n)

\* find_message_mut: the first row that carries the id or replaced it.
FirstNamed(rows, n) == SelectInSeq(rows, LAMBDA r : Matches(r, n))
\* apply_delete looks from the end.
LastNamed(rows, n) == SelectLastInSeq(rows, LAMBDA r : Matches(r, n))

\* Slip: the optimistic row stays beside its echo.
WithoutEchoNever(rows, row) == rows

\* Slip: any row of the same text is taken for the optimistic one.
WithoutEchoAnyRow(rows, row) ==
    LET i == SelectLastInSeq(rows, LAMBDA r : r.from = row.from /\ r.text = row.text)
    IN IF row.id = Local \/ i = 0 THEN rows ELSE RemoveAt(rows, i)

\* consume_local_echo: the last optimistic row with this nick and text gives way.
WithoutEcho(rows, row) ==
    LET i == SelectLastInSeq(rows, LAMBDA r : /\ r.id = Local /\ r.from = row.from
                                              /\ r.text = row.text)
    IN IF row.id = Local \/ i = 0 THEN rows ELSE RemoveAt(rows, i)

\* By time: after everything that is not later.
Inserted(rows, row) ==
    LET i == SelectInSeq(rows, LAMBDA r : row.ts < r.ts)
    IN IF rows = <<>> \/ row.ts >= Last(rows).ts THEN Append(rows, row)
       ELSE InsertAt(rows, i, row)

\* Slip: the buffer grows past its limit.
AppendedUnbounded(b, row) ==
    IF row.id # Local /\ row.id \in b.aliases \cup b.ids THEN b
    ELSE [b EXCEPT !.rows = Inserted(WithoutEcho(@, row), row),
                   !.ids = IF row.id = Local THEN @ ELSE @ \cup {row.id}]

\* Slip: a message that was rewritten comes back as it was.
AppendedAfterEdit(b, row) ==
    IF row.id # Local /\ row.id \in b.ids THEN b
    ELSE AppendedUnbounded([b EXCEPT !.aliases = {}], row)

\* Slip: a message is not known from its msgid.
AppendedAgain(b, row) ==
    IF row.id # Local /\ row.id \in b.aliases THEN b
    ELSE AppendedUnbounded([b EXCEPT !.ids = {}], row)

\* Buffer::append: a msgid is shown once, and not at all once it was rewritten.
\* The oldest row over the limit is dropped.
Appended(b, row) ==
    IF row.id # Local /\ row.id \in b.aliases \cup b.ids THEN b
    ELSE LET rows == Inserted(WithoutEcho(b.rows, row), row)
             over == Len(rows) > MaxRows
             known == IF row.id = Local THEN b.ids ELSE b.ids \cup {row.id}
         IN [b EXCEPT !.rows = IF over THEN Tail(rows) ELSE rows,
                      !.ids = IF over THEN known \ {Head(rows).id} ELSE known]

\* The row apply_edit would rewrite: it exists, has the editor's nick and is not
\* a tombstone.
Editable(b, from, n) ==
    LET i == FirstNamed(b.rows, n)
    IN i # 0 /\ b.rows[i].from = from /\ ~b.rows[i].deleted

\* Buffer::apply_edit in place: the row takes the edit's msgid, if there is one
\* yet, and the ids it had before are not to come back.
Edited(b, n, new, text) ==
    LET i   == FirstNamed(b.rows, n)
        row == b.rows[i]
        id  == IF new = 0 THEN row.id ELSE new
        of  == IF row.of = 0 THEN n ELSE row.of
    IN [rows |-> [b.rows EXCEPT ![i] = [row EXCEPT !.text = text, !.id = id, !.of = of]],
        ids |-> IF id = row.id THEN b.ids ELSE (b.ids \ {row.id}) \cup {id},
        aliases |-> b.aliases \cup {n, row.id}]

\* Slip: the id a message had before its edit is not looked for.
DeletedById(b, from, n) ==
    LET i == SelectLastInSeq(b.rows, LAMBDA r : r.id = n)
    IN IF i = 0 \/ b.rows[i].from # from THEN b
       ELSE [b EXCEPT !.rows[i].deleted = TRUE]

\* Buffer::apply_delete
Deleted(b, from, n) ==
    LET i == LastNamed(b.rows, n)
    IN IF i = 0 \/ b.rows[i].from # from THEN b
       ELSE [b EXCEPT !.rows[i].deleted = TRUE]

\* apply_delete finds the row under another nick.
Disowned(b, from, n) ==
    LET i == LastNamed(b.rows, n) IN i # 0 /\ b.rows[i].from # from

HasChat == buf.rows # <<>>

---------------------------------------------------------------------------
(* UI thread: clicks                                                       *)

Request1(r) == up' = IF online THEN Append(up, r) ELSE up
CanClick == Len(up) < MaxUp
Many(q, kinds) == Cardinality({i \in 1..Len(q) : q[i].kind \in kinds})
\* Bound: what is on its way still fits in the log.
Fits == Len(log) + Many(up, {"post", "edit"}) < MaxLog

\* do_send: the optimistic row, and the line; without a session the line is
\* answered by an error and the row stays.
Send(t) ==
    /\ CanClick /\ Fits /\ editing = 0
    /\ buf' = Appended(buf, [id |-> Local, of |-> 0, text |-> t, from |-> nick,
                             deleted |-> FALSE, ts |-> Len(log)])
    /\ Request1([kind |-> "post", names |-> 0, text |-> t, from |-> nick])
    /\ lost' = IF online THEN lost ELSE lost + 1
    /\ online \/ lost < MaxLost
    /\ UNCHANGED <<editing, online, wire, serverVars, missed, orphans, nickVars, turns>>

Own(i) == /\ i \in 1..Len(buf.rows)
          /\ buf.rows[i].from = nick /\ buf.rows[i].id # Local

\* begin_edit keeps the msgid the row has now.
BeginEdit(i) ==
    /\ Own(i) /\ ~buf.rows[i].deleted
    /\ editing' = buf.rows[i].id
    /\ UNCHANGED <<buf, online, up, wire, serverVars, historyVars, nickVars, turns>>

\* do_edit: rewritten at once, without a new msgid.
Save(t) ==
    /\ editing # 0 /\ CanClick /\ Fits
    /\ buf' = IF Editable(buf, nick, editing) THEN Edited(buf, editing, 0, t) ELSE buf
    /\ Request1([kind |-> "edit", names |-> editing, text |-> t, from |-> nick])
    /\ editing' = 0
    /\ missed' = IF online THEN missed ELSE missed \cup {log[editing].root}
    /\ UNCHANGED <<online, wire, serverVars, orphans, lost, nickVars, turns>>

CancelEdit ==
    /\ editing # 0 /\ editing' = 0
    /\ UNCHANGED <<buf, online, up, wire, serverVars, historyVars, nickVars, turns>>

\* do_delete names the message the row replaced, if any.
Delete(i) ==
    /\ Own(i) /\ ~buf.rows[i].deleted /\ CanClick
    /\ LET row == buf.rows[i]
           n == IF row.of # 0 THEN row.of ELSE row.id
       IN /\ buf' = Deleted(buf, nick, n)
          /\ editing' = IF editing = n THEN 0 ELSE editing
          /\ Request1([kind |-> "delete", names |-> n])
          /\ missed' = IF online THEN missed ELSE missed \cup {log[n].root}
    /\ UNCHANGED <<online, wire, serverVars, orphans, lost, nickVars, turns>>

---------------------------------------------------------------------------
(* UI thread: lines of the server                                          *)

RowOf(m) == [id |-> m.id, of |-> m.names, text |-> m.text, from |-> m.from,
             deleted |-> FALSE, ts |-> m.id]

\* Event::Message and Event::TagMsg: an edit that rewrites nothing becomes a
\* row of its own.
Receive ==
    /\ wire # <<>> /\ wire' = Tail(wire)
    /\ LET m == Head(wire) IN
       \/ /\ m.kind = "delete"
          /\ buf' = Deleted(buf, m.from, m.names)
          /\ orphans' = IF Disowned(buf, m.from, m.names)
                        THEN orphans \cup {log[m.names].root} ELSE orphans
       \/ /\ m.kind = "edit" /\ Editable(buf, m.from, m.names)
          /\ buf' = Edited(buf, m.names, m.id, m.text)
          /\ UNCHANGED orphans
       \/ /\ m.kind = "edit" /\ ~Editable(buf, m.from, m.names)
          /\ buf' = Appended(buf, RowOf(m))
          /\ orphans' = IF m.id \in buf.ids \cup buf.aliases THEN orphans
                        ELSE orphans \cup {m.root}
       \/ /\ m.kind = "post"
          /\ buf' = Appended(buf, RowOf(m))
          /\ UNCHANGED orphans
    /\ UNCHANGED <<editing, online, up, serverVars, missed, lost, nickVars, turns>>

\* Event::NickChanged.  How these lines lie between the others is left open.
OnNickChanged ==
    /\ renames # <<>> /\ renames' = Tail(renames)
    /\ nick' = Head(renames)
    /\ UNCHANGED <<buf, editing, online, up, wire, me, serverVars, historyVars, turns>>

\* Registered, under a nick the server allows, and then the own JOIN is confirmed:
\* history is asked for when the chat is empty.
Rejoin ==
    /\ ~online /\ online' = TRUE
    /\ nick' \in OwnNicks /\ me' = nick'
    /\ \/ nick' = nick /\ UNCHANGED turns
       \/ nick' # nick /\ turns < MaxTurns /\ turns' = turns + 1
    /\ up' = IF HasChat THEN <<>> ELSE <<[kind |-> "history"]>>
    /\ UNCHANGED <<buf, editing, wire, renames, serverVars, historyVars>>

\* open_chat_with_history
OpenChat ==
    /\ online /\ ~HasChat /\ CanClick
    /\ [kind |-> "history"] \notin ToSet(up)
    /\ up' = Append(up, [kind |-> "history"])
    /\ UNCHANGED <<buf, editing, online, wire, serverVars, historyVars, nickVars, turns>>

RootOf(m) == IF m.kind = "delete" THEN log[m.names].root ELSE m.root

\* An unexpected end of the session keeps the buffers.
Drop ==
    /\ online /\ turns < MaxTurns /\ turns' = turns + 1
    /\ online' = FALSE /\ up' = <<>> /\ wire' = <<>> /\ renames' = <<>>
    /\ missed' = missed \cup {RootOf(m) : m \in ToSet(wire)}
                 \cup {log[r.names].root : r \in {q \in ToSet(up) :
                                               q.kind \in {"edit", "delete"}}}
    /\ lost' = lost + Many(up, {"post"})
                    + Cardinality({i \in 1..Len(wire) : /\ wire[i].kind = "post"
                                                     /\ wire[i].from \in OwnNicks})
    /\ UNCHANGED <<buf, editing, nick, me, serverVars, orphans>>

---------------------------------------------------------------------------
(* The server, external                                                    *)

Said(kind, names, text, from) ==
    LET id == Len(log) + 1
    IN [kind |-> kind, id |-> id, names |-> names, text |-> text, from |-> from,
        root |-> IF names = 0 THEN id ELSE log[names].root]

\* A new message or an edit is logged and sent to everyone, its author too.
Log(m) ==
    /\ log' = Append(log, m)
    /\ wire' = IF online THEN Append(wire, m) ELSE wire
    /\ missed' = IF online THEN missed ELSE missed \cup {m.root}

\* Who wrote a message may edit and delete it, whatever his nick is now.
Accepts(names, from) ==
    /\ names \in 1..Len(log)
    /\ log[names].from \in OwnNicks <=> from \in OwnNicks
    /\ log[names].root \notin gone

\* The latest messages that are not deleted, as they were sent.
Replay ==
    LET kept == {i \in 1..Len(log) : log[i].root \notin gone}
        later(i) == Cardinality({j \in kept : j > i})
        n == IF Cardinality(kept) > HistLimit THEN HistLimit ELSE Cardinality(kept)
    IN [k \in 1..n |-> log[CHOOSE i \in kept : later(i) = n - k]]

\* Messages the UI knows nothing of, every line of which is in the reply.
Restored ==
    {r \in 1..Len(log) :
        /\ log[r].root = r
        /\ \A m \in ToSet(log) : m.root = r => m \in ToSet(Replay)
        /\ \A row \in ToSet(buf.rows) : row.id # Local => log[row.id].root # r
        /\ \A m \in ToSet(wire) : RootOf(m) # r}

\* The author's own connection gets no copy of a deletion.
ServerReads ==
    /\ online /\ up # <<>> /\ Len(wire) < MaxWire /\ up' = Tail(up)
    /\ LET r == Head(up) IN
       \/ r.kind = "history" /\ wire' = wire \o Replay
          /\ missed' = missed \ Restored /\ UNCHANGED <<log, gone>>
       \/ r.kind = "post" /\ Log(Said("post", 0, r.text, me)) /\ UNCHANGED gone
       \/ r.kind = "edit" /\ Accepts(r.names, me)
          /\ Log(Said("edit", r.names, r.text, me)) /\ UNCHANGED gone
       \/ r.kind = "delete" /\ Accepts(r.names, me)
          /\ gone' = gone \cup {log[r.names].root}
          /\ UNCHANGED <<log, wire, missed>>
       \/ r.kind \in {"edit", "delete"} /\ ~Accepts(r.names, me)
          /\ UNCHANGED <<log, wire, gone, missed>>
    /\ lost' = IF Head(up).kind = "post" /\ Head(up).from # me THEN lost + 1 ELSE lost
    /\ UNCHANGED <<buf, editing, online, nickVars, orphans, turns>>

\* The user's nick changes: he asked for it (/nick sends the line and changes
\* nothing), or the server wants another one.
Rename(n) ==
    /\ online /\ n # me /\ turns < MaxTurns /\ turns' = turns + 1
    /\ me' = n /\ renames' = Append(renames, n)
    /\ UNCHANGED <<buf, editing, nick, online, up, wire, serverVars, historyVars>>

\* Others, or the user's other device, which has his nick.
OthersPost(t, from) ==
    /\ Fits /\ Log(Said("post", 0, t, from))
    /\ UNCHANGED <<buf, editing, online, up, gone, orphans, lost, nickVars, turns>>

OthersEdit(n, t, from) ==
    /\ Fits /\ Accepts(n, from)
    /\ Log(Said("edit", n, t, from))
    /\ UNCHANGED <<buf, editing, online, up, gone, orphans, lost, nickVars, turns>>

OthersDelete(n, from) ==
    /\ Accepts(n, from) /\ log[n].root = n
    /\ gone' = gone \cup {n}
    /\ wire' = IF online
               THEN Append(wire, [kind |-> "delete", names |-> n, from |-> from])
               ELSE wire
    /\ missed' = IF online THEN missed ELSE missed \cup {n}
    /\ UNCHANGED <<buf, editing, online, up, log, orphans, lost, nickVars, turns>>

---------------------------------------------------------------------------

\* The room was never opened; others may have written there before.
Init ==
    /\ buf = [rows |-> <<>>, ids |-> {}, aliases |-> {}]
    /\ editing = 0 /\ online = FALSE /\ up = <<>> /\ wire = <<>>
    /\ log = <<>> /\ gone = {}
    /\ nick \in OwnNicks /\ me = nick /\ renames = <<>>
    /\ missed = {} /\ orphans = {} /\ lost = 0 /\ turns = 0

User == \/ \E t \in Texts : Send(t) \/ Save(t)
        \/ \E i \in 1..MaxRows : BeginEdit(i) \/ Delete(i)
        \/ CancelEdit \/ OpenChat

Others == /\ Len(wire) < MaxWire
          /\ \E t \in Texts, from \in {me} \cup OtherNicks :
             \/ OthersPost(t, from)
             \/ \E n \in Ids : OthersEdit(n, t, from) \/ OthersDelete(n, from)

Next == User \/ Receive \/ OnNickChanged \/ Rejoin \/ Drop
        \/ ServerReads \/ (\E n \in OwnNicks : Rename(n)) \/ Others

Spec == Init /\ [][Next]_vars

---------------------------------------------------------------------------
(* Properties                                                              *)

ServerRows == {i \in 1..Len(buf.rows) : buf.rows[i].id # Local}
Root(i)     == log[buf.rows[i].id].root
Versions(r) == {i \in 1..Len(log) : log[i].root = r}
Latest(r)   == log[CHOOSE i \in Versions(r) : \A j \in Versions(r) : j <= i]
AtRest      == up = <<>> /\ wire = <<>>

\* A message is shown once, whatever echoes, edits, replays and second requests
\* for history bring it again (Buffer::append, Buffer::apply_edit).  An edit
\* that found no row of its nick to rewrite is excepted: the code shows it by
\* itself.  That is every edit of what its author wrote under another nick.
OneRowPerMessage ==
    \A i, j \in ServerRows : Root(i) = Root(j) => i = j \/ Root(i) \in orphans

\* The buffer never had to drop a row to make room.  When it had to, a replay on
\* its way brings a dropped row back as it was, the deletion forgotten.
NeverFull == Len(log) + lost <= MaxRows

\* Once everything is delivered, the row of a message has its latest text, and
\* is a tombstone if the message was deleted: optimistic edits, echoes of older
\* edits and replays of the original end in the state of the server.  Messages
\* that were edited or deleted under another nick than the row's are excepted:
\* apply_edit and apply_delete take them for somebody else's.
LatestShown ==
    AtRest /\ NeverFull => \A i \in ServerRows :
        \/ Root(i) \in missed \cup orphans
        \/ /\ Root(i) \in gone => buf.rows[i].deleted
           /\ ~buf.rows[i].deleted => buf.rows[i].text = Latest(Root(i)).text

\* Skipping what was shown or rewritten already never skips a message that was
\* not: once everything is delivered, the chat shows (or has as a tombstone) each
\* message that was sent while online or that a reply to CHATHISTORY brought.
NothingMissed ==
    AtRest /\ NeverFull =>
        \A m \in ToSet(log) : m.root \in missed \/ \E i \in ServerRows : Root(i) = m.root

\* An optimistic row is there only as long as its message is on its way, in
\* either direction, or was lost with a session, or reached the server after it
\* had changed the user's nick: otherwise the echo replaces it, whatever nicks
\* the user had before and after (consume_local_echo).
EchoReplacesRow ==
    LET pending == Cardinality({i \in 1..Len(buf.rows) : buf.rows[i].id = Local})
        sent == Many(up, {"post"})
        back == {m.id : m \in {q \in ToSet(wire) : /\ q.kind = "post"
                                                /\ q.from \in OwnNicks}}
                \ (buf.ids \cup buf.aliases)
    IN pending <= sent + Cardinality(back) + lost

\* What the chat showed as deleted never comes back as text, through no replay
\* and no late edit that finds its row.
TombstoneStays ==
    [][\A i \in ServerRows : buf.rows[i].deleted =>
          \A j \in ServerRows' : Root(j)' = Root(i) =>
             buf'.rows[j].deleted \/ Root(i) \in orphans']_vars

=============================================================================
