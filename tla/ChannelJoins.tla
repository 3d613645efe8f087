--------------------------- MODULE ChannelJoins ---------------------------
(***************************************************************************)
(* Room membership in Sleek: how the rooms the chat list shows, the rooms  *)
(* the app rejoins after a reconnect and the rooms the server has the user *)
(* in stay together, while joins, leaves, kicks, denials and dropped       *)
(* sessions cross each other.                                              *)
(*                                                                         *)
(*   UI thread   buffers of state.rs     : present, pending, denied,       *)
(*                                         recent, active                  *)
(*   net thread  network_loop of net.rs  : handle, joins                   *)
(*   server      external                : wire (what it has yet to read), *)
(*                                         member                          *)
(*                                                                         *)
(* The session itself is the subject of SleekSession; here it is coarse:   *)
(* the SDK task, its event queue and the dial are folded into the step     *)
(* that posts the event, and why a Connect is sent (the form, the reconnect*)
(* deadline, a broker token) is not told apart.                            *)
(***************************************************************************)
EXTENDS Naturals, Sequences, FiniteSets, SequencesExt

CONSTANTS
    Rooms,      \* channel names, already normalised
    Lobby,      \* "#test", joined when nothing is remembered and by guests
    NoRoom,     \* no chat is open
    Guest,      \* TRUE: no identity is known
    MaxRecent,  \* MAX_RECENT of remember_channel (50 in the code)
    MaxCmds,    \* bound: the user stops clicking while this many commands wait
    MaxEvents   \* bound: net and server pause while this many events wait

ASSUME RoomsAssumption == Lobby \in Rooms /\ NoRoom \notin Rooms
ASSUME GuestAssumption == Guest \in BOOLEAN
ASSUME LimitsAssumption == /\ MaxRecent \in Nat \ {0}
                           /\ MaxCmds \in Nat \ {0}
                           /\ MaxEvents \in Nat \ {0}

VARIABLES
    ui,           \* the connection the UI shows: Registered is "on"
    intentional,  \* AppState.intentional_disconnect
    present,      \* rooms with a buffer
    pending,      \* ... whose join_pending is set
    denied,       \* ... whose join_error is set
    recent,       \* AppState.recent_channels, persisted in the preferences
    active,       \* the open chat
    cmdq, evq,    \* NetCmd and NetEvent channels
    handle,       \* the net thread's session: none, unregistered or registered
    joins,        \* pending_joins of the net thread
    wire,         \* JOINs and PARTs of this session the server has not read
    member,       \* rooms the server has this session in
    left          \* history: rooms the user left and did not ask for again

roomVars == <<present, pending, denied, recent, active>>
uiVars   == <<ui, intentional, roomVars, left>>
netVars  == <<handle, joins, wire, member>>
vars     == <<uiVars, netVars, cmdq, evq>>

Join(c)        == [op |-> "Join", rooms |-> <<c>>]
Part(c)        == [op |-> "Part", rooms |-> <<c>>]
Connect(rooms) == [op |-> "Connect", rooms |-> rooms]
Quit           == [op |-> "Quit", rooms |-> <<>>]
RoomCommands == [op : {"Join", "Part"}, rooms : {<<c>> : c \in Rooms}]
Commands == RoomCommands \cup {Quit} \cup [op : {"Connect"}, rooms : Seq(Rooms)]

RoomEvents    == [ev : {"Joined", "Parted", "Denied"}, room : Rooms]
SessionEvents == [ev : {"Registered", "EOF", "QuitDone", "Failed"}, room : {NoRoom}]
About(e, c)   == [ev |-> e, room |-> c]
Plain(e)      == [ev |-> e, room |-> NoRoom]

TypeOK ==
    /\ ui \in {"off", "connecting", "on"} /\ intentional \in BOOLEAN
    /\ present \subseteq Rooms
    /\ pending \subseteq present /\ denied \subseteq present
    /\ recent \in Seq(Rooms) /\ Len(recent) <= MaxRecent
    /\ \A i, j \in 1..Len(recent) : recent[i] = recent[j] => i = j
    /\ active \in Rooms \cup {NoRoom}
    /\ cmdq \in Seq(Commands) /\ evq \in Seq(RoomEvents \cup SessionEvents)
    /\ handle \in {"none", "fresh", "reg"}
    /\ joins \in Seq(Rooms) /\ wire \in Seq(RoomCommands)
    /\ member \subseteq Rooms /\ left \subseteq Rooms

---------------------------------------------------------------------------
(* Helpers                                                                 *)

\* Buffer::is_joined: neither waiting for the JOIN nor refused.
JoinedRooms == present \ (pending \cup denied)

\* AppState::auto_join_channels
AutoJoin ==
    IF recent = <<>> THEN <<Lobby>>
    ELSE IF Guest /\ Lobby \notin ToSet(recent) THEN Append(recent, Lobby)
    ELSE recent

\* Slip: a room that is joined again is listed again.
RememberAgain(c) ==
    recent' = SubSeq(<<c>> \o recent, 1,
                     IF Len(recent) < MaxRecent THEN Len(recent) + 1 ELSE MaxRecent)

\* AppState::remember_channel: a new room goes to the front, the last one over
\* the limit is dropped.
Remember(c) ==
    recent' = IF c \in ToSet(recent) THEN recent
              ELSE SubSeq(<<c>> \o recent, 1,
                          IF Len(recent) < MaxRecent THEN Len(recent) + 1 ELSE MaxRecent)

\* AppState::forget_channel; the list holds a room once at most.
Forget(c) ==
    recent' = IF c \in ToSet(recent)
              THEN RemoveAt(recent, CHOOSE i \in 1..Len(recent) : recent[i] = c)
              ELSE recent

\* The buffer of a room goes away with its flags.
DropBuffer(c) ==
    /\ present' = present \ {c}
    /\ pending' = pending \ {c}
    /\ denied' = denied \ {c}

\* Slip: the open chat is kept when its room goes.
LeaveRoomOpen(c) == DropBuffer(c) /\ Forget(c) /\ UNCHANGED active

\* Parted, Kicked and do_part: buffer, memory and open chat of the room.
LeaveRoom(c) ==
    /\ DropBuffer(c) /\ Forget(c)
    /\ active' = IF active = c THEN NoRoom ELSE active

\* AppState::clear_session; recent_channels survives it.
ClearRooms ==
    /\ present' = {} /\ pending' = {} /\ denied' = {} /\ active' = NoRoom
    /\ UNCHANGED recent

---------------------------------------------------------------------------
(* UI thread: clicks                                                       *)

CanClick == Len(cmdq) < MaxCmds

\* Bound: the user does not ask for a room again while the same JOIN waits.
Asked(c) == Join(c) \in ToSet(cmdq) \cup ToSet(wire) \/ c \in ToSet(joins)

\* SleekApp::do_connect_with_token.  Without an identity it is called from the
\* form or the reconnect deadline; a broker token comes when it comes.
SendConnect ==
    /\ ui = "off" \/ (ui = "connecting" /\ ~Guest)
    /\ CanClick
    /\ ui' = "connecting" /\ intentional' = FALSE
    /\ cmdq' = Append(cmdq, Connect(AutoJoin))
    /\ UNCHANGED <<roomVars, left, netVars, evq>>

\* SleekApp::do_intentional_disconnect: Cancel, also on the waiting page of an
\* outage, Disconnect, and the sign-out on the form or in the settings.
Disconnect ==
    /\ CanClick /\ (ui # "off" \/ present # {} \/ ~Guest)
    /\ intentional' = TRUE /\ ui' = "off"
    /\ cmdq' = Append(cmdq, Quit)
    /\ ClearRooms
    /\ UNCHANGED <<left, netVars, evq>>

\* The tabs are shown to a registered user; a chat that is open stays open
\* through a dropped session, and "/join" works in it.
DoJoin(c) ==
    /\ CanClick /\ ~Asked(c)
    /\ ui = "on" \/ active # NoRoom
    /\ present' = present \cup {c} /\ pending' = pending \cup {c}
    /\ denied' = denied \ {c}
    /\ active' = c
    /\ cmdq' = Append(cmdq, Join(c))
    /\ left' = left \ {c}
    /\ UNCHANGED <<recent, ui, intentional, netVars, evq>>

\* Slip: leaving a room without telling the server.
DoPartLocally(c) ==
    /\ active = c /\ CanClick
    /\ LeaveRoom(c)
    /\ left' = left \cup {c}
    /\ UNCHANGED <<cmdq, ui, intentional, netVars, evq>>

\* Leave, or "/part" in the open chat: a PART is sent only for a joined room.
DoPart(c) ==
    /\ active = c /\ CanClick
    /\ cmdq' = IF c \in JoinedRooms THEN Append(cmdq, Part(c)) ELSE cmdq
    /\ LeaveRoom(c)
    /\ left' = left \cup {c}
    /\ UNCHANGED <<ui, intentional, netVars, evq>>

\* From the list, or by a link in the open chat to a room that is joined.
OpenRoom(c) ==
    /\ (ui = "on" /\ c \in present) \/ (active # NoRoom /\ c \in JoinedRooms)
    /\ active' = c
    /\ UNCHANGED <<present, pending, denied, recent, ui, intentional, left,
                   netVars, cmdq, evq>>

CloseRoom ==
    /\ active # NoRoom
    /\ active' = NoRoom
    /\ UNCHANGED <<present, pending, denied, recent, ui, intentional, left,
                   netVars, cmdq, evq>>

---------------------------------------------------------------------------
(* UI thread: events of the net thread                                     *)

Take(e) == evq # <<>> /\ Head(evq).ev = e /\ evq' = Tail(evq)
Room    == Head(evq).room

\* The remembered rooms appear in the list.  Only a buffer that is left over
\* unjoined is marked as waiting: a fresh one counts as joined at once.
OnRegistered ==
    /\ Take("Registered")
    /\ ui' = "on" /\ intentional' = FALSE
    /\ present' = present \cup ToSet(AutoJoin)
    /\ pending' = pending \cup (denied \cap ToSet(AutoJoin))
    /\ UNCHANGED <<denied, recent, active, left, netVars, cmdq>>

\* Slip: only a room that had no buffer is remembered.
OnJoinedIfNew ==
    /\ Take("Joined")
    /\ present' = present \cup {Room}
    /\ pending' = pending \ {Room} /\ denied' = denied \ {Room}
    /\ IF Room \in present THEN UNCHANGED recent ELSE Remember(Room)
    /\ UNCHANGED <<ui, intentional, active, left, netVars, cmdq>>

\* The user's own JOIN came back.
OnJoined ==
    /\ Take("Joined")
    /\ present' = present \cup {Room}
    /\ pending' = pending \ {Room} /\ denied' = denied \ {Room}
    /\ Remember(Room)
    /\ UNCHANGED <<ui, intentional, active, left, netVars, cmdq>>

\* The user's own PART came back, or he was kicked.
OnParted ==
    /\ Take("Parted")
    /\ LeaveRoom(Room)
    /\ UNCHANGED <<ui, intentional, left, netVars, cmdq>>

\* apply_join_denial: a join nobody asked for just takes the room off the
\* list; one the user waits for keeps the room and opens it on the error.
OnDenied ==
    /\ Take("Denied")
    /\ IF Room \in pending \/ active = Room
       THEN /\ present' = present \cup {Room}
            /\ pending' = pending \ {Room} /\ denied' = denied \cup {Room}
            /\ active' = Room
       ELSE DropBuffer(Room) /\ UNCHANGED active
    /\ UNCHANGED <<recent, ui, intentional, left, netVars, cmdq>>

\* Event::Disconnected, as in SleekSession.
OnDisconnected ==
    /\ Take("EOF") \/ Take("QuitDone")
    /\ intentional' = FALSE
    /\ LET expected == intentional \/ Head(evq).ev = "QuitDone" IN
       \/ expected /\ ui = "connecting" /\ UNCHANGED <<ui, roomVars>>
       \/ expected /\ ui # "connecting" /\ ui' = "off" /\ ClearRooms
       \/ ~expected /\ ui' = "off" /\ UNCHANGED roomVars
    /\ UNCHANGED <<left, netVars, cmdq>>

OnFailed ==
    /\ Take("Failed")
    /\ ui' = IF ui = "connecting" THEN "off" ELSE ui
    /\ UNCHANGED <<intentional, roomVars, left, netVars, cmdq>>

---------------------------------------------------------------------------
(* Net thread: apply_cmd                                                   *)

Post(e) == Len(evq) < MaxEvents /\ evq' = Append(evq, e)

Read(op) == cmdq # <<>> /\ Head(cmdq).op = op /\ cmdq' = Tail(cmdq)

\* The session is gone, and with it what the server knew of it.
DropSession == handle' = "none" /\ wire' = <<>> /\ member' = {}

\* Without a session a JOIN waits for the next registration; with one the SDK
\* takes it, and holds it back until the session is registered.
NetJoins ==
    /\ Read("Join")
    /\ IF handle = "none"
       THEN joins' = joins \o Head(cmdq).rooms /\ UNCHANGED wire
       ELSE wire' = Append(wire, Head(cmdq)) /\ UNCHANGED joins
    /\ UNCHANGED <<uiVars, handle, member, evq>>

\* Without a session a PART is dropped without a word.
NetParts ==
    /\ Read("Part")
    /\ wire' = IF handle = "none" THEN wire ELSE Append(wire, Head(cmdq))
    /\ UNCHANGED <<uiVars, handle, joins, member, evq>>

\* do_connect: the rooms to join are the ones of the command, whatever waited.
NetConnects ==
    /\ Read("Connect")
    /\ joins' = Head(cmdq).rooms
    /\ wire' = <<>> /\ member' = {}
    /\ \/ handle' = "fresh" /\ UNCHANGED evq
       \/ handle' = "none" /\ Post(Plain("Failed"))
    /\ UNCHANGED uiVars

NetQuits ==
    /\ Read("Quit")
    /\ DropSession
    /\ joins' = <<>>
    /\ Post(Plain("QuitDone"))
    /\ UNCHANGED uiVars

\* The server's 001: the SDK sends what it held back, then the net thread
\* joins the rooms that waited.
Registers ==
    /\ handle = "fresh"
    /\ handle' = "reg"
    /\ wire' = wire \o [i \in 1..Len(joins) |-> Join(joins[i])]
    /\ joins' = <<>>
    /\ Post(Plain("Registered"))
    /\ UNCHANGED <<uiVars, member, cmdq>>

SessionDies ==
    /\ handle # "none"
    /\ DropSession
    /\ Post(Plain("EOF"))
    /\ UNCHANGED <<uiVars, joins, cmdq>>

---------------------------------------------------------------------------
(* The server, external: it reads a registered session's lines in order.   *)

ServerReads(op) ==
    /\ handle = "reg" /\ wire # <<>> /\ Head(wire).op = op
    /\ wire' = Tail(wire)
    /\ UNCHANGED <<uiVars, handle, joins, cmdq>>

\* A JOIN of a room one is in is confirmed once more.
ServerJoins ==
    /\ ServerReads("Join")
    /\ LET c == Head(Head(wire).rooms) IN
       \/ member' = member \cup {c} /\ Post(About("Joined", c))
       \/ c \notin member /\ UNCHANGED member /\ Post(About("Denied", c))

ServerParts ==
    /\ ServerReads("Part")
    /\ LET c == Head(Head(wire).rooms) IN
       \/ c \in member /\ member' = member \ {c} /\ Post(About("Parted", c))
       \/ c \notin member /\ UNCHANGED <<member, evq>>

ServerKicks(c) ==
    /\ c \in member
    /\ member' = member \ {c} /\ Post(About("Parted", c))
    /\ UNCHANGED <<uiVars, handle, joins, wire, cmdq>>

---------------------------------------------------------------------------

\* A first run: no remembered room.
Init ==
    /\ ui = "off" /\ intentional = FALSE
    /\ present = {} /\ pending = {} /\ denied = {}
    /\ recent = <<>> /\ active = NoRoom
    /\ cmdq = <<>> /\ evq = <<>>
    /\ handle = "none" /\ joins = <<>> /\ wire = <<>> /\ member = {}
    /\ left = {}

User == \/ SendConnect \/ Disconnect \/ CloseRoom
        \/ \E c \in Rooms : DoJoin(c) \/ DoPart(c) \/ OpenRoom(c)

UiEvents == \/ OnRegistered \/ OnJoined \/ OnParted \/ OnDenied
            \/ OnDisconnected \/ OnFailed

Net == \/ NetJoins \/ NetParts \/ NetConnects \/ NetQuits
       \/ Registers \/ SessionDies

Server == \/ ServerJoins \/ ServerParts
          \/ \E c \in Rooms : ServerKicks(c)

Next == User \/ UiEvents \/ Net \/ Server

Spec == Init /\ [][Next]_vars

---------------------------------------------------------------------------
(* Properties                                                              *)

\* The open chat always has a buffer behind it: no leave, kick, denial or
\* dropped session takes away the buffer of the chat on screen.
ActivePresent == active # NoRoom => active \in present

\* Nothing is on its way any more.
AtRest == cmdq = <<>> /\ evq = <<>> /\ wire = <<>> /\ handle # "fresh"

\* A room the server has the user in is in his chat list, as joined: he cannot
\* be in a room he cannot see and so cannot leave, however joins, leaves,
\* kicks and reconnects crossed.
MembersShown == AtRest => member \subseteq JoinedRooms

\* ... and the app joins it again after a reconnect, as long as the rooms fit
\* in the list.
RoomsFit == IsFiniteSet(Rooms) /\ Cardinality(Rooms) <= MaxRecent

MembersRemembered == AtRest /\ RoomsFit => member \subseteq ToSet(recent)

---------------------------------------------------------------------------
(* What a comment of the code says and the code does not do.               *)

\* A room the user left is off the auto-join list.
PartSticks == AtRest => left \cap ToSet(recent) \subseteq {Lobby}
=============================================================================
