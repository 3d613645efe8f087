------------------------ MODULE ChannelJoins_proofs ------------------------
(***************************************************************************)
(* Theorems about ChannelJoins for every set of rooms and every bound.     *)
(***************************************************************************)
EXTENDS ChannelJoins, FiniteSetTheorems, SequenceTheorems, TLAPS

---------------------------------------------------------------------------
(* The list of remembered rooms                                            *)

Distinct(q) == \A i, j \in 1..Len(q) : q[i] = q[j] => i = j

\* A part of a sequence without repetitions has none.
LEMMA DistinctPart ==
    ASSUME NEW q \in Seq(Rooms), Distinct(q), NEW m \in Nat, m <= Len(q)
    PROVE  /\ SubSeq(q, 1, m) \in Seq(Rooms) /\ Len(SubSeq(q, 1, m)) = m
           /\ Distinct(SubSeq(q, 1, m))
<1> DEFINE r == SubSeq(q, 1, m)
<1>1. r \in Seq(Rooms) /\ Len(r) = m /\ \A i \in 1..m : r[i] = q[i]
  OBVIOUS
<1>2. Distinct(r)
  BY <1>1 DEF Distinct
<1> QED BY <1>1, <1>2

\* A room that is not in the list can go to its front.
LEMMA DistinctFront ==
    ASSUME NEW q \in Seq(Rooms), Distinct(q), NEW c \in Rooms, c \notin ToSet(q)
    PROVE  <<c>> \o q \in Seq(Rooms) /\ Len(<<c>> \o q) = Len(q) + 1 /\ Distinct(<<c>> \o q)
<1> DEFINE r == <<c>> \o q
<1>1. /\ r \in Seq(Rooms) /\ Len(r) = Len(q) + 1 /\ Len(q) \in Nat
      /\ r[1] = c /\ \A i \in 2..Len(q) + 1 : r[i] = q[i - 1]
  OBVIOUS
<1>2. \A i \in 1..Len(q) : q[i] # c
  BY DEF ToSet
<1>3. ASSUME NEW i \in 1..Len(r), NEW j \in 1..Len(r), r[i] = r[j] PROVE i = j
  <2>1. CASE i = 1 \/ j = 1
    BY <1>1, <1>2, <1>3, <2>1
  <2>2. CASE i \in 2..Len(q) + 1 /\ j \in 2..Len(q) + 1
    <3>1. q[i - 1] = q[j - 1] /\ i - 1 \in 1..Len(q) /\ j - 1 \in 1..Len(q)
      BY <1>1, <1>3, <2>2
    <3>2. i - 1 = j - 1
      BY <3>1 DEF Distinct
    <3> QED BY <3>2, <2>2
  <2> QED BY <1>1, <2>1, <2>2
<1> QED BY <1>1, <1>3 DEF Distinct

\* Taking one element out keeps the others apart.
LEMMA DistinctWithout ==
    ASSUME NEW q \in Seq(Rooms), Distinct(q), NEW k \in 1..Len(q)
    PROVE  /\ RemoveAt(q, k) \in Seq(Rooms) /\ Len(RemoveAt(q, k)) = Len(q) - 1
           /\ Distinct(RemoveAt(q, k))
<1> DEFINE a == SubSeq(q, 1, k - 1)
           b == SubSeq(q, k + 1, Len(q))
           r == RemoveAt(q, k)
           At(i) == IF i < k THEN i ELSE i + 1
<1>1. a \in Seq(Rooms) /\ Len(a) = k - 1 /\ \A i \in 1..k - 1 : a[i] = q[i]
  OBVIOUS
<1>2. /\ b \in Seq(Rooms) /\ Len(b) = Len(q) - k
      /\ \A i \in 1..Len(q) - k : b[i] = q[k + i]
  <2>1. /\ b \in Seq(Rooms)
        /\ Len(b) = IF k + 1 <= Len(q) THEN Len(q) - (k + 1) + 1 ELSE 0
        /\ \A i \in 1..Len(q) - (k + 1) + 1 : b[i] = q[(k + 1) + i - 1]
    OBVIOUS
  <2> QED BY <2>1
<1> HIDE DEF a, b
<1>3. r = a \o b
  BY DEF RemoveAt, a, b
<1>4. r \in Seq(Rooms) /\ Len(r) = Len(q) - 1
  BY <1>1, <1>2, <1>3
<1>5. ASSUME NEW i \in 1..Len(q) - 1 PROVE r[i] = q[At(i)] /\ At(i) \in 1..Len(q)
  <2>1. CASE i < k
    <3>1. r[i] = a[i]
      BY <1>1, <1>2, <1>3, <2>1
    <3> QED BY <1>1, <2>1, <3>1
  <2>2. CASE ~(i < k)
    <3>1. r[i] = b[i - (k - 1)] /\ i - (k - 1) \in 1..Len(q) - k
      BY <1>1, <1>2, <1>3, <2>2
    <3>2. b[i - (k - 1)] = q[k + (i - (k - 1))] /\ k + (i - (k - 1)) = i + 1
      BY <1>2, <3>1
    <3> QED BY <2>2, <3>1, <3>2
  <2> QED BY <2>1, <2>2
<1>6. ASSUME NEW i \in 1..Len(r), NEW j \in 1..Len(r), r[i] = r[j] PROVE i = j
  <2>1. q[At(i)] = q[At(j)] /\ At(i) \in 1..Len(q) /\ At(j) \in 1..Len(q)
    BY <1>4, <1>5, <1>6
  <2>2. At(i) = At(j)
    BY <2>1 DEF Distinct
  <2> QED BY <2>2
<1>7. Distinct(r)
  BY <1>6 DEF Distinct
<1> QED BY <1>4, <1>7
---------------------------------------------------------------------------
(* Type correctness in four parts                                          *)

Memory   == recent \in Seq(Rooms) /\ Len(recent) <= MaxRecent /\ Distinct(recent)
Buffers  == /\ present \subseteq Rooms
            /\ pending \subseteq present /\ denied \subseteq present
            /\ active \in Rooms \cup {NoRoom} /\ left \subseteq Rooms
Control  == /\ ui \in {"off", "connecting", "on"} /\ intentional \in BOOLEAN
            /\ handle \in {"none", "fresh", "reg"} /\ member \subseteq Rooms
Channels == /\ cmdq \in Seq(Commands) /\ evq \in Seq(RoomEvents \cup SessionEvents)
            /\ joins \in Seq(Rooms) /\ wire \in Seq(RoomCommands)

LEMMA TypeSplit == TypeOK <=> Memory /\ Buffers /\ Control /\ Channels
  BY Zenon DEF TypeOK, Memory, Buffers, Control, Channels, Distinct

\* What a step may do to a queue of S.
Grows(q, r, S) == r = q \/ \E e \in S : r = Append(q, e)

LEMMA GrowsType ==
    ASSUME NEW S, NEW q \in Seq(S), NEW r, Grows(q, r, S) PROVE r \in Seq(S)
  BY DEF Grows

LEMMA TailType ==
    ASSUME NEW S, NEW q \in Seq(S), q # <<>> PROVE Head(q) \in S /\ Tail(q) \in Seq(S)
  OBVIOUS

LEMMA ToSetType == ASSUME NEW S, NEW q \in Seq(S) PROVE ToSet(q) \subseteq S
  BY DEF ToSet

LEMMA AutoJoinType == Memory => AutoJoin \in Seq(Rooms) /\ ToSet(AutoJoin) \subseteq Rooms
<1> SUFFICES ASSUME Memory PROVE AutoJoin \in Seq(Rooms)
  BY ToSetType
<1> QED BY RoomsAssumption DEF Memory, AutoJoin

\* What is sent has the form its reader expects.
LEMMA CommandForms ==
    /\ \A c \in Rooms : Join(c) \in RoomCommands /\ Part(c) \in RoomCommands
    /\ \A c \in RoomCommands : c \in Commands
    /\ Quit \in Commands
    /\ \A q \in Seq(Rooms) : Connect(q) \in Commands
  BY DEF Commands, RoomCommands, Join, Part, Quit, Connect

LEMMA EventForms ==
    /\ \A e \in {"Registered", "EOF", "QuitDone", "Failed"} :
          Plain(e) \in RoomEvents \cup SessionEvents
    /\ \A e \in {"Joined", "Parted", "Denied"}, c \in Rooms :
          About(e, c) \in RoomEvents \cup SessionEvents
  BY DEF RoomEvents, SessionEvents, Plain, About

\* An event about a room names one.
LEMMA RoomIsRoom ==
    ASSUME Channels, Take("Joined") \/ Take("Parted") \/ Take("Denied")
    PROVE  Room \in Rooms
<1>1. Head(evq) \in RoomEvents \cup SessionEvents
  BY DEF Channels, Take
<1> QED BY <1>1 DEF Take, Room, RoomEvents, SessionEvents

\* A line on the wire is about one room.
LEMMA WireForm ==
    ASSUME NEW w \in RoomCommands
    PROVE  w.rooms \in Seq(Rooms) /\ Head(w.rooms) \in Rooms
  BY DEF RoomCommands

---------------------------------------------------------------------------
(* The remembered rooms stay distinct and within the limit                 *)

LEMMA RememberMemory == ASSUME Memory, NEW c \in Rooms, Remember(c) PROVE Memory'
<1> DEFINE q == <<c>> \o recent
           m == IF Len(recent) < MaxRecent THEN Len(recent) + 1 ELSE MaxRecent
<1>1. CASE c \in ToSet(recent)
  BY <1>1 DEF Memory, Remember, Distinct
<1>2. CASE c \notin ToSet(recent)
  <2>1. q \in Seq(Rooms) /\ Len(q) = Len(recent) + 1 /\ Distinct(q)
    BY <1>2, DistinctFront DEF Memory
  <2>2. m \in Nat /\ m <= Len(q) /\ m <= MaxRecent
    BY <2>1, LimitsAssumption DEF Memory
  <2>3. recent' = SubSeq(q, 1, m)
    BY <1>2 DEF Remember
  <2> HIDE DEF q, m
  <2>4. recent' \in Seq(Rooms) /\ Len(recent') = m /\ Distinct(recent')
    BY <2>1, <2>2, <2>3, DistinctPart
  <2> QED BY <2>2, <2>4 DEF Memory, Distinct
<1> QED BY <1>1, <1>2

LEMMA ForgetMemory == ASSUME Memory, NEW c, Forget(c) PROVE Memory'
<1>1. CASE c \notin ToSet(recent)
  BY <1>1 DEF Memory, Forget, Distinct
<1>2. CASE c \in ToSet(recent)
  <2> DEFINE k == CHOOSE i \in 1..Len(recent) : recent[i] = c
  <2>1. \E i \in 1..Len(recent) : recent[i] = c
    BY <1>2 DEF ToSet, Memory
  <2>2. k \in 1..Len(recent)
    BY <2>1
  <2>3. recent' = RemoveAt(recent, k)
    BY <1>2 DEF Forget
  <2> HIDE DEF k
  <2>4. /\ recent' \in Seq(Rooms) /\ Len(recent') = Len(recent) - 1
        /\ Distinct(recent')
    BY <2>2, <2>3, DistinctWithout DEF Memory
  <2> QED BY <2>4, LimitsAssumption DEF Memory, Distinct
<1> QED BY <1>1, <1>2

LEMMA MemoryStep == ASSUME Memory, Channels, Next PROVE Memory'
<1>1. CASE recent' = recent
  BY <1>1 DEF Memory, Distinct
<1>2. CASE \E c \in Rooms : DoPart(c)
  BY <1>2, ForgetMemory DEF DoPart, LeaveRoom
<1>3. CASE OnParted
  BY <1>3, ForgetMemory DEF OnParted, LeaveRoom
<1>4. CASE OnJoined
  BY <1>4, RoomIsRoom, RememberMemory DEF OnJoined
<1>5. CASE \/ SendConnect \/ Disconnect \/ CloseRoom
           \/ \E c \in Rooms : DoJoin(c) \/ OpenRoom(c)
  BY <1>1, <1>5, Zenon DEF SendConnect, Disconnect, CloseRoom, DoJoin, OpenRoom, ClearRooms,
                           roomVars
<1>6. CASE OnRegistered \/ OnDenied \/ OnDisconnected \/ OnFailed
  BY <1>1, <1>6, Zenon DEF OnRegistered, OnDenied, OnDisconnected, OnFailed, ClearRooms,
                           roomVars
<1>7. CASE Net \/ Server
  BY <1>1, <1>7, Zenon DEF Net, Server, NetJoins, NetParts, NetConnects, NetQuits, Registers,
     SessionDies, ServerJoins, ServerParts, ServerReads, ServerKicks, uiVars, roomVars
<1> QED BY <1>2, <1>3, <1>4, <1>5, <1>6, <1>7, Zenon DEF Next, User, UiEvents
---------------------------------------------------------------------------
(* The other three parts                                                   *)

LEMMA BuffersStep == ASSUME Memory, Buffers, Channels, Next PROVE Buffers'
<1> USE DEF Buffers, roomVars, LeaveRoom, DropBuffer, ClearRooms
<1>1. CASE User
  BY <1>1 DEF User, SendConnect, Disconnect, CloseRoom, DoJoin, DoPart, OpenRoom, JoinedRooms
<1>2. CASE OnRegistered
  BY <1>2, AutoJoinType DEF OnRegistered
<1>3. CASE OnJoined \/ OnParted \/ OnDenied
  <2>1. Room \in Rooms
    BY <1>3, RoomIsRoom, Zenon DEF OnJoined, OnParted, OnDenied
  <2> QED BY <1>3, <2>1 DEF OnJoined, OnParted, OnDenied
<1>4. CASE OnDisconnected \/ OnFailed
  BY <1>4 DEF OnDisconnected, OnFailed
<1>5. CASE Net \/ Server
  <2>1. UNCHANGED uiVars
    BY <1>5, Zenon DEF Net, Server, NetJoins, NetParts, NetConnects, NetQuits, Registers,
       SessionDies, ServerJoins, ServerParts, ServerReads, ServerKicks
  <2> QED BY <2>1 DEF uiVars
<1> QED BY <1>1, <1>2, <1>3, <1>4, <1>5 DEF Next, UiEvents

LEMMA ControlStep == ASSUME Control, Channels, Next PROVE Control'
<1> USE DEF Control
<1>1. CASE User
  BY <1>1 DEF User, SendConnect, Disconnect, CloseRoom, DoJoin, DoPart, OpenRoom, netVars
<1>2. CASE UiEvents
  BY <1>2 DEF UiEvents, OnRegistered, OnJoined, OnParted, OnDenied, OnDisconnected, OnFailed,
              netVars
<1>3. CASE Net
  BY <1>3 DEF Net, NetJoins, NetParts, NetConnects, NetQuits, Registers, SessionDies,
              DropSession, uiVars
<1>4. CASE ServerJoins \/ ServerParts
  <2>1. Head(Head(wire).rooms) \in Rooms
    BY <1>4, WireForm, TailType DEF Channels, ServerJoins, ServerParts, ServerReads
  <2> QED BY <1>4, <2>1 DEF ServerJoins, ServerParts, ServerReads, uiVars
<1>5. CASE \E c \in Rooms : ServerKicks(c)
  BY <1>5 DEF ServerKicks, uiVars
<1> QED BY <1>1, <1>2, <1>3, <1>4, <1>5 DEF Next, Server

LEMMA ChannelsStep == ASSUME Memory, Channels, Next PROVE Channels'
<1> DEFINE Events == RoomEvents \cup SessionEvents
<1>1. CASE User
  <2>1. UNCHANGED <<evq, joins, wire>>
    BY <1>1, Zenon DEF User, SendConnect, Disconnect, CloseRoom, DoJoin, DoPart, OpenRoom,
                       netVars
  <2>2. Grows(cmdq, cmdq', Commands)
    <3>1. CASE SendConnect
      BY <3>1, AutoJoinType, CommandForms, Zenon DEF SendConnect, Grows
    <3>2. CASE Disconnect \/ CloseRoom
      BY <3>2, CommandForms, Zenon DEF Disconnect, CloseRoom, Grows
    <3>3. CASE \E c \in Rooms : DoJoin(c) \/ DoPart(c) \/ OpenRoom(c)
      BY <3>3, CommandForms, Zenon DEF DoJoin, DoPart, OpenRoom, Grows
    <3> QED BY <1>1, <3>1, <3>2, <3>3, Zenon DEF User
  <2> QED BY <2>1, <2>2, GrowsType DEF Channels
<1>2. CASE UiEvents
  <2>1. UNCHANGED <<cmdq, joins, wire>> /\ evq # <<>> /\ evq' = Tail(evq)
    BY <1>2, Zenon DEF UiEvents, OnRegistered, OnJoined, OnParted, OnDenied, OnDisconnected,
                       OnFailed, Take, netVars
  <2> QED BY <2>1, TailType DEF Channels
<1>3. CASE NetJoins \/ NetParts
  <2>1. /\ cmdq # <<>> /\ cmdq' = Tail(cmdq) /\ UNCHANGED evq
        /\ Head(cmdq).op \in {"Join", "Part"}
    BY <1>3 DEF NetJoins, NetParts, Read
  <2>2. Head(cmdq) \in RoomCommands
    BY <2>1, TailType DEF Channels, Commands, Connect, Quit
  <2>3. joins' \in Seq(Rooms)
    <3>1. Head(cmdq).rooms \in Seq(Rooms)
      BY <2>2, WireForm
    <3>2. joins' = joins \/ joins' = joins \o Head(cmdq).rooms
      BY <1>3, Zenon DEF NetJoins, NetParts
    <3> QED BY <3>1, <3>2, ConcatProperties, Zenon DEF Channels
  <2>4. Grows(wire, wire', RoomCommands)
    BY <1>3, <2>2, Zenon DEF NetJoins, NetParts, Grows
  <2> QED BY <2>1, <2>3, <2>4, TailType, GrowsType DEF Channels
<1>4. CASE NetConnects \/ NetQuits
  <2>1. cmdq # <<>> /\ cmdq' = Tail(cmdq) /\ wire' = <<>>
    BY <1>4 DEF NetConnects, NetQuits, Read, DropSession
  <2>2. joins' \in Seq(Rooms)
    <3>1. CASE NetConnects
      <4>1. Head(cmdq) \in Commands /\ Head(cmdq).op = "Connect"
        BY <2>1, <3>1, TailType DEF Channels, NetConnects, Read
      <4>2. Head(cmdq).rooms \in Seq(Rooms)
        BY <4>1 DEF Commands, RoomCommands, Quit
      <4> QED BY <3>1, <4>2 DEF NetConnects
    <3>2. CASE NetQuits
      BY <3>2 DEF NetQuits
    <3> QED BY <1>4, <3>1, <3>2
  <2>3. Grows(evq, evq', Events)
    BY <1>4, EventForms, Zenon DEF NetConnects, NetQuits, Post, Grows
  <2> QED BY <2>1, <2>2, <2>3, TailType, GrowsType DEF Channels
<1>5. CASE Registers
  <2>1. [i \in 1..Len(joins) |-> Join(joins[i])] \in Seq(RoomCommands)
    BY CommandForms DEF Channels
  <2>2. wire' \in Seq(RoomCommands) /\ joins' = <<>> /\ cmdq' = cmdq
    BY <1>5, <2>1 DEF Registers, Channels
  <2>3. Grows(evq, evq', Events)
    BY <1>5, EventForms, Zenon DEF Registers, Post, Grows
  <2> QED BY <2>2, <2>3, GrowsType DEF Channels
<1>6. CASE SessionDies
  <2>1. wire' = <<>> /\ joins' = joins /\ cmdq' = cmdq
    BY <1>6 DEF SessionDies, DropSession
  <2>2. Grows(evq, evq', Events)
    BY <1>6, EventForms, Zenon DEF SessionDies, Post, Grows
  <2> QED BY <2>1, <2>2, GrowsType DEF Channels
<1>7. CASE ServerJoins \/ ServerParts
  <2>1. wire # <<>> /\ wire' = Tail(wire) /\ joins' = joins /\ cmdq' = cmdq
    BY <1>7 DEF ServerJoins, ServerParts, ServerReads
  <2>2. Head(Head(wire).rooms) \in Rooms
    BY <2>1, WireForm, TailType DEF Channels
  <2>3. Grows(evq, evq', Events)
    BY <1>7, <2>2, EventForms, Zenon DEF ServerJoins, ServerParts, Post, Grows
  <2> QED BY <2>1, <2>3, TailType, GrowsType DEF Channels
<1>8. CASE \E c \in Rooms : ServerKicks(c)
  <2>1. wire' = wire /\ joins' = joins /\ cmdq' = cmdq
    BY <1>8 DEF ServerKicks
  <2>2. Grows(evq, evq', Events)
    BY <1>8, EventForms, Zenon DEF ServerKicks, Post, Grows
  <2> QED BY <2>1, <2>2, GrowsType DEF Channels
<1> QED BY <1>1, <1>2, <1>3, <1>4, <1>5, <1>6, <1>7, <1>8 DEF Next, Net, Server

\* Every variable keeps its type.  In particular the list of rooms to rejoin
\* never holds a room twice and never outgrows its limit, and no queue carries
\* what its reader cannot handle.
THEOREM TypeCorrect == Spec => []TypeOK
<1>1. Init => TypeOK
  <2> SUFFICES ASSUME Init PROVE Memory /\ Buffers /\ Control /\ Channels
    BY TypeSplit
  <2>1. Memory
    BY LimitsAssumption DEF Init, Memory, Distinct
  <2>2. Buffers
    BY DEF Init, Buffers
  <2>3. Control
    BY Zenon DEF Init, Control
  <2>4. Channels
    BY DEF Init, Channels
  <2> QED BY <2>1, <2>2, <2>3, <2>4
<1>2. TypeOK /\ [Next]_vars => TypeOK'
  <2>1. CASE UNCHANGED vars
    BY <2>1 DEF TypeOK, vars, uiVars, netVars, roomVars
  <2>2. CASE Next
    <3> SUFFICES ASSUME TypeOK PROVE Memory' /\ Buffers' /\ Control' /\ Channels'
      BY <2>2, TypeSplit, PTL
    <3> QED BY <2>2, TypeSplit, MemoryStep, BuffersStep, ControlStep, ChannelsStep
  <2> QED BY <2>1, <2>2
<1> QED BY <1>1, <1>2, PTL DEF Spec

---------------------------------------------------------------------------
(* The open chat                                                           *)

LEMMA ActiveStep == ASSUME ActivePresent, Next PROVE ActivePresent'
<1> USE RoomsAssumption DEF ActivePresent, roomVars, LeaveRoom, DropBuffer, ClearRooms
<1>1. CASE User
  BY <1>1 DEF User, SendConnect, Disconnect, CloseRoom, DoJoin, DoPart, OpenRoom, JoinedRooms
<1>2. CASE UiEvents
  BY <1>2 DEF UiEvents, OnRegistered, OnJoined, OnParted, OnDenied, OnDisconnected, OnFailed
<1>3. CASE Net \/ Server
  <2>1. UNCHANGED uiVars
    BY <1>3, Zenon DEF Net, Server, NetJoins, NetParts, NetConnects, NetQuits, Registers,
       SessionDies, ServerJoins, ServerParts, ServerReads, ServerKicks
  <2> QED BY <2>1 DEF uiVars
<1> QED BY <1>1, <1>2, <1>3 DEF Next

\* No leave, kick, denial, late event or dropped session leaves the user in a
\* chat whose buffer is gone.
THEOREM ActiveCorrect == Spec => []ActivePresent
<1>1. Init => ActivePresent
  BY DEF Init, ActivePresent
<1>2. ActivePresent /\ [Next]_vars => ActivePresent'
  <2>1. ActivePresent /\ UNCHANGED vars => ActivePresent'
    BY DEF ActivePresent, vars, uiVars, roomVars
  <2> QED BY <2>1, ActiveStep
<1> QED BY <1>1, <1>2, PTL DEF Spec

---------------------------------------------------------------------------
(* The rooms the server has the user in                                    *)

\* An event takes the room off the list of joined ones.
Upsets(e, c) ==
    \/ e.ev \in {"EOF", "QuitDone"}
    \/ e.ev \in {"Parted", "Denied"} /\ e.room = c

\* No event after the k-th does.
Calm(c, k) == \A i \in 1..Len(evq) : i > k => ~Upsets(evq[i], c)

\* The room is shown and remembered for good, will be by an event that is on its
\* way, or a command that decides about it is.
Settled(c)  == c \in JoinedRooms /\ (RoomsFit => c \in ToSet(recent)) /\ Calm(c, 0)
Settling(c) == \E k \in 1..Len(evq) : evq[k] = About("Joined", c) /\ Calm(c, k)
Ahead(c) ==
    \/ Quit \in ToSet(cmdq)
    \/ Join(c) \in ToSet(cmdq) \cup ToSet(wire)
    \/ Part(c) \in ToSet(cmdq) \cup ToSet(wire)

Accounted(c) == Ahead(c) \/ Settling(c) \/ Settled(c)

MemberInv ==
    /\ handle # "reg" => member = {}
    /\ \A c \in member : Accounted(c)

LEMMA AsSet ==
    ASSUME NEW S, NEW q \in Seq(S)
    PROVE  \A x : x \in ToSet(q) <=> \E i \in 1..Len(q) : q[i] = x
<1>1. DOMAIN q = 1..Len(q)
  OBVIOUS
<1> QED BY <1>1 DEF ToSet

\* What a queue holds when something is put into it or taken out
LEMMA QueueSet ==
    ASSUME NEW S, NEW q \in Seq(S)
    PROVE  /\ \A e \in S : ToSet(Append(q, e)) = ToSet(q) \cup {e}
           /\ q # <<>> => ToSet(q) = ToSet(Tail(q)) \cup {Head(q)}
           /\ \A r \in Seq(S) : ToSet(q) \subseteq ToSet(q \o r)
<1>1. ASSUME NEW e \in S PROVE ToSet(Append(q, e)) = ToSet(q) \cup {e}
  <2>1. /\ Len(Append(q, e)) = Len(q) + 1 /\ Len(q) \in Nat
        /\ \A i \in 1..Len(q) : Append(q, e)[i] = q[i]
        /\ Append(q, e)[Len(q) + 1] = e
    OBVIOUS
  <2> QED BY <2>1 DEF ToSet
<1>2. ASSUME q # <<>> PROVE ToSet(q) = ToSet(Tail(q)) \cup {Head(q)}
  <2>1. /\ Len(Tail(q)) = Len(q) - 1 /\ Len(q) \in Nat /\ Len(q) >= 1 /\ Head(q) = q[1]
        /\ \A i \in 1..Len(q) - 1 : Tail(q)[i] = q[i + 1]
    BY <1>2
  <2>2. ASSUME NEW x \in ToSet(q) PROVE x \in ToSet(Tail(q)) \cup {Head(q)}
    <3>1. PICK i \in 1..Len(q) : q[i] = x
      BY DEF ToSet
    <3>2. CASE i = 1
      BY <2>1, <3>1, <3>2
    <3>3. CASE i # 1
      <4>1. i - 1 \in 1..Len(q) - 1 /\ (i - 1) + 1 = i
        BY <2>1, <3>3
      <4>2. i - 1 \in 1..Len(Tail(q)) /\ Tail(q)[i - 1] = x /\ Tail(q) \in Seq(S)
        BY <1>2, <2>1, <3>1, <4>1
      <4> QED BY <4>2, AsSet
    <3> QED BY <3>2, <3>3
  <2>3. ASSUME NEW x \in ToSet(Tail(q)) PROVE x \in ToSet(q)
    <3>1. PICK i \in 1..Len(q) - 1 : Tail(q)[i] = x
      BY <2>1 DEF ToSet
    <3>2. i + 1 \in 1..Len(q) /\ q[i + 1] = x
      BY <2>1, <3>1
    <3> QED BY <3>2 DEF ToSet
  <2>4. Head(q) \in ToSet(q)
    BY <2>1 DEF ToSet
  <2> QED BY <2>2, <2>3, <2>4
<1>3. ASSUME NEW r \in Seq(S) PROVE ToSet(q) \subseteq ToSet(q \o r)
  <2>1. /\ Len(q \o r) = Len(q) + Len(r) /\ Len(q) \in Nat /\ Len(r) \in Nat
        /\ \A i \in 1..Len(q) : (q \o r)[i] = q[i]
    OBVIOUS
  <2> QED BY <2>1 DEF ToSet
<1> QED BY <1>1, <1>2, <1>3

\* An event that is posted
LEMMA Posted ==
    ASSUME Channels, NEW e \in RoomEvents \cup SessionEvents, evq' = Append(evq, e), NEW c
    PROVE  /\ ~Upsets(e, c) /\ Settling(c) => Settling(c)'
           /\ ~Upsets(e, c) /\ Calm(c, 0) => Calm(c, 0)'
           /\ e = About("Joined", c) => Settling(c)'
<1>1. /\ Len(evq') = Len(evq) + 1 /\ Len(evq) \in Nat /\ evq'[Len(evq) + 1] = e
      /\ \A i \in 1..Len(evq) : evq'[i] = evq[i]
      /\ \A i \in 1..Len(evq') : i \in 1..Len(evq) \/ i = Len(evq) + 1
  BY DEF Channels
<1>2. ASSUME ~Upsets(e, c), NEW k \in Nat, Calm(c, k) PROVE Calm(c, k)'
  BY <1>1, <1>2 DEF Calm
<1>3. ASSUME ~Upsets(e, c), Settling(c) PROVE Settling(c)'
  <2>1. PICK k \in 1..Len(evq) : evq[k] = About("Joined", c) /\ Calm(c, k)
    BY <1>3 DEF Settling
  <2>2. Calm(c, k)' /\ k \in 1..Len(evq') /\ evq'[k] = About("Joined", c)
    BY <1>1, <1>2, <1>3, <2>1
  <2> QED BY <2>2 DEF Settling
<1>4. ASSUME e = About("Joined", c) PROVE Settling(c)'
  <2>1. PICK k \in Nat : k = Len(evq) + 1
    BY <1>1
  <2>2. Calm(c, k)' /\ k \in 1..Len(evq') /\ evq'[k] = About("Joined", c)
    BY <1>1, <1>4, <2>1 DEF Calm
  <2> QED BY <2>2 DEF Settling
<1> QED BY <1>2, <1>3, <1>4

\* An event that is handled
LEMMA Handled ==
    ASSUME Channels, evq # <<>>, evq' = Tail(evq), NEW c
    PROVE  /\ Settling(c) => Settling(c)' \/ (Head(evq) = About("Joined", c) /\ Calm(c, 0)')
           /\ Calm(c, 0) => Calm(c, 0)' /\ ~Upsets(Head(evq), c)
<1>1. /\ Len(evq') = Len(evq) - 1 /\ Len(evq) \in Nat /\ Len(evq) >= 1 /\ Head(evq) = evq[1]
      /\ \A i \in 1..Len(evq') : evq'[i] = evq[i + 1] /\ i + 1 \in 1..Len(evq)
  BY DEF Channels
<1>2. ASSUME NEW k \in Nat, Calm(c, k + 1) PROVE Calm(c, k)'
  BY <1>1, <1>2 DEF Calm
<1>3. ASSUME Settling(c)
      PROVE  Settling(c)' \/ (Head(evq) = About("Joined", c) /\ Calm(c, 0)')
  <2>1. PICK k \in 1..Len(evq) : evq[k] = About("Joined", c) /\ Calm(c, k)
    BY <1>3 DEF Settling
  <2>2. CASE k = 1
    BY <1>1, <1>2, <2>1, <2>2
  <2>3. CASE k # 1
    <3>1. k - 1 \in 1..Len(evq') /\ (k - 1) + 1 = k /\ k - 1 \in Nat
      BY <1>1, <2>3
    <3>2. evq'[k - 1] = About("Joined", c) /\ Calm(c, k - 1)'
      BY <1>1, <1>2, <2>1, <3>1
    <3> QED BY <3>1, <3>2 DEF Settling
  <2> QED BY <2>2, <2>3
<1>4. ASSUME Calm(c, 0) PROVE Calm(c, 0)' /\ ~Upsets(Head(evq), c)
  BY <1>1, <1>4 DEF Calm
<1> QED BY <1>3, <1>4

\* Forgetting a room keeps the others, remembering one keeps them if they fit.
LEMMA ForgetKeeps ==
    ASSUME Memory, NEW d, Forget(d), NEW c \in ToSet(recent), c # d
    PROVE  c \in ToSet(recent')
<1>1. CASE d \notin ToSet(recent)
  BY <1>1 DEF Forget
<1>2. CASE d \in ToSet(recent)
  <2> DEFINE k == CHOOSE i \in 1..Len(recent) : recent[i] = d
             a == SubSeq(recent, 1, k - 1)
             b == SubSeq(recent, k + 1, Len(recent))
  <2>1. k \in 1..Len(recent) /\ recent[k] = d
    <3>1. \E i \in 1..Len(recent) : recent[i] = d
      BY <1>2 DEF ToSet
    <3> QED BY <3>1
  <2>2. recent' = RemoveAt(recent, k)
    BY <1>2 DEF Forget
  <2> HIDE DEF k
  <2>3. PICK i \in 1..Len(recent) : recent[i] = c
    BY DEF ToSet
  <2>4. a \in Seq(Rooms) /\ Len(a) = k - 1 /\ \A j \in 1..k - 1 : a[j] = recent[j]
    BY <2>1 DEF Memory
  <2>5. /\ b \in Seq(Rooms) /\ Len(b) = Len(recent) - k
        /\ \A j \in 1..Len(recent) - k : b[j] = recent[k + j]
    <3>1. /\ b \in Seq(Rooms)
          /\ Len(b) = IF k + 1 <= Len(recent) THEN Len(recent) - (k + 1) + 1 ELSE 0
          /\ \A j \in 1..Len(recent) - (k + 1) + 1 : b[j] = recent[(k + 1) + j - 1]
      BY <2>1 DEF Memory
    <3> QED BY <2>1, <3>1 DEF Memory
  <2> HIDE DEF a, b
  <2>6. recent' = a \o b
    BY <2>2 DEF RemoveAt, a, b
  <2>7. Len(recent) \in Nat /\ Len(a \o b) = Len(a) + Len(b)
        /\ a \o b \in Seq(Rooms)
        /\ \A j \in 1..Len(a) + Len(b) :
              (a \o b)[j] = IF j <= Len(a) THEN a[j] ELSE b[j - Len(a)]
    <3>1. a \in Seq(Rooms) /\ b \in Seq(Rooms)
      BY <2>4, <2>5
    <3>2. /\ a \o b \in Seq(Rooms)
          /\ Len(a \o b) = Len(a) + Len(b)
          /\ \A j \in 1 .. Len(a) + Len(b) :
                (a \o b)[j] = IF j <= Len(a) THEN a[j] ELSE b[j - Len(a)]
      BY <3>1, ConcatProperties
    <3> QED BY <3>2 DEF Memory
  <2> SUFFICES \E j \in 1..Len(a \o b) : (a \o b)[j] = c
    BY <2>6, <2>7, AsSet
  <2>8. CASE i < k
    <3>1. i \in 1..Len(a \o b) /\ (a \o b)[i] = c
      BY <2>1, <2>3, <2>4, <2>5, <2>7, <2>8
    <3> QED BY <3>1
  <2>9. CASE i > k
    <3>1. i - k \in 1..Len(recent) - k /\ k + (i - k) = i /\ i - k = (i - 1) - (k - 1)
          /\ i - 1 \in Nat /\ ~(i - 1 <= k - 1) /\ i - 1 >= 1
      BY <2>1, <2>3, <2>7, <2>9
    <3>2. b[i - k] = c /\ i - 1 \in 1..Len(a) + Len(b)
      BY <2>1, <2>3, <2>4, <2>5, <2>7, <3>1
    <3>3. i - 1 \in 1..Len(a \o b) /\ (a \o b)[i - 1] = c
      BY <2>4, <2>7, <3>1, <3>2
    <3> QED BY <3>3
  <2> QED BY <2>1, <2>3, <2>8, <2>9
<1> QED BY <1>1, <1>2

LEMMA RememberKeeps ==
    ASSUME Memory, RoomsFit, NEW d \in Rooms, Remember(d)
    PROVE  ToSet(recent) \cup {d} \subseteq ToSet(recent')
<1>1. CASE d \in ToSet(recent)
  BY <1>1 DEF Remember
<1>2. CASE d \notin ToSet(recent)
  <2> DEFINE q == <<d>> \o recent
  <2>1. q \in Seq(Rooms) /\ Len(q) = Len(recent) + 1 /\ Distinct(q)
    BY <1>2, DistinctFront DEF Memory
  <2>2. q[1] = d /\ \A i \in 1..Len(recent) : q[i + 1] = recent[i]
    BY DEF Memory
  <2> HIDE DEF q
  <2>3. Len(q) <= Cardinality(Rooms)
    <3> SUFFICES ASSUME ~(Len(q) <= Cardinality(Rooms)) PROVE FALSE
      OBVIOUS
    <3> DEFINE n == Len(q)
    <3>1. n \in Nat /\ q \in [1..n -> Rooms] /\ IsFiniteSet(Rooms) /\ Cardinality(Rooms) \in Nat
      BY <2>1, FS_CardinalityType DEF RoomsFit
    <3>2. IsFiniteSet(1..n) /\ Cardinality(1..n) = n
      <4>1. 1 \in Int /\ n \in Int
        BY <3>1
      <4>2. IsFiniteSet(1..n) /\ Cardinality(1..n) = IF 1 > n THEN 0 ELSE n - 1 + 1
        BY <4>1, FS_Interval
      <4> QED BY <3>1, <4>2
    <3> HIDE DEF n
    <3>3. Cardinality(Rooms) < Cardinality(1..n)
      BY <3>1, <3>2 DEF n
    <3>4. \E x, y \in 1..n : x # y /\ q[x] = q[y]
      BY <3>1, <3>2, <3>3, FS_PigeonHole
    <3> QED BY <2>1, <3>4 DEF Distinct, n
  <2>4. Len(recent) \in Nat /\ MaxRecent \in Nat /\ Len(recent) < MaxRecent
    BY <2>1, <2>3, FS_CardinalityType, LimitsAssumption DEF RoomsFit, Memory
  <2>5. recent' = SubSeq(q, 1, Len(recent) + 1)
    BY <1>2, <2>4 DEF Remember, q
  <2>6. Len(recent') = Len(recent) + 1 /\ \A i \in 1..Len(recent) + 1 : recent'[i] = q[i]
    BY <2>1, <2>4, <2>5
  <2>7. d \in ToSet(recent')
    <3>1. 1 \in 1..Len(recent') /\ recent'[1] = d
      BY <2>2, <2>4, <2>6
    <3> QED BY <3>1 DEF ToSet
  <2>8. ASSUME NEW c \in ToSet(recent) PROVE c \in ToSet(recent')
    <3>1. PICK i \in 1..Len(recent) : recent[i] = c
      BY DEF ToSet
    <3>2. i + 1 \in 1..Len(recent') /\ recent'[i + 1] = c
      BY <2>2, <2>4, <2>6, <3>1
    <3> QED BY <3>2 DEF ToSet
  <2> QED BY <2>7, <2>8
<1> QED BY <1>1, <1>2

\* A step after which an event that is on its way still is
Quiet == Channels /\ evq' = evq
LEMMA QuietKeeps == ASSUME Quiet, NEW c PROVE Settling(c)' = Settling(c) /\ Calm(c, 0)' = Calm(c, 0)
BY DEF Quiet, Settling, Calm

LEMMA MemberUser == ASSUME Memory, Channels, Buffers, MemberInv, User PROVE MemberInv'
<1>1. /\ UNCHANGED <<evq, wire, member, handle>>
      /\ cmdq' = cmdq \/ \E e \in Commands : cmdq' = Append(cmdq, e)
  <2>1. UNCHANGED <<evq, wire, member, handle>>
    BY Zenon DEF User, SendConnect, Disconnect, CloseRoom, DoJoin, DoPart, OpenRoom, netVars
  <2>2. CASE SendConnect
    BY <2>1, <2>2, AutoJoinType, CommandForms, Zenon DEF SendConnect
  <2>3. CASE Disconnect \/ CloseRoom
    BY <2>1, <2>3, CommandForms, Zenon DEF Disconnect, CloseRoom
  <2>4. CASE \E c \in Rooms : DoJoin(c) \/ DoPart(c) \/ OpenRoom(c)
    BY <2>1, <2>4, CommandForms, Zenon DEF DoJoin, DoPart, OpenRoom
  <2> QED BY <2>2, <2>3, <2>4, Zenon DEF User
<1>2. ToSet(cmdq) \subseteq ToSet(cmdq')
  <2>1. \A e \in Commands : ToSet(cmdq) \subseteq ToSet(Append(cmdq, e))
    BY QueueSet DEF Channels
  <2> QED BY <1>1, <2>1
<1> SUFFICES ASSUME NEW c \in member, Accounted(c) PROVE Accounted(c)'
  BY <1>1 DEF MemberInv
<1>3. CASE Ahead(c)
  BY <1>1, <1>2, <1>3 DEF Ahead, Accounted
<1>4. CASE Settling(c)
  BY <1>1, <1>4, QuietKeeps DEF Quiet, Accounted
<1>5. CASE Settled(c)
  <2>1. /\ Calm(c, 0)' /\ c \in JoinedRooms /\ (RoomsFit => c \in ToSet(recent))
        /\ RoomsFit' = RoomsFit
    BY <1>1, <1>5, QuietKeeps DEF Quiet, Settled, RoomsFit
  <2>2. \A e \in Commands : cmdq' = Append(cmdq, e) => e \in ToSet(cmdq')
    BY QueueSet DEF Channels
  <2>3. CASE Disconnect
    BY <2>2, <2>3, CommandForms DEF Disconnect, Ahead, Accounted
  <2>4. CASE SendConnect \/ CloseRoom \/ \E d \in Rooms : OpenRoom(d)
    <3>1. UNCHANGED <<present, pending, denied, recent>>
      BY <2>4 DEF SendConnect, CloseRoom, OpenRoom, roomVars
    <3> QED BY <2>1, <3>1 DEF Settled, JoinedRooms, Accounted
  <2>5. ASSUME NEW d \in Rooms, DoJoin(d) PROVE Accounted(c)'
    <3>1. CASE c = d
      BY <2>2, <2>5, <3>1, CommandForms DEF DoJoin, Ahead, Accounted
    <3>2. CASE c # d
      <4>1. c \in JoinedRooms' /\ recent' = recent
        BY <2>1, <2>5, <3>2 DEF DoJoin, JoinedRooms
      <4> QED BY <2>1, <4>1 DEF Settled, Accounted
    <3> QED BY <3>1, <3>2
  <2>6. ASSUME NEW d \in Rooms, DoPart(d) PROVE Accounted(c)'
    <3>1. CASE c = d
      BY <2>1, <2>2, <2>6, <3>1, CommandForms DEF DoPart, Ahead, Accounted
    <3>2. CASE c # d
      <4>1. c \in JoinedRooms' /\ Forget(d)
        BY <2>1, <2>6, <3>2 DEF DoPart, LeaveRoom, DropBuffer, JoinedRooms
      <4>2. c \in ToSet(recent) => c \in ToSet(recent')
        BY <3>2, <4>1, ForgetKeeps
      <4> QED BY <2>1, <4>1, <4>2 DEF Settled, Accounted
    <3> QED BY <3>1, <3>2
  <2> QED BY <2>3, <2>4, <2>5, <2>6 DEF User
<1> QED BY <1>3, <1>4, <1>5 DEF Accounted

LEMMA MemberEvent == ASSUME Memory, Channels, Buffers, MemberInv, UiEvents PROVE MemberInv'
<1>1. UNCHANGED <<cmdq, wire, member, handle>> /\ evq # <<>> /\ evq' = Tail(evq)
  BY Zenon DEF UiEvents, OnRegistered, OnJoined, OnParted, OnDenied, OnDisconnected, OnFailed,
               Take, netVars
<1> SUFFICES ASSUME NEW c \in member, Accounted(c) PROVE Accounted(c)'
  BY <1>1 DEF MemberInv
<1>2. CASE Ahead(c)
  BY <1>1, <1>2 DEF Ahead, Accounted
<1>3. CASE Head(evq) = About("Joined", c) /\ Calm(c, 0)'
  <2>1. Head(evq).ev = "Joined" /\ Head(evq).room = c
    BY <1>3 DEF About
  <2>2. OnJoined /\ Room = c
    BY <2>1 DEF UiEvents, OnRegistered, OnParted, OnDenied, OnDisconnected, OnFailed, Take, Room
  <2>3. c \in Rooms
    BY <2>2, RoomIsRoom DEF OnJoined
  <2>4. c \in JoinedRooms' /\ Remember(c)
    BY <2>2 DEF OnJoined, JoinedRooms
  <2> QED BY <1>3, <2>3, <2>4, RememberKeeps DEF Settled, Accounted, RoomsFit
<1>4. CASE Settled(c)
  <2>1. Calm(c, 0)' /\ ~Upsets(Head(evq), c) /\ c \in JoinedRooms
        /\ (RoomsFit => c \in ToSet(recent)) /\ RoomsFit' = RoomsFit
    BY <1>1, <1>4, Handled DEF Settled, RoomsFit
  <2>2. ASSUME c \in JoinedRooms', RoomsFit /\ c \in ToSet(recent) => c \in ToSet(recent')
        PROVE  Accounted(c)'
    BY <2>1, <2>2 DEF Settled, Accounted
  <2>3. CASE OnRegistered
    BY <2>1, <2>2, <2>3 DEF OnRegistered, JoinedRooms
  <2>4. CASE OnJoined
    <3>1. Room \in Rooms /\ Remember(Room) /\ c \in JoinedRooms'
      BY <2>1, <2>4, RoomIsRoom DEF OnJoined, JoinedRooms
    <3> QED BY <2>2, <3>1, RememberKeeps
  <2>5. CASE OnParted
    <3>1. Room # c
      BY <2>1, <2>5 DEF OnParted, Take, Room, Upsets
    <3>2. Forget(Room) /\ c \in JoinedRooms'
      BY <2>1, <2>5, <3>1 DEF OnParted, LeaveRoom, DropBuffer, JoinedRooms
    <3>3. c \in ToSet(recent) => c \in ToSet(recent')
      BY <3>1, <3>2, ForgetKeeps
    <3> QED BY <2>2, <3>2, <3>3
  <2>6. CASE OnDenied
    <3>1. Room # c
      BY <2>1, <2>6 DEF OnDenied, Take, Room, Upsets
    <3> QED BY <2>1, <2>2, <2>6, <3>1 DEF OnDenied, DropBuffer, JoinedRooms
  <2>7. CASE OnDisconnected
    BY <2>1, <2>7 DEF OnDisconnected, Take, Upsets
  <2>8. CASE OnFailed
    BY <2>1, <2>2, <2>8 DEF OnFailed, roomVars, JoinedRooms
  <2> QED BY <2>3, <2>4, <2>5, <2>6, <2>7, <2>8 DEF UiEvents
<1>5. CASE Settling(c)
  BY <1>1, <1>3, <1>5, Handled DEF Accounted
<1> QED BY <1>2, <1>4, <1>5 DEF Accounted

LEMMA MemberNet == ASSUME Memory, Channels, Control, MemberInv, Net PROVE MemberInv'
<1>1. CASE NetConnects \/ NetQuits \/ SessionDies
  <2>1. member' = {}
    BY <1>1 DEF NetConnects, NetQuits, SessionDies, DropSession
  <2> QED BY <2>1 DEF MemberInv
<1>2. CASE Registers
  <2>1. member' = {}
    BY <1>2 DEF Registers, MemberInv
  <2> QED BY <2>1 DEF MemberInv
<1>3. CASE NetJoins \/ NetParts
  <2>1. /\ UNCHANGED <<present, pending, denied, recent, evq, member, handle>>
        /\ cmdq # <<>> /\ cmdq' = Tail(cmdq) /\ Head(cmdq).op \in {"Join", "Part"}
        /\ handle # "none" => wire' = Append(wire, Head(cmdq))
    BY <1>3 DEF NetJoins, NetParts, Read, uiVars, roomVars
  <2>2. Head(cmdq) \in RoomCommands /\ Head(cmdq) # Quit
    BY <2>1, TailType DEF Channels, Commands, Connect, Quit
  <2> SUFFICES ASSUME NEW c \in member, Accounted(c) PROVE Accounted(c)'
    BY <2>1 DEF MemberInv
  <2>3. wire' = Append(wire, Head(cmdq))
    BY <2>1 DEF MemberInv
  <2>4. ToSet(cmdq) = ToSet(cmdq') \cup {Head(cmdq)} /\ ToSet(wire') = ToSet(wire) \cup {Head(cmdq)}
    BY <2>1, <2>2, <2>3, QueueSet DEF Channels
  <2>5. CASE Ahead(c)
    BY <2>2, <2>4, <2>5 DEF Ahead, Accounted
  <2>6. CASE Settling(c) \/ Settled(c)
    BY <2>1, <2>6, QuietKeeps DEF Quiet, Settled, JoinedRooms, RoomsFit, Accounted
  <2> QED BY <2>5, <2>6 DEF Accounted
<1> QED BY <1>1, <1>2, <1>3 DEF Net

LEMMA MemberServer == ASSUME Memory, Channels, Control, MemberInv, Server PROVE MemberInv'
<1>1. UNCHANGED <<present, pending, denied, recent, cmdq, handle>> /\ handle = "reg"
  BY DEF Server, ServerJoins, ServerParts, ServerReads, ServerKicks, uiVars, roomVars, MemberInv
<1> SUFFICES ASSUME NEW c \in member' PROVE Accounted(c)'
  BY <1>1 DEF MemberInv
<1>2. ASSUME NEW e \in RoomEvents, evq' = Append(evq, e), ~Upsets(e, c),
             Settling(c) \/ Settled(c)
      PROVE  Accounted(c)'
  BY <1>1, <1>2, Posted DEF Settled, JoinedRooms, RoomsFit, Accounted
<1>3. CASE ServerJoins \/ ServerParts
  <2> DEFINE w == Head(wire)
             d == Head(w.rooms)
  <2>1. /\ wire # <<>> /\ wire' = Tail(wire) /\ w \in RoomCommands
        /\ ToSet(wire) = ToSet(wire') \cup {w}
    BY <1>3, QueueSet, TailType DEF ServerJoins, ServerParts, ServerReads, Channels
  <2>2. d \in Rooms /\ w \in {Join(d), Part(d)}
    BY <2>1 DEF RoomCommands, Join, Part
  <2>3. ASSUME c # d, Ahead(c) PROVE Accounted(c)'
    <3>1. w # Join(c) /\ w # Part(c)
      BY <2>2, <2>3 DEF Join, Part
    <3> QED BY <1>1, <2>1, <2>3, <3>1 DEF Ahead, Accounted
  <2> HIDE DEF d
  <2>4. CASE ServerJoins
    <3>1. \/ member' = member \cup {d} /\ evq' = Append(evq, About("Joined", d))
          \/ d \notin member /\ member' = member /\ evq' = Append(evq, About("Denied", d))
      BY <2>4 DEF ServerJoins, Post, d
    <3>2. About("Joined", d) \in RoomEvents /\ About("Denied", d) \in RoomEvents
      BY <2>2 DEF About, RoomEvents
    <3>3. CASE c = d
      <4>1. evq' = Append(evq, About("Joined", c))
        BY <3>1, <3>3
      <4> QED BY <3>2, <3>3, <4>1, Posted DEF Accounted
    <3>4. CASE c # d
      <4>1. c \in member /\ Accounted(c)
        BY <3>1, <3>4 DEF MemberInv
      <4>2. ~Upsets(About("Joined", d), c) /\ ~Upsets(About("Denied", d), c)
        BY <3>4 DEF Upsets, About
      <4> QED BY <1>2, <2>3, <3>1, <3>2, <3>4, <4>1, <4>2 DEF Accounted
    <3> QED BY <3>3, <3>4
  <2>5. CASE ServerParts
    <3>1. \/ member' = member \ {d} /\ evq' = Append(evq, About("Parted", d))
          \/ d \notin member /\ member' = member /\ evq' = evq
      BY <2>5 DEF ServerParts, Post, d
    <3>2. About("Parted", d) \in RoomEvents
      BY <2>2 DEF About, RoomEvents
    <3>3. c # d /\ c \in member /\ Accounted(c)
      BY <3>1 DEF MemberInv
    <3>4. ~Upsets(About("Parted", d), c)
      BY <3>3 DEF Upsets, About
    <3>5. CASE evq' = evq
      BY <1>1, <2>3, <3>3, <3>5, QuietKeeps DEF Quiet, Settled, JoinedRooms, RoomsFit, Accounted
    <3> QED BY <1>2, <2>3, <3>1, <3>2, <3>3, <3>4, <3>5 DEF Accounted
  <2> QED BY <1>3, <2>4, <2>5
<1>4. ASSUME NEW d \in Rooms, ServerKicks(d) PROVE Accounted(c)'
  <2>1. /\ member' = member \ {d} /\ evq' = Append(evq, About("Parted", d)) /\ wire' = wire
    BY <1>4 DEF ServerKicks, Post
  <2>2. c # d /\ Accounted(c)
    BY <2>1 DEF MemberInv
  <2>3. About("Parted", d) \in RoomEvents /\ ~Upsets(About("Parted", d), c)
    BY <2>2 DEF About, RoomEvents, Upsets
  <2>4. CASE Ahead(c)
    BY <1>1, <2>1, <2>4 DEF Ahead, Accounted
  <2> QED BY <1>2, <2>1, <2>2, <2>3, <2>4 DEF Accounted
<1> QED BY <1>3, <1>4 DEF Server

LEMMA MemberInductive == Spec => []MemberInv
<1>1. Init => MemberInv
  BY DEF Init, MemberInv
<1>2. TypeOK /\ MemberInv /\ [Next]_vars => MemberInv'
  <2> SUFFICES ASSUME TypeOK, MemberInv, [Next]_vars PROVE MemberInv'
    OBVIOUS
  <2>1. Memory /\ Buffers /\ Control /\ Channels
    BY TypeSplit
  <2>2. CASE Next
    BY <2>1, <2>2, MemberUser, MemberEvent, MemberNet, MemberServer DEF Next
  <2>3. CASE UNCHANGED vars
    <3>1. UNCHANGED <<present, pending, denied, recent, cmdq, evq, wire, handle, member>>
      BY <2>3 DEF vars, uiVars, netVars, roomVars
    <3> QED BY <3>1 DEF MemberInv, Accounted, Ahead, Settling, Settled, Calm, JoinedRooms, RoomsFit
  <2> QED BY <2>2, <2>3
<1> QED BY <1>1, <1>2, TypeCorrect, PTL DEF Spec

LEMMA AtRestSettled == ASSUME AtRest, MemberInv, NEW c \in member PROVE Settled(c)
<1>1. Len(<<>>) = 0 /\ 1..0 = {} /\ ToSet(<<>>) = {}
  BY DEF ToSet
<1>2. ~Ahead(c) /\ ~Settling(c)
  BY <1>1 DEF AtRest, Ahead, Settling
<1> QED BY <1>2 DEF MemberInv, Accounted

\* When nothing is on its way, every room the server has the user in is in the
\* chat list as joined, for every set of rooms, however joins, leaves, kicks,
\* denials and lost sessions crossed.
THEOREM MembersShownCorrect == Spec => []MembersShown
<1>1. MemberInv => MembersShown
  BY AtRestSettled DEF MembersShown, Settled
<1> QED BY <1>1, MemberInductive, PTL

\* ... and it is among the rooms the app joins after a reconnect, if the rooms
\* fit in that list.
THEOREM MembersRememberedCorrect == Spec => []MembersRemembered
<1>1. MemberInv => MembersRemembered
  BY AtRestSettled DEF MembersRemembered, Settled
<1> QED BY <1>1, MemberInductive, PTL
=============================================================================
