---------------------------- MODULE AvCall_proofs ----------------------------
(***************************************************************************)
(* Theorems about AvCall for every value of its constants: any number of   *)
(* rooms, calls, peers, toggles, failures and lost connections.            *)
(***************************************************************************)
EXTENDS AvCall, QueueFacts

---------------------------------------------------------------------------
(* What travels                                                            *)

Commands == [k : {"start"}, chan : Rooms]
            \cup [k : {"join"}, chan : Rooms, sid : Sids \ {0}]
            \cup [k : {"leave"}, chan : Rooms, sid : Sids]
            \cup [k : {"dial"}, sid : Sids, muted : BOOLEAN, camera : BOOLEAN]
            \cup [k : {"mute", "camera"}, on : BOOLEAN]
            \cup [k : {"stop", "connect"}]

Tokens  == [k : {"token"}, sid : Sids \ {0}]
Answers == Tokens
           \cup [k : {"collision"}, chan : Rooms, sid : Sids \ {0}]
           \cup [k : {"joinfailed"}, sid : Sids]
           \cup [k : {"state"}, chan : Rooms, sid : Sids \ {0},
                 act : {"started", "joined", "left", "ended"}]
Lines   == Answers \cup [k : {"gone"}]
Events  == Answers
           \cup [k : {"signal"}, chan : Rooms, sid : Sids]
           \cup [k : {"status"}, st : Media, cam : BOOLEAN, mic : BOOLEAN]
           \cup [k : {"claimfailed", "notconnected", "disconnected", "online"}]

Prefs == [muted : BOOLEAN, camera : BOOLEAN]

UiTypes    == /\ lc \in Call \cup {NoCall} /\ redial \in BOOLEAN /\ pref \in Prefs
               /\ shown \in BOOLEAN /\ roster \in [Rooms -> Sids]
OtherTypes == left \in Budget /\ odd \subseteq {"hurried", "offline", "early"}

LEMMA Names ==
    /\ \A c \in Rooms : [k |-> "start", chan |-> c] \in Commands
    /\ \A c \in Rooms, s \in Sids \ {0} : [k |-> "join", chan |-> c, sid |-> s] \in Commands
    /\ \A c \in Rooms, s \in Sids : [k |-> "leave", chan |-> c, sid |-> s] \in Commands
    /\ \A s \in Sids, m \in BOOLEAN, v \in BOOLEAN :
          [k |-> "dial", sid |-> s, muted |-> m, camera |-> v] \in Commands
    /\ \A b \in BOOLEAN : /\ [k |-> "mute", on |-> b] \in Commands
                          /\ [k |-> "camera", on |-> b] \in Commands
    /\ [k |-> "stop"] \in Commands /\ [k |-> "connect"] \in Commands
  BY DEF Commands

LEMMA EventNames ==
    /\ \A c \in Rooms, s \in Sids : [k |-> "signal", chan |-> c, sid |-> s] \in Events
    /\ \A s \in Media, a \in BOOLEAN, b \in BOOLEAN :
          [k |-> "status", st |-> s, cam |-> a, mic |-> b] \in Events
    /\ [k |-> "claimfailed"] \in Events /\ [k |-> "notconnected"] \in Events
    /\ [k |-> "disconnected"] \in Events /\ [k |-> "online"] \in Events
    /\ \A m \in Lines : m.k # "gone" => m \in Events
<1>1. /\ \A c \in Rooms, s \in Sids : [k |-> "signal", chan |-> c, sid |-> s] \in Events
      /\ \A s \in Media, a \in BOOLEAN, b \in BOOLEAN :
            [k |-> "status", st |-> s, cam |-> a, mic |-> b] \in Events
      /\ [k |-> "claimfailed"] \in Events /\ [k |-> "notconnected"] \in Events
      /\ [k |-> "disconnected"] \in Events /\ [k |-> "online"] \in Events
  BY DEF Events
<1>2. \A m \in Lines : m.k # "gone" => m \in Events
  BY DEF Events, Lines
<1> QED BY <1>1, <1>2

LEMMA LineNames ==
    /\ \A c \in Rooms, s \in Sids \ {0}, a \in {"started", "joined", "left", "ended"} :
          State(c, a, s) \in Lines
    /\ \A s \in Sids \ {0} : TokenFor(s) \in Lines
    /\ \A c \in Rooms, s \in Sids \ {0} : [k |-> "collision", chan |-> c, sid |-> s] \in Lines
    /\ \A s \in Sids : [k |-> "joinfailed", sid |-> s] \in Lines
    /\ [k |-> "gone"] \in Lines
  BY DEF Lines, Answers, Tokens, State, TokenFor

\* What a status carries, whatever the devices are.
LEMMA StatusType ==
    ASSUME left \in Budget, NEW st \in Media
    PROVE  Status(st) \in Events /\ Status(st) \in [k : {"status"}, st : {st},
                                                    cam : BOOLEAN, mic : {left.mic}]
<1>1. left.mic \in BOOLEAN
  BY DEF Budget
<1> QED BY <1>1, EventNames DEF Status

LEMMA StoppingType ==
    ASSUME left \in Budget, NEW said \in Stopping
    PROVE  said \in Seq(Events)
<1>1. Status("idle") \in Events /\ Status("live") \in Events /\ Status("failed") \in Events
  BY StatusType DEF Media
<1>2. <<>> \in Seq(Events)
  OBVIOUS
<1>3. \A a, b \in Events : <<a>> \in Seq(Events) /\ <<a, b>> \in Seq(Events)
  OBVIOUS
<1>4. /\ <<Status("idle")>> \in Seq(Events) /\ <<Status("failed")>> \in Seq(Events)
      /\ <<Status("live"), Status("idle")>> \in Seq(Events)
  BY <1>1, <1>3, Zenon
<1> QED BY <1>2, <1>4, Zenon DEF Stopping

---------------------------------------------------------------------------
(* The call slot                                                           *)

LEMMA NewCallType ==
    ASSUME pref \in Prefs, NEW c \in Rooms, NEW sid \in Sids,
           NEW inst \in BOOLEAN, NEW await \in BOOLEAN
    PROVE  NewCall(c, sid, inst, await) \in Call
<1>1. 0 \in Sids /\ "idle" \in Media /\ pref.muted \in BOOLEAN /\ pref.camera \in BOOLEAN
  BY RoomsAssumption DEF Sids, Media, Prefs
<1> QED BY <1>1 DEF NewCall, Call

\* Trying to dial changes the media of the call at most, and sends one dial
\* command with the call's own settings at most.
LEMMA TriedType ==
    ASSUME NEW call \in Call
    PROVE  /\ Tried(call) \in Call
           /\ \/ Tried(call) = call /\ Dialling(call) = <<>>
              \/ /\ Tried(call) = [call EXCEPT !.media = "connecting"]
                 /\ Dialling(call) = <<[k |-> "dial", sid |-> call.sid, muted |-> call.muted,
                                        camera |-> call.camera]>>
           /\ Tried(call).muted = call.muted /\ Tried(call).camera = call.camera
           /\ Tried(call).sid = call.sid /\ Tried(call).tok = call.tok
<1>1. [call EXCEPT !.media = "connecting"] \in Call
  BY DEF Call, Media
<1>2. CASE CanDial(call)
  <2>1. Tried(call) = [call EXCEPT !.media = "connecting"]
    BY <1>2 DEF Tried
  <2>2. Dialling(call) = <<[k |-> "dial", sid |-> call.sid, muted |-> call.muted,
                            camera |-> call.camera]>>
    BY <1>2 DEF Dialling
  <2>3. /\ Tried(call).muted = call.muted /\ Tried(call).camera = call.camera
        /\ Tried(call).sid = call.sid /\ Tried(call).tok = call.tok
    BY <2>1 DEF Call
  <2> QED BY <1>1, <2>1, <2>2, <2>3
<1>3. CASE ~CanDial(call)
  BY <1>3 DEF Tried, Dialling
<1> QED BY <1>2, <1>3

\* What Dial leaves in the slot and in the queue of commands.
LEMMA DialType ==
    ASSUME cmds \in Seq(Commands), NEW call \in Call, Dial(call)
    PROVE  /\ lc' \in Call
           /\ \/ cmds' = cmds
              \/ cmds' = Append(cmds, [k |-> "dial", sid |-> call.sid, muted |-> call.muted,
                                       camera |-> call.camera])
           /\ lc'.muted = call.muted /\ lc'.camera = call.camera
           /\ lc'.sid = call.sid /\ lc'.tok = call.tok
<1>1. lc' = Tried(call) /\ cmds' = cmds \o Dialling(call)
  BY DEF Dial
<1>2. CASE Tried(call) = call /\ Dialling(call) = <<>>
  BY <1>1, <1>2
<1>3. CASE Dialling(call) = <<[k |-> "dial", sid |-> call.sid, muted |-> call.muted,
                               camera |-> call.camera]>>
  <2> DEFINE m == [k |-> "dial", sid |-> call.sid, muted |-> call.muted,
                   camera |-> call.camera]
  <2>1. cmds' = cmds \o <<m>>
    BY <1>1, <1>3
  <2>2. m \in Commands
    BY Names DEF Call
  <2> HIDE DEF m
  <2>3. cmds' = Append(cmds, m)
    BY <2>1, <2>2
  <2>4. cmds' = Append(cmds, [k |-> "dial", sid |-> call.sid, muted |-> call.muted,
                              camera |-> call.camera])
    BY <2>3 DEF m
  <2> QED BY <1>1, <2>4, TriedType
<1> QED BY <1>2, <1>3, TriedType

---------------------------------------------------------------------------
(* Type correctness: the UI thread                                         *)

UiThread == UiTypes /\ cmds \in Seq(Commands)

LEMMA SpendType ==
    ASSUME left \in Budget,
           NEW what \in {"calls", "toggles", "peers", "fails", "ends", "drops"}, Spend(what)
    PROVE  /\ left' \in Budget /\ left'[what] = left[what] - 1
           /\ left'.mic = left.mic
           /\ \A other \in {"calls", "toggles", "peers", "fails", "ends", "drops"} \ {what} :
                 left'[other] = left[other]
<1>1. left[what] \in Nat /\ left[what] > 0 /\ left' = [left EXCEPT ![what] = left[what] - 1]
  BY DEF Spend, Budget
<1>2. left[what] - 1 \in Nat
  BY <1>1
<1> QED BY <1>1, <1>2 DEF Budget

\* One DialType for all the handlers that end in a dial.
LEMMA DialKeepsTypes ==
    ASSUME cmds \in Seq(Commands), NEW call \in Call, Dial(call)
    PROVE  lc' \in Call /\ cmds' \in Seq(Commands)
<1>1. [k |-> "dial", sid |-> call.sid, muted |-> call.muted, camera |-> call.camera]
         \in Commands
  BY Names DEF Call
<1> QED BY <1>1, DialType

LEMMA ClickTypes ==
    ASSUME UiThread, OtherTypes, Clicks \/ PollRedial \/ Reconnect
    PROVE  UiThread' /\ OtherTypes'
<1> USE DEF UiThread, UiTypes, OtherTypes
<1>0. lc \in Call => /\ lc.sid \in Sids /\ lc.chan \in Rooms
                     /\ lc.muted \in BOOLEAN /\ lc.camera \in BOOLEAN
  BY DEF Call
<1>1. ASSUME NEW c \in Rooms, AvStart(c) PROVE UiThread' /\ OtherTypes'
  <2>1. NewCall(c, 0, FALSE, TRUE) \in Call
    <3>1. 0 \in Sids /\ FALSE \in BOOLEAN /\ TRUE \in BOOLEAN
      BY RoomsAssumption DEF Sids
    <3> QED BY <3>1, NewCallType
  <2>2. cmds' \in Seq(Commands)
    BY <1>1, Names DEF AvStart
  <2>3. left' \in Budget
    BY <1>1, SpendType DEF AvStart
  <2>4. UNCHANGED <<redial, pref, shown, roster>> /\ lc' = NewCall(c, 0, FALSE, TRUE) /\ Hurry
    BY <1>1 DEF AvStart
  <2>5. odd' \subseteq {"hurried", "offline", "early"}
    BY <2>4 DEF Hurry
  <2> QED BY <2>1, <2>2, <2>3, <2>4, <2>5
<1>2. ASSUME NEW c \in Rooms, AvJoin(c) PROVE UiThread' /\ OtherTypes'
  <2>1. NewCall(c, roster[c], FALSE, FALSE) \in Call /\ roster[c] \in Sids
    BY NewCallType
  <2>2. cmds' \in Seq(Commands)
    <3>1. [k |-> "join", chan |-> c, sid |-> roster[c]] \in Commands
      BY <1>2, <2>1, Names DEF AvJoin
    <3>2. cmds' = Append(cmds, [k |-> "join", chan |-> c, sid |-> roster[c]])
      BY <1>2 DEF AvJoin
    <3> QED BY <3>1, <3>2
  <2>3. left' \in Budget
    BY <1>2, SpendType DEF AvJoin
  <2>4. /\ UNCHANGED <<redial, pref, shown, roster>> /\ Hurry
        /\ lc' = NewCall(c, roster[c], FALSE, FALSE)
    BY <1>2 DEF AvJoin
  <2>5. odd' \subseteq {"hurried", "offline", "early"}
    BY <2>4 DEF Hurry
  <2> QED BY <2>1, <2>2, <2>3, <2>4, <2>5
<1>3. CASE AvLeave
  <2>1. lc \in Call /\ lc' = NoCall /\ redial' = FALSE /\ UNCHANGED <<shown, roster, left>>
    BY <1>3 DEF AvLeave, InCall
  <2>2. pref' \in Prefs
    <3>1. /\ pref' = [muted |-> lc.muted,
                      camera |-> IF lc.hascam THEN lc.camera ELSE pref.camera]
          /\ pref.camera \in BOOLEAN /\ lc.muted \in BOOLEAN /\ lc.camera \in BOOLEAN
      BY <1>3, <1>0, <2>1 DEF AvLeave, Prefs
    <3> QED BY <3>1 DEF Prefs
  <2>3. cmds' \in Seq(Commands)
    <3>1. PICK m \in Commands : m = [k |-> "leave", chan |-> lc.chan, sid |-> lc.sid]
      BY <1>0, <2>1, Names
    <3>2. PICK n \in Commands : n = [k |-> "stop"]
      BY Names
    <3>3. cmds' = cmds \o <<m, n>>
      BY <1>3, <3>1, <3>2 DEF AvLeave
    <3> QED BY <3>3
  <2>4. odd' \subseteq {"hurried", "offline", "early"}
    BY <1>3 DEF AvLeave, Early
  <2> QED BY <2>1, <2>2, <2>3, <2>4
<1>4. CASE AvToggleMute
  <2>1. lc \in Call /\ UNCHANGED <<redial, shown, roster, odd>>
    BY <1>4 DEF AvToggleMute, InCall
  <2>2. lc' \in Call
    <3>1. lc' = [lc EXCEPT !.muted = ~lc.muted] /\ (~lc.muted) \in BOOLEAN
      BY <1>0, <1>4, <2>1 DEF AvToggleMute, Call
    <3> QED BY <2>1, <3>1 DEF Call
  <2>3. pref' \in Prefs
    <3>1. pref' = [pref EXCEPT !.muted = ~lc.muted] /\ (~lc.muted) \in BOOLEAN
      BY <1>0, <1>4, <2>1 DEF AvToggleMute
    <3> QED BY <3>1 DEF Prefs
  <2>4. cmds' \in Seq(Commands)
    <3>1. PICK m \in Commands : m = [k |-> "mute", on |-> ~lc.muted]
      <4>1. (~lc.muted) \in BOOLEAN
        BY <1>0, <2>1
      <4> QED BY <4>1, Names
    <3>2. cmds' = Append(cmds, m)
      BY <1>4, <3>1 DEF AvToggleMute
    <3> QED BY <3>2
  <2>5. left' \in Budget
    BY <1>4, SpendType DEF AvToggleMute
  <2> QED BY <2>1, <2>2, <2>3, <2>4, <2>5
<1>5. CASE AvToggleCamera
  <2>1. lc \in Call /\ UNCHANGED <<redial, shown, roster, odd>>
    BY <1>5 DEF AvToggleCamera, InCall
  <2>2. lc' \in Call
    <3>1. lc' = [lc EXCEPT !.camera = ~lc.camera] /\ (~lc.camera) \in BOOLEAN
      BY <1>0, <1>5, <2>1 DEF AvToggleCamera, Call
    <3> QED BY <2>1, <3>1 DEF Call
  <2>3. pref' \in Prefs
    <3>1. pref' = [pref EXCEPT !.camera = ~lc.camera] /\ (~lc.camera) \in BOOLEAN
      BY <1>0, <1>5, <2>1 DEF AvToggleCamera
    <3> QED BY <3>1 DEF Prefs
  <2>4. cmds' \in Seq(Commands)
    <3>1. PICK m \in Commands : m = [k |-> "camera", on |-> ~lc.camera]
      <4>1. (~lc.camera) \in BOOLEAN
        BY <1>0, <2>1
      <4> QED BY <4>1, Names
    <3>2. cmds' = Append(cmds, m)
      BY <1>5, <3>1 DEF AvToggleCamera
    <3> QED BY <3>2
  <2>5. left' \in Budget
    BY <1>5, SpendType DEF AvToggleCamera
  <2> QED BY <2>1, <2>2, <2>3, <2>4, <2>5
<1>6. CASE PollRedial
  <2>1. redial' \in BOOLEAN /\ UNCHANGED <<pref, shown, roster, left, odd>>
    BY <1>6 DEF PollRedial
  <2>2. CASE InCall /\ lc.sid # 0
    <3>1. Dial([lc EXCEPT !.media = "idle"]) /\ lc \in Call
      BY <1>6, <2>2 DEF PollRedial, InCall
    <3>2. [lc EXCEPT !.media = "idle"] \in Call
      BY <3>1 DEF Call, Media
    <3>3. lc' \in Call /\ cmds' \in Seq(Commands)
      BY <3>1, <3>2, DialKeepsTypes
    <3> QED BY <2>1, <3>3
  <2>3. CASE ~(InCall /\ lc.sid # 0)
    <3>1. UNCHANGED <<lc, cmds>>
      BY <1>6, <2>3 DEF PollRedial
    <3> QED BY <2>1, <3>1
  <2> QED BY <2>2, <2>3
<1>7. CASE Reconnect
  BY <1>7, Names DEF Reconnect, uiVars
<1> QED BY <1>1, <1>2, <1>3, <1>4, <1>5, <1>6, <1>7 DEF Clicks

LEMMA SignalledTypes ==
    ASSUME UiThread, NEW e, e.chan \in Rooms, e.sid \in Sids, Signalled(e)
    PROVE  UiThread'
<1> USE DEF UiThread, UiTypes
<1>1. PICK had \in Call : had = IF InCall THEN lc ELSE NewCall(e.chan, e.sid, TRUE, e.sid = 0)
  <2>1. NewCall(e.chan, e.sid, TRUE, e.sid = 0) \in Call
    BY NewCallType
  <2> QED BY <2>1 DEF InCall
<1>2. PICK call : call = [had EXCEPT !.chan = e.chan, !.inst = TRUE, !.await = (e.sid = 0),
                                     !.sid = IF e.sid = 0 THEN had.sid ELSE e.sid]
  OBVIOUS
<1>3. call \in Call
  <2>1. (IF e.sid = 0 THEN had.sid ELSE e.sid) \in Sids /\ (e.sid = 0) \in BOOLEAN
    BY DEF Call
  <2> QED BY <1>2, <2>1 DEF Call
<1>4. /\ IF e.sid # 0 THEN Dial(call) ELSE lc' = call /\ UNCHANGED cmds
      /\ UNCHANGED <<redial, pref, shown, roster>>
  BY <1>1, <1>2, Zenon DEF Signalled
<1>5. lc' \in Call /\ cmds' \in Seq(Commands)
  BY <1>3, <1>4, DialKeepsTypes
<1> QED BY <1>4, <1>5

LEMMA StatusTypes ==
    ASSUME UiThread, NEW e, e.st \in Media, e.cam \in BOOLEAN, e.mic \in BOOLEAN,
           MediaStatus(e)
    PROVE  UiThread'
<1> USE DEF UiThread, UiTypes
<1>1. lc' \in Call \cup {NoCall}
  <2>1. CASE InCall
    <3>1. PICK dialling \in BOOLEAN : dialling = (InCall /\ lc.media = "connecting")
      OBVIOUS
    <3>2. lc' = [lc EXCEPT !.media  = IF e.st = "idle" /\ dialling THEN lc.media ELSE e.st,
                           !.hascam = IF e.st = "live" THEN e.cam ELSE lc.hascam,
                           !.muted  = lc.muted \/ (e.st = "live" /\ ~e.mic)]
      BY <2>1, <3>1, Zenon DEF MediaStatus
    <3>3. /\ (IF e.st = "idle" /\ dialling THEN lc.media ELSE e.st) \in Media
          /\ (IF e.st = "live" THEN e.cam ELSE lc.hascam) \in BOOLEAN
          /\ (lc.muted \/ (e.st = "live" /\ ~e.mic)) \in BOOLEAN
      BY <2>1 DEF InCall, Call
    <3>4. lc \in Call
      BY <2>1 DEF InCall
    <3>5. PICK m \in Media : m = IF e.st = "idle" /\ dialling THEN lc.media ELSE e.st
      BY <3>3
    <3>6. PICK h \in BOOLEAN : h = IF e.st = "live" THEN e.cam ELSE lc.hascam
      BY <3>3
    <3>7. PICK u \in BOOLEAN : u = (lc.muted \/ (e.st = "live" /\ ~e.mic))
      BY <3>3
    <3>8. lc' = [lc EXCEPT !.media = m, !.hascam = h, !.muted = u]
      BY <3>2, <3>5, <3>6, <3>7, Zenon
    <3> QED BY <3>4, <3>8 DEF Call
  <2>2. CASE ~InCall
    BY <2>2 DEF MediaStatus
  <2> QED BY <2>1, <2>2
<1>2. pref' \in Prefs
  <2>1. PICK u \in BOOLEAN : u = (pref.muted \/ (InCall /\ e.st = "live" /\ ~e.mic))
    OBVIOUS
  <2>2. pref' = [pref EXCEPT !.muted = u]
    BY <2>1, Zenon DEF MediaStatus
  <2> QED BY <2>2 DEF Prefs
<1>3. cmds' \in Seq(Commands)
  <2>1. cmds' = cmds \/ cmds' = Append(cmds, [k |-> "camera", on |-> TRUE])
    BY Zenon DEF MediaStatus
  <2>2. [k |-> "camera", on |-> TRUE] \in Commands
    BY Names
  <2> QED BY <2>1, <2>2
<1>4. redial' \in BOOLEAN /\ UNCHANGED <<shown, roster>>
  BY Zenon DEF MediaStatus
<1> QED BY <1>1, <1>2, <1>3, <1>4

LEMMA TokenTypes ==
    ASSUME UiThread, NEW e, e.sid \in Sids, Token(e)
    PROVE  UiThread'
<1> USE DEF UiThread, UiTypes
<1>1. UNCHANGED <<redial, pref, shown, roster>>
  BY DEF Token
<1>2. CASE InCall /\ lc.sid \in {0, e.sid}
  <2>1. Dial([lc EXCEPT !.sid = e.sid, !.tok = e.sid, !.await = FALSE]) /\ lc \in Call
    BY <1>2 DEF Token, InCall
  <2>2. [lc EXCEPT !.sid = e.sid, !.tok = e.sid, !.await = FALSE] \in Call
    BY <2>1 DEF Call
  <2> QED BY <1>1, <2>1, <2>2, DialKeepsTypes
<1>3. CASE ~(InCall /\ lc.sid \in {0, e.sid})
  BY <1>1, <1>3 DEF Token
<1> QED BY <1>2, <1>3

LEMMA CollisionTypes ==
    ASSUME UiThread, OtherTypes, NEW e, e.sid \in Sids \ {0}, e.chan \in Rooms, Collision(e),
           UNCHANGED left
    PROVE  UiThread' /\ OtherTypes'
<1> USE DEF UiThread, UiTypes, OtherTypes
<1>1. PICK c \in Rooms : c = IF InCall /\ (lc.await \/ lc.sid = 0) THEN lc.chan ELSE e.chan
  BY DEF InCall, Call
<1>2. /\ roster' = [roster EXCEPT ![c] = e.sid]
      /\ lc' = NewCall(c, e.sid, FALSE, FALSE)
      /\ cmds' = Append(cmds, [k |-> "join", chan |-> c, sid |-> e.sid])
      /\ odd' = odd \cup {"hurried"} \/ odd' = odd
      /\ UNCHANGED <<redial, pref, shown>>
  BY <1>1, Zenon DEF Collision
<1>3. lc' \in Call
  BY <1>2, NewCallType
<1>4. cmds' \in Seq(Commands)
  <2>1. PICK m \in Commands : m = [k |-> "join", chan |-> c, sid |-> e.sid]
    BY Names
  <2>2. cmds' = Append(cmds, m)
    BY <1>2, <2>1
  <2> QED BY <2>2
<1>5. roster' \in [Rooms -> Sids]
  BY <1>2
<1>6. odd' \subseteq {"hurried", "offline", "early"}
  BY <1>2
<1> QED BY <1>2, <1>3, <1>4, <1>5, <1>6

LEMMA AvStateTypes ==
    ASSUME UiThread, OtherTypes, NEW e, e.sid \in Sids, e.chan \in Rooms, AvState(e),
           UNCHANGED left
    PROVE  UiThread' /\ OtherTypes'
<1> USE DEF UiThread, UiTypes
<1>0. OtherTypes'
  <2>1. odd' = odd \/ odd' = odd \cup {"early"}
    BY Zenon DEF AvState, Early
  <2> QED BY <2>1 DEF OtherTypes
<1>1. roster' \in [Rooms -> Sids] /\ UNCHANGED <<pref, shown>>
  BY RoomsAssumption DEF AvState, Sids
<1>2. CASE /\ InCall /\ lc.chan = e.chan /\ e.act = "started" /\ lc.await
           /\ Dial([lc EXCEPT !.sid = e.sid, !.await = FALSE])
           /\ UNCHANGED <<redial, odd>>
  <2>1. lc \in Call /\ [lc EXCEPT !.sid = e.sid, !.await = FALSE] \in Call
    BY <1>2 DEF InCall, Call
  <2> QED BY <1>0, <1>1, <1>2, <2>1, DialKeepsTypes
<1>3. CASE lc' = NoCall /\ redial' = FALSE /\ cmds' = Append(cmds, [k |-> "stop"])
  <2>1. PICK m \in Commands : m = [k |-> "stop"]
    BY Names
  <2>2. cmds' = Append(cmds, m)
    BY <1>3, <2>1
  <2>3. cmds' \in Seq(Commands)
    BY <2>2
  <2> QED BY <1>0, <1>1, <1>3, <2>3
<1>4. CASE /\ InCall /\ lc' = [lc EXCEPT !.sid = IF @ = 0 THEN e.sid ELSE @]
           /\ UNCHANGED <<redial, cmds, odd>>
  <2>1. lc \in Call
    BY <1>4 DEF InCall
  <2>2. PICK s \in Sids : s = IF lc.sid = 0 THEN e.sid ELSE lc.sid
    BY <2>1 DEF Call
  <2>3. lc' = [lc EXCEPT !.sid = s]
    BY <1>4, <2>1, <2>2
  <2>4. lc' \in Call
    BY <2>1, <2>3 DEF Call
  <2> QED BY <1>0, <1>1, <1>4, <2>4
<1>5. CASE UNCHANGED <<lc, redial, cmds, odd>>
  BY <1>0, <1>1, <1>5
<1> QED BY <1>0, <1>2, <1>3, <1>4, <1>5, Zenon DEF AvState

\* What each event carries.
LEMMA EventFields ==
    ASSUME NEW e \in Events
    PROVE  /\ e.k = "signal" => e.chan \in Rooms /\ e.sid \in Sids
           /\ e.k = "status" => e.st \in Media /\ e.cam \in BOOLEAN /\ e.mic \in BOOLEAN
           /\ e.k = "token" => e.sid \in Sids \ {0}
           /\ e.k = "collision" => e.chan \in Rooms /\ e.sid \in Sids \ {0}
           /\ e.k = "joinfailed" => e.sid \in Sids
           /\ e.k = "state" => /\ e.chan \in Rooms /\ e.sid \in Sids \ {0}
                               /\ e.act \in {"started", "joined", "left", "ended"}
  BY DEF Events, Answers, Tokens

LEMMA EventTypes ==
    ASSUME UiThread, OtherTypes, evs \in Seq(Events), HandleEvent
    PROVE  UiThread' /\ OtherTypes'
<1>1. PICK e \in Events : e = Head(evs)
  BY DEF HandleEvent
<1>2. left' = left
  BY DEF HandleEvent
<1>3. \/ e.k = "collision" /\ Collision(e)
      \/ e.k = "joinfailed" /\ JoinFailed(e)
      \/ e.k = "state" /\ AvState(e)
      \/ /\ UNCHANGED odd
         /\ \/ e.k = "signal" /\ Signalled(e)
            \/ e.k = "status" /\ MediaStatus(e)
            \/ e.k = "token" /\ Token(e)
            \/ e.k = "claimfailed" /\ ClaimFailed
            \/ e.k = "disconnected" /\ Disconnected
            \/ e.k = "online" /\ shown' = TRUE
               /\ UNCHANGED <<lc, redial, pref, roster, cmds>>
            \/ e.k = "notconnected" /\ UNCHANGED <<uiVars, cmds>>
  BY <1>1, Zenon DEF HandleEvent
<1>4. UNCHANGED odd => OtherTypes'
  BY <1>2 DEF OtherTypes
<1>5. CASE e.k = "collision" /\ Collision(e)
  BY <1>2, <1>5, EventFields, CollisionTypes
<1>6. CASE e.k = "joinfailed" /\ JoinFailed(e)
  BY <1>4, <1>6 DEF JoinFailed, UiThread, UiTypes
<1>7. CASE UNCHANGED odd /\ e.k = "signal" /\ Signalled(e)
  BY <1>4, <1>7, EventFields, SignalledTypes
<1>8. CASE UNCHANGED odd /\ e.k = "status" /\ MediaStatus(e)
  BY <1>4, <1>8, EventFields, StatusTypes
<1>9. CASE UNCHANGED odd /\ e.k = "token" /\ Token(e)
  BY <1>4, <1>9, EventFields, TokenTypes
<1>10. CASE e.k = "state" /\ AvState(e)
  BY <1>2, <1>10, EventFields, AvStateTypes
<1>11. CASE UNCHANGED odd /\ (ClaimFailed \/ Disconnected)
  BY <1>4, <1>11 DEF ClaimFailed, Disconnected, UiThread, UiTypes
<1>12. CASE UNCHANGED odd /\ shown' = TRUE /\ UNCHANGED <<lc, redial, pref, roster, cmds>>
  BY <1>4, <1>12 DEF UiThread, UiTypes
<1>13. CASE UNCHANGED odd /\ UNCHANGED <<uiVars, cmds>>
  BY <1>4, <1>13 DEF UiThread, UiTypes, uiVars
<1> QED BY <1>3, <1>5, <1>6, <1>7, <1>8, <1>9, <1>10, <1>11, <1>12, <1>13

---------------------------------------------------------------------------
(* What the UI thread sends agrees with what it remembers of the user's    *)
(* wishes, pref, and the call on the screen shows them.                    *)

PrefInv == InCall => lc.muted = pref.muted /\ lc.camera = pref.camera

Agrees(m, p) == /\ m.k = "mute" => m.on = p.muted
                /\ m.k = "camera" => m.on = p.camera
                /\ m.k = "dial" => m.muted = p.muted /\ m.camera = p.camera

\* A device that is missing mutes the user for good; left.mic tells.
PrefKept == pref'.camera = pref.camera /\ (left.mic => pref'.muted = pref.muted)

SentNothing == cmds' = cmds /\ PrefKept /\ left' = left
SentOne(m) == /\ cmds' = Append(cmds, m) /\ Agrees(m, pref')
              /\ \/ PrefKept
                 \/ m.k = "mute" /\ pref'.camera = pref.camera
                 \/ m.k = "camera" /\ pref'.muted = pref.muted
              /\ left'.mic = left.mic /\ left'.peers = left.peers
              /\ left'.calls = left.calls \/ left'.calls = left.calls - 1
              /\ m.k = "start" => left'.calls = left.calls - 1
SentLeave == /\ \E m \in Commands : /\ m.k = "leave"
                                    /\ cmds' = Append(Append(cmds, m), [k |-> "stop"])
             /\ PrefKept /\ left' = left
Sent == SentNothing \/ (\E m \in Commands : SentOne(m)) \/ SentLeave

LEMMA DialSends ==
    ASSUME UiThread, NEW call \in Call, Dial(call), UNCHANGED <<pref, left>>,
           call.muted = pref.muted, call.camera = pref.camera
    PROVE  Sent /\ PrefInv'
<1>1. cmds \in Seq(Commands)
  BY DEF UiThread
<1>2. PICK m \in Commands : m = [k |-> "dial", sid |-> call.sid, muted |-> call.muted,
                                 camera |-> call.camera]
  BY Names DEF Call
<1>3. cmds' = cmds \/ cmds' = Append(cmds, m)
  BY <1>1, <1>2, DialType
<1>4. PrefInv'
  BY <1>1, DialType DEF PrefInv
<1>5. Agrees(m, pref') /\ PrefKept /\ m.k # "start"
  BY <1>2 DEF Agrees, PrefKept
<1> QED BY <1>3, <1>4, <1>5 DEF Sent, SentNothing, SentOne

LEMMA ClickSends ==
    ASSUME UiThread, OtherTypes, PrefInv, Clicks \/ PollRedial \/ Reconnect
    PROVE  Sent /\ PrefInv'
<1>0. /\ lc \in Call \cup {NoCall} /\ pref \in Prefs /\ cmds \in Seq(Commands)
      /\ left \in Budget /\ roster \in [Rooms -> Sids]
  BY DEF UiThread, UiTypes, OtherTypes
<1>1. ASSUME NEW m \in Commands, cmds' = Append(cmds, m), pref' = pref, Spend("calls"),
             m.k \in {"start", "join"}
      PROVE  Sent
  <2>1. left'.calls = left.calls - 1 /\ left'.mic = left.mic /\ left'.peers = left.peers
    BY <1>0, <1>1, SpendType
  <2> QED BY <1>1, <2>1 DEF Sent, SentOne, Agrees, PrefKept
<1>2. ASSUME NEW c \in Rooms, NEW s, NEW a, lc' = NewCall(c, s, FALSE, a), pref' = pref
      PROVE  PrefInv'
  BY <1>2 DEF PrefInv, NewCall
<1>3. ASSUME NEW c \in Rooms, AvStart(c) PROVE Sent /\ PrefInv'
  <2>1. PICK m \in Commands : m = [k |-> "start", chan |-> c]
    BY Names
  <2>2. cmds' = Append(cmds, m) /\ pref' = pref /\ Spend("calls")
        /\ lc' = NewCall(c, 0, FALSE, TRUE)
    BY <1>3, <2>1 DEF AvStart
  <2> QED BY <1>1, <1>2, <2>1, <2>2
<1>4. ASSUME NEW c \in Rooms, AvJoin(c) PROVE Sent /\ PrefInv'
  <2>1. PICK m \in Commands : m = [k |-> "join", chan |-> c, sid |-> roster[c]]
    BY <1>0, <1>4, Names DEF AvJoin
  <2>2. cmds' = Append(cmds, m) /\ pref' = pref /\ Spend("calls")
        /\ lc' = NewCall(c, roster[c], FALSE, FALSE)
    BY <1>4, <2>1 DEF AvJoin
  <2> QED BY <1>1, <1>2, <2>1, <2>2
<1>5. CASE AvLeave
  <2>1. lc \in Call /\ lc' = NoCall /\ left' = left /\ InCall
    BY <1>0, <1>5 DEF AvLeave, InCall
  <2>2. PICK m \in Commands : m = [k |-> "leave", chan |-> lc.chan, sid |-> lc.sid]
    BY <2>1, Names DEF Call
  <2>3. PICK n \in Commands : n = [k |-> "stop"]
    BY Names
  <2>4. cmds' = cmds \o <<m, n>>
    BY <1>5, <2>2, <2>3 DEF AvLeave
  <2>5. cmds' = Append(Append(cmds, m), n)
    BY <1>0, <2>4
  <2>6. PrefKept
    <3>1. pref' = [muted |-> lc.muted, camera |-> IF lc.hascam THEN lc.camera ELSE pref.camera]
      BY <1>5 DEF AvLeave
    <3> QED BY <2>1, <3>1 DEF PrefInv, PrefKept
  <2> QED BY <2>1, <2>2, <2>3, <2>5, <2>6 DEF Sent, SentLeave, PrefInv, InCall
<1>6. ASSUME NEW m \in Commands, cmds' = Append(cmds, m), Spend("toggles"),
             Agrees(m, pref'),
             \/ m.k = "mute" /\ pref'.camera = pref.camera
             \/ m.k = "camera" /\ pref'.muted = pref.muted
      PROVE  Sent
  <2>1. left'.calls = left.calls /\ left'.mic = left.mic /\ left'.peers = left.peers
    BY <1>0, <1>6, SpendType
  <2>2. m.k # "start"
    BY <1>6
  <2> QED BY <1>6, <2>1, <2>2 DEF Sent, SentOne
<1>7. CASE AvToggleMute
  <2>1. lc \in Call /\ InCall /\ Spend("toggles") /\ lc.muted \in BOOLEAN
    BY <1>0, <1>7 DEF AvToggleMute, InCall, Call
  <2>2. PICK m \in Commands : m = [k |-> "mute", on |-> ~lc.muted]
    <3>1. (~lc.muted) \in BOOLEAN
      OBVIOUS
    <3> QED BY <3>1, Names
  <2>3. /\ cmds' = Append(cmds, m) /\ lc' = [lc EXCEPT !.muted = ~lc.muted]
        /\ pref' = [pref EXCEPT !.muted = ~lc.muted]
    BY <1>7, <2>2 DEF AvToggleMute
  <2>4. pref'.muted = ~lc.muted /\ pref'.camera = pref.camera
    BY <1>0, <2>3 DEF Prefs
  <2>5. lc'.muted = ~lc.muted /\ lc'.camera = lc.camera
    BY <2>1, <2>3 DEF Call
  <2>6. Agrees(m, pref')
    BY <2>2, <2>4 DEF Agrees
  <2> QED BY <1>6, <2>1, <2>2, <2>3, <2>4, <2>5, <2>6 DEF PrefInv
<1>8. CASE AvToggleCamera
  <2>1. lc \in Call /\ InCall /\ Spend("toggles") /\ lc.camera \in BOOLEAN
    BY <1>0, <1>8 DEF AvToggleCamera, InCall, Call
  <2>2. PICK m \in Commands : m = [k |-> "camera", on |-> ~lc.camera]
    <3>1. (~lc.camera) \in BOOLEAN
      OBVIOUS
    <3> QED BY <3>1, Names
  <2>3. /\ cmds' = Append(cmds, m) /\ lc' = [lc EXCEPT !.camera = ~lc.camera]
        /\ pref' = [pref EXCEPT !.camera = ~lc.camera]
    BY <1>8, <2>2 DEF AvToggleCamera
  <2>4. pref'.camera = ~lc.camera /\ pref'.muted = pref.muted
    BY <1>0, <2>3 DEF Prefs
  <2>5. lc'.camera = ~lc.camera /\ lc'.muted = lc.muted
    BY <2>1, <2>3 DEF Call
  <2>6. Agrees(m, pref')
    BY <2>2, <2>4 DEF Agrees
  <2> QED BY <1>6, <2>1, <2>2, <2>3, <2>4, <2>5, <2>6 DEF PrefInv
<1>9. CASE PollRedial
  <2>1. CASE InCall /\ lc.sid # 0
    <3>1. Dial([lc EXCEPT !.media = "idle"]) /\ lc \in Call /\ UNCHANGED <<pref, left>>
      BY <1>0, <1>9, <2>1 DEF PollRedial, InCall
    <3>2. PICK call \in Call : call = [lc EXCEPT !.media = "idle"]
      BY <3>1 DEF Call, Media
    <3>3. call.muted = pref.muted /\ call.camera = pref.camera
      BY <2>1, <3>1, <3>2 DEF PrefInv, Call
    <3> QED BY <3>1, <3>2, <3>3, DialSends
  <2>2. CASE ~(InCall /\ lc.sid # 0)
    <3>1. UNCHANGED <<lc, cmds, pref, left>>
      BY <1>9, <2>2 DEF PollRedial
    <3> QED BY <3>1 DEF Sent, SentNothing, PrefKept, PrefInv, InCall
  <2> QED BY <2>1, <2>2
<1>10. CASE Reconnect
  <2>1. PICK m \in Commands : m = [k |-> "connect"]
    BY Names
  <2>2. cmds' = Append(cmds, m) /\ UNCHANGED <<uiVars, left>>
    BY <1>10, <2>1 DEF Reconnect
  <2>3. UNCHANGED <<lc, pref, left>>
    BY <2>2 DEF uiVars
  <2>4. Sent
    BY <2>1, <2>2, <2>3 DEF Sent, SentOne, Agrees, PrefKept
  <2> QED BY <2>3, <2>4 DEF PrefInv, InCall
<1> QED BY <1>3, <1>4, <1>5, <1>7, <1>8, <1>9, <1>10 DEF Clicks

\* Every report of the devices carries what the devices are.
ReportsOf(mic) == {e \in Events : e.k = "status" => e.mic = mic}

LEMMA EventSends ==
    ASSUME UiThread, OtherTypes, PrefInv, evs \in Seq(ReportsOf(left.mic)), HandleEvent
    PROVE  Sent /\ PrefInv'
<1>0. /\ lc \in Call \cup {NoCall} /\ pref \in Prefs /\ cmds \in Seq(Commands)
      /\ left \in Budget /\ roster \in [Rooms -> Sids]
  BY DEF UiThread, UiTypes, OtherTypes
<1>1. PICK e \in ReportsOf(left.mic) : e = Head(evs)
  BY DEF HandleEvent
<1>2. e \in Events /\ (e.k = "status" => e.mic = left.mic) /\ left' = left
  BY DEF ReportsOf, HandleEvent
<1>3. \/ e.k = "collision" /\ Collision(e)
      \/ e.k = "joinfailed" /\ JoinFailed(e)
      \/ e.k = "signal" /\ Signalled(e)
      \/ e.k = "status" /\ MediaStatus(e)
      \/ e.k = "token" /\ Token(e)
      \/ e.k = "state" /\ AvState(e)
      \/ e.k = "claimfailed" /\ ClaimFailed
      \/ e.k = "disconnected" /\ Disconnected
      \/ UNCHANGED <<lc, pref, cmds>>
  BY <1>1, Zenon DEF HandleEvent, uiVars
<1>4. ASSUME UNCHANGED <<pref, cmds>>, lc' = lc \/ lc' = NoCall PROVE Sent /\ PrefInv'
  BY <1>2, <1>4 DEF Sent, SentNothing, PrefKept, PrefInv, InCall
<1>5. CASE e.k = "collision" /\ Collision(e)
  <2>1. PICK c \in Rooms : c = IF InCall /\ (lc.await \/ lc.sid = 0) THEN lc.chan ELSE e.chan
    BY <1>0, <1>2, <1>5, EventFields DEF InCall, Call
  <2>2. PICK m \in Commands : m = [k |-> "join", chan |-> c, sid |-> e.sid]
    BY <1>2, <1>5, EventFields, Names
  <2>3. cmds' = Append(cmds, m) /\ lc' = NewCall(c, e.sid, FALSE, FALSE) /\ pref' = pref
    BY <1>5, <2>1, <2>2, Zenon DEF Collision
  <2>4. PrefInv'
    BY <2>3 DEF PrefInv, NewCall
  <2>5. SentOne(m)
    BY <1>2, <2>2, <2>3 DEF SentOne, Agrees, PrefKept
  <2> QED BY <2>4, <2>5 DEF Sent
<1>6. CASE JoinFailed(e) \/ ClaimFailed \/ Disconnected \/ UNCHANGED <<lc, pref, cmds>>
  <2>1. UNCHANGED <<pref, cmds>> /\ (lc' = lc \/ lc' = NoCall)
    BY <1>6, Zenon DEF JoinFailed, ClaimFailed, Disconnected
  <2> QED BY <1>4, <2>1
<1>7. CASE e.k = "signal" /\ Signalled(e)
  <2>0. e.chan \in Rooms /\ e.sid \in Sids
    BY <1>2, <1>7, EventFields
  <2>1. PICK had \in Call : had = IF InCall THEN lc ELSE NewCall(e.chan, e.sid, TRUE, e.sid = 0)
    <3>1. NewCall(e.chan, e.sid, TRUE, e.sid = 0) \in Call
      BY <1>0, <2>0, NewCallType
    <3> QED BY <1>0, <3>1 DEF InCall
  <2>2. had.muted = pref.muted /\ had.camera = pref.camera
    BY <2>1 DEF PrefInv, NewCall
  <2>3. PICK s \in Sids : s = IF e.sid = 0 THEN had.sid ELSE e.sid
    BY <2>0 DEF Call
  <2>4. PICK a \in BOOLEAN : a = (e.sid = 0)
    OBVIOUS
  <2>5. PICK call : call = [had EXCEPT !.chan = e.chan, !.inst = TRUE, !.await = a, !.sid = s]
    OBVIOUS
  <2>6. call \in Call /\ call.muted = pref.muted /\ call.camera = pref.camera
    BY <2>0, <2>2, <2>5 DEF Call
  <2>7. /\ IF e.sid # 0 THEN Dial(call) ELSE lc' = call /\ UNCHANGED cmds
        /\ pref' = pref
    BY <1>7, <2>1, <2>3, <2>4, <2>5, Zenon DEF Signalled
  <2>8. CASE e.sid # 0
    BY <1>2, <2>6, <2>7, <2>8, DialSends
  <2>9. CASE e.sid = 0
    BY <1>2, <2>6, <2>7, <2>9 DEF Sent, SentNothing, PrefKept, PrefInv
  <2> QED BY <2>8, <2>9
<1>8. CASE e.k = "status" /\ MediaStatus(e)
  <2>1. left.mic \in BOOLEAN /\ e.mic = left.mic /\ pref.muted \in BOOLEAN
    BY <1>0, <1>2, <1>8 DEF Budget, Prefs
  <2>2. PICK u \in BOOLEAN : u = (pref.muted \/ (InCall /\ e.st = "live" /\ ~e.mic))
    OBVIOUS
  <2>3. pref' = [pref EXCEPT !.muted = u]
    BY <1>8, <2>2, Zenon DEF MediaStatus
  <2>4. pref'.muted = u /\ pref'.camera = pref.camera
    BY <1>0, <2>3 DEF Prefs
  <2>5. PrefKept
    BY <2>1, <2>2, <2>4 DEF PrefKept
  <2>6. InCall => lc'.muted = u /\ lc'.camera = pref.camera
    <3> SUFFICES ASSUME InCall PROVE lc'.muted = u /\ lc'.camera = pref.camera
      OBVIOUS
    <3> DEFINE m == IF e.st = "idle" /\ InCall /\ lc.media = "connecting"
                   THEN lc.media ELSE e.st
              h == IF e.st = "live" THEN e.cam ELSE lc.hascam
    <3>1. lc' = [lc EXCEPT !.media = m, !.hascam = h,
                           !.muted = lc.muted \/ (e.st = "live" /\ ~e.mic)]
      BY <1>8, Zenon DEF MediaStatus
    <3> HIDE DEF m, h
    <3>2. lc \in Call /\ lc.muted = pref.muted /\ lc.camera = pref.camera
      BY <1>0 DEF InCall, PrefInv
    <3>3. /\ lc'.muted = (lc.muted \/ (e.st = "live" /\ ~e.mic))
          /\ lc'.camera = lc.camera
      BY <3>1, <3>2 DEF Call
    <3>4. (lc.muted \/ (e.st = "live" /\ ~e.mic)) = u
      BY <2>1, <2>2, <3>2
    <3> QED BY <3>2, <3>3, <3>4
  <2>7. ~InCall => lc' = lc
    BY <1>8 DEF MediaStatus
  <2>8. PrefInv'
    BY <2>4, <2>6, <2>7 DEF PrefInv, InCall
  <2>9. CASE cmds' = cmds
    BY <1>2, <2>5, <2>8, <2>9 DEF Sent, SentNothing
  <2>10. CASE InCall /\ lc.camera /\ cmds' = Append(cmds, [k |-> "camera", on |-> TRUE])
    <3>1. PICK m \in Commands : m = [k |-> "camera", on |-> TRUE]
      BY Names
    <3>2. pref'.camera = TRUE
      BY <1>0, <2>4, <2>10 DEF PrefInv, Prefs
    <3>3. SentOne(m)
      BY <1>2, <2>5, <2>10, <3>1, <3>2 DEF SentOne, Agrees
    <3> QED BY <2>8, <3>3 DEF Sent
  <2> QED BY <1>8, <2>9, <2>10, Zenon DEF MediaStatus
<1>9. CASE e.k = "token" /\ Token(e)
  <2>1. CASE InCall /\ lc.sid \in {0, e.sid}
    <3>1. /\ Dial([lc EXCEPT !.sid = e.sid, !.tok = e.sid, !.await = FALSE]) /\ lc \in Call
          /\ pref' = pref
      BY <1>0, <1>9, <2>1 DEF Token, InCall
    <3>2. e.sid \in Sids
      BY <1>2, <1>9, EventFields
    <3>3. PICK call \in Call : call = [lc EXCEPT !.sid = e.sid, !.tok = e.sid, !.await = FALSE]
      BY <3>1, <3>2 DEF Call
    <3>4. call.muted = pref.muted /\ call.camera = pref.camera
      BY <2>1, <3>1, <3>3 DEF PrefInv, Call
    <3> QED BY <1>2, <3>1, <3>3, <3>4, DialSends
  <2>2. CASE ~(InCall /\ lc.sid \in {0, e.sid})
    BY <1>4, <1>9, <2>2 DEF Token
  <2> QED BY <2>1, <2>2
<1>10. CASE e.k = "state" /\ AvState(e)
  <2>0. pref' = pref /\ e.sid \in Sids
    BY <1>2, <1>10, EventFields DEF AvState
  <2>1. CASE /\ InCall /\ lc.chan = e.chan /\ e.act = "started" /\ lc.await
             /\ Dial([lc EXCEPT !.sid = e.sid, !.await = FALSE])
             /\ UNCHANGED <<redial, odd>>
    <3>1. PICK call \in Call : call = [lc EXCEPT !.sid = e.sid, !.await = FALSE]
      BY <1>0, <2>0, <2>1 DEF InCall, Call
    <3>2. call.muted = pref.muted /\ call.camera = pref.camera
      BY <1>0, <2>1, <3>1 DEF PrefInv, InCall, Call
    <3> QED BY <1>2, <2>0, <2>1, <3>1, <3>2, DialSends
  <2>2. CASE lc' = NoCall /\ cmds' = Append(cmds, [k |-> "stop"])
    <3>1. PICK m \in Commands : m = [k |-> "stop"]
      BY Names
    <3>2. SentOne(m)
      BY <1>2, <2>0, <2>2, <3>1 DEF SentOne, Agrees, PrefKept
    <3> QED BY <2>2, <3>2 DEF Sent, PrefInv, InCall
  <2>3. CASE /\ InCall /\ lc' = [lc EXCEPT !.sid = IF @ = 0 THEN e.sid ELSE @]
             /\ UNCHANGED <<redial, cmds>>
    <3>1. lc \in Call /\ lc'.muted = lc.muted /\ lc'.camera = lc.camera
      BY <1>0, <2>3 DEF InCall, Call
    <3> QED BY <1>2, <2>0, <2>3, <3>1 DEF Sent, SentNothing, PrefKept, PrefInv
  <2>4. CASE UNCHANGED <<lc, redial, cmds>>
    BY <1>4, <2>0, <2>4
  <2> QED BY <1>10, <2>1, <2>2, <2>3, <2>4, Zenon DEF AvState
<1> QED BY <1>3, <1>5, <1>6, <1>7, <1>8, <1>9, <1>10

---------------------------------------------------------------------------
(* Type correctness: the server                                            *)

Calls == /\ live \in [Rooms -> Sids] /\ inside \in [Rooms -> SUBSET {"me", "peer"}]
         /\ \A c \in Rooms : live[c] = 0 <=> inside[c] = {}
Down  == down \in Seq(Lines)
Mint  == minted \in Nat

LEMMA TellType ==
    ASSUME Down, NEW lines \in Seq(Lines), Tell(lines)
    PROVE  Down'
  BY DEF Down, Tell

LEMMA OpensType ==
    ASSUME Calls, Down, Mint, minted < MaxSid, NEW c \in Rooms, NEW who \in {"me", "peer"},
           NEW more \in Seq(Lines), Opens(c, who, more)
    PROVE  Calls' /\ Down' /\ minted' = minted + 1
<1>1. minted + 1 \in Sids \ {0}
  BY RoomsAssumption DEF Sids, Mint
<1>2. /\ live' = [live EXCEPT ![c] = minted + 1] /\ minted' = minted + 1
      /\ inside' = [inside EXCEPT ![c] = {who}]
      /\ Tell(<<State(c, "started", minted + 1)>> \o more)
  BY DEF Opens
<1>3. Calls'
  BY <1>1, <1>2 DEF Calls
<1>4. Down'
  <2>1. PICK m \in Lines : m = State(c, "started", minted + 1)
    BY <1>1, LineNames
  <2>2. <<m>> \o more \in Seq(Lines)
    OBVIOUS
  <2> QED BY <1>2, <2>1, <2>2, TellType
<1> QED BY <1>2, <1>3, <1>4

LEMMA EntersType ==
    ASSUME Calls, Down, NEW c \in Rooms, live[c] # 0, NEW who \in {"me", "peer"},
           NEW more \in Seq(Lines), Enters(c, who, more)
    PROVE  Calls' /\ Down' /\ minted' = minted
<1>1. live[c] \in Sids \ {0}
  BY DEF Calls
<1>2. /\ inside' = [inside EXCEPT ![c] = inside[c] \cup {who}]
      /\ Tell(<<State(c, "joined", live[c])>> \o more) /\ UNCHANGED <<live, minted>>
  BY DEF Enters
<1>3. Calls'
  BY <1>1, <1>2 DEF Calls
<1>4. Down'
  <2>1. PICK m \in Lines : m = State(c, "joined", live[c])
    BY <1>1, LineNames
  <2>2. <<m>> \o more \in Seq(Lines)
    OBVIOUS
  <2> QED BY <1>2, <2>1, <2>2, TellType
<1> QED BY <1>2, <1>3, <1>4

LEMMA LeavesType ==
    ASSUME Calls, Down, NEW c \in Rooms, NEW who \in {"me", "peer"}, who \in inside[c],
           Leaves(c, who)
    PROVE  Calls' /\ Down' /\ minted' = minted
<1>1. live[c] \in Sids \ {0}
  BY DEF Calls
<1> DEFINE stay == inside[c] \ {who}
           act  == IF stay = {} THEN "ended" ELSE "left"
<1>2. /\ inside' = [inside EXCEPT ![c] = stay]
      /\ live' = [live EXCEPT ![c] = IF stay = {} THEN 0 ELSE live[c]]
      /\ Tell(<<State(c, act, live[c])>>) /\ minted' = minted
  BY DEF Leaves
<1>3. Calls'
  <2>1. stay \in SUBSET {"me", "peer"} /\ 0 \in Sids
    BY RoomsAssumption DEF Calls, Sids
  <2> QED BY <1>1, <1>2, <2>1 DEF Calls
<1>4. Down'
  <2>1. PICK m \in Lines : m = State(c, act, live[c])
    BY <1>1, LineNames
  <2>2. <<m>> \in Seq(Lines)
    OBVIOUS
  <2> QED BY <1>2, <2>1, <2>2, TellType
<1> QED BY <1>2, <1>3, <1>4

LEMMA NothingServedType ==
    ASSUME Calls, Down, NothingServed
    PROVE  Calls' /\ Down' /\ minted' = minted
  BY DEF Calls, Down, NothingServed

LEMMA ServeStartType ==
    ASSUME Calls, Down, Mint, minted < MaxSid, NEW c \in Rooms, ServeStart(c)
    PROVE  Calls' /\ Down' /\ minted' \in {minted, minted + 1}
<1>1. CASE live[c] = 0 /\ Opens(c, "me", <<TokenFor(minted + 1)>>)
  <2>1. PICK m \in Lines : m = TokenFor(minted + 1)
    BY RoomsAssumption, LineNames DEF Sids, Mint
  <2>2. <<m>> \in Seq(Lines)
    OBVIOUS
  <2> QED BY <1>1, <2>1, <2>2, OpensType
<1>2. CASE /\ live[c] # 0 /\ UNCHANGED <<live, inside, minted>>
           /\ Tell(<<[k |-> "collision", chan |-> c, sid |-> live[c]]>>)
  <2>1. PICK m \in Lines : m = [k |-> "collision", chan |-> c, sid |-> live[c]]
    BY <1>2, LineNames DEF Calls
  <2>2. <<m>> \in Seq(Lines)
    OBVIOUS
  <2>3. Down'
    BY <1>2, <2>1, <2>2, TellType
  <2> QED BY <1>2, <2>3 DEF Calls
<1> QED BY <1>1, <1>2 DEF ServeStart

LEMMA ServeJoinType ==
    ASSUME Calls, Down, NEW c \in Rooms, NEW sid \in Sids \ {0}, ServeJoin(c, sid)
    PROVE  Calls' /\ Down' /\ minted' = minted
<1>1. CASE live[c] = sid /\ Enters(c, "me", <<TokenFor(sid)>>)
  <2>1. PICK m \in Lines : m = TokenFor(sid)
    BY LineNames
  <2>2. <<m>> \in Seq(Lines) /\ live[c] # 0
    BY <1>1
  <2> QED BY <1>1, <2>1, <2>2, EntersType
<1>2. CASE /\ live[c] # sid /\ UNCHANGED <<live, inside, minted>>
           /\ Tell(<<[k |-> "joinfailed", sid |-> sid]>>)
  <2>1. PICK m \in Lines : m = [k |-> "joinfailed", sid |-> sid]
    BY LineNames
  <2>2. <<m>> \in Seq(Lines)
    OBVIOUS
  <2>3. Down'
    BY <1>2, <2>1, <2>2, TellType
  <2> QED BY <1>2, <2>3 DEF Calls
<1> QED BY <1>1, <1>2 DEF ServeJoin

LEMMA ServeLeaveType ==
    ASSUME Calls, Down, NEW c \in Rooms, NEW sid, ServeLeave(c, sid)
    PROVE  Calls' /\ Down' /\ minted' = minted
  BY LeavesType, NothingServedType DEF ServeLeave

LEMMA PeerType ==
    ASSUME Calls, Down, Mint, minted < MaxSid, NEW c \in Rooms, Peer(c)
    PROVE  Calls' /\ Down' /\ minted' \in {minted, minted + 1}
<1>1. <<>> \in Seq(Lines)
  OBVIOUS
<1> QED BY <1>1, OpensType, EntersType, LeavesType DEF Peer

LEMMA DropType ==
    ASSUME Calls, Down, Drop
    PROVE  Calls' /\ Down' /\ minted' = minted
<1>1. /\ inside' = [c \in Rooms |-> inside[c] \ {"me"}]
      /\ live' = [c \in Rooms |-> IF inside'[c] = {} THEN 0 ELSE live[c]]
      /\ minted' = minted /\ down' = Append(down, [k |-> "gone"])
  BY DEF Drop
<1>2. \A c \in Rooms : inside'[c] = inside[c] \ {"me"}
  BY <1>1
<1>3. \A c \in Rooms : live'[c] = IF inside'[c] = {} THEN 0 ELSE live[c]
  BY <1>1
<1>4. 0 \in Sids
  BY RoomsAssumption DEF Sids
<1>5. inside' \in [Rooms -> SUBSET {"me", "peer"}]
  BY <1>1 DEF Calls
<1>6. live' \in [Rooms -> Sids]
  BY <1>1, <1>4 DEF Calls
<1>7. \A c \in Rooms : live'[c] = 0 <=> inside'[c] = {}
  BY <1>2, <1>3 DEF Calls
<1>8. Down'
  <2>1. [k |-> "gone"] \in Lines
    BY LineNames
  <2> QED BY <1>1, <2>1 DEF Down
<1> QED BY <1>1, <1>5, <1>6, <1>7, <1>8 DEF Calls

---------------------------------------------------------------------------
(* Type correctness: the net thread and the media task                     *)

Reports == ReportsOf(left.mic)
Net == /\ handle \in BOOLEAN /\ link \in BOOLEAN /\ ses \in Session \cup {NoSession}
       /\ evs \in Seq(Reports)

LEMMA ReportNames ==
    ASSUME left \in Budget
    PROVE  /\ \A st \in Media : Status(st) \in Reports
           /\ \A c \in Rooms, s \in Sids : Signal(c, s) \in Reports
           /\ [k |-> "claimfailed"] \in Reports /\ [k |-> "notconnected"] \in Reports
           /\ [k |-> "disconnected"] \in Reports /\ [k |-> "online"] \in Reports
           /\ \A m \in Lines : m.k # "gone" => m \in Reports
           /\ \A said \in Stopping : said \in Seq(Reports)
<1>1. \A st \in Media : Status(st) \in Reports
  BY StatusType DEF Reports, ReportsOf
<1>2. /\ \A c \in Rooms, s \in Sids : Signal(c, s) \in Reports
      /\ [k |-> "claimfailed"] \in Reports /\ [k |-> "notconnected"] \in Reports
      /\ [k |-> "disconnected"] \in Reports /\ [k |-> "online"] \in Reports
  BY EventNames DEF Reports, ReportsOf, Signal
<1>3. \A m \in Lines : m.k # "gone" => m \in Reports
  <2> SUFFICES ASSUME NEW m \in Lines, m.k # "gone" PROVE m \in Reports
    OBVIOUS
  <2>1. m \in Events
    BY EventNames
  <2>2. m.k # "status"
    BY DEF Lines, Answers, Tokens
  <2> QED BY <2>1, <2>2 DEF Reports, ReportsOf
<1>4. \A said \in Stopping : said \in Seq(Reports)
  <2>1. \A a, b \in Reports : <<a>> \in Seq(Reports) /\ <<a, b>> \in Seq(Reports)
    OBVIOUS
  <2>2. /\ Status("idle") \in Reports /\ Status("live") \in Reports
        /\ Status("failed") \in Reports
    BY <1>1 DEF Media
  <2>3. /\ <<Status("idle")>> \in Seq(Reports) /\ <<Status("failed")>> \in Seq(Reports)
        /\ <<Status("live"), Status("idle")>> \in Seq(Reports)
    BY <2>1, <2>2, Zenon
  <2>4. <<>> \in Seq(Reports)
    OBVIOUS
  <2> QED BY <2>3, <2>4, Zenon DEF Stopping
<1> QED BY <1>1, <1>2, <1>3, <1>4

\* The end of a session and what is said of it.
LEMMA StopType ==
    ASSUME left \in Budget, evs \in Seq(Reports), UNCHANGED left, NEW last \in Reports,
           \E said \in Stopping : evs' = evs \o said \o <<last>>
    PROVE  evs' \in Seq(Reports)'
<1>1. PICK said \in Seq(Reports) : evs' = evs \o said \o <<last>>
  BY ReportNames
<1>2. evs' \in Seq(Reports)
  <2>1. PICK q \in Seq(Reports) : q = evs \o said
    BY ConcatProperties
  <2>2. evs' = q \o <<last>>
    BY <1>1, <2>1
  <2>3. <<last>> \in Seq(Reports)
    OBVIOUS
  <2> QED BY <2>2, <2>3, ConcatProperties
<1>3. Reports' = Reports
  BY DEF Reports
<1> QED BY <1>2, <1>3

LEMMA NewSessionType ==
    ASSUME left \in Budget, NEW e, e.sid \in Sids, e.muted \in BOOLEAN, e.camera \in BOOLEAN
    PROVE  NewSession(e) \in Session
<1>1. left.mic \in BOOLEAN /\ (left.camera = "works") \in BOOLEAN
  BY DEF Budget
<1>2. <<>> \in Seq(BOOLEAN)
  OBVIOUS
<1>3. (e.muted \/ ~left.mic) \in BOOLEAN /\ (e.camera /\ left.camera = "works") \in BOOLEAN
  OBVIOUS
<1> QED BY <1>1, <1>2, <1>3 DEF NewSession, Session

LEMMA CommandFields ==
    ASSUME NEW e \in Commands
    PROVE  /\ e.k = "start" => e.chan \in Rooms
           /\ e.k = "join" => e.chan \in Rooms /\ e.sid \in Sids \ {0}
           /\ e.k = "leave" => e.chan \in Rooms /\ e.sid \in Sids
           /\ e.k = "dial" => e.sid \in Sids /\ e.muted \in BOOLEAN /\ e.camera \in BOOLEAN
           /\ e.k \in {"mute", "camera"} => e.on \in BOOLEAN
           /\ e.k \in {"start", "join", "leave", "dial", "mute", "camera", "stop", "connect"}
  BY DEF Commands

LEMMA ClaimType ==
    ASSUME left \in Budget, Net, UNCHANGED <<left, handle, link>>,
           NEW serve, NEW signal \in Reports, Claim(serve, signal)
    PROVE  Net' /\ (serve \/ NothingServed)
<1>1. Reports' = Reports
  BY DEF Reports
<1>2. \/ evs' = Append(evs, signal) \/ evs' = Append(evs, [k |-> "claimfailed"])
      \/ evs' = Append(evs, [k |-> "notconnected"])
  BY Zenon DEF Claim
<1>3. evs' \in Seq(Reports)
  <2>1. [k |-> "claimfailed"] \in Reports /\ [k |-> "notconnected"] \in Reports
    BY ReportNames
  <2> QED BY <1>2, <2>1, SMTT(40) DEF Net
<1>4. ses' = ses /\ (serve \/ NothingServed)
  BY DEF Claim
<1> QED BY <1>1, <1>3, <1>4 DEF Net

LEMMA MuteType ==
    ASSUME ses \in Session, NEW on \in BOOLEAN
    PROVE  /\ [ses EXCEPT !.muted = on] \in Session
           /\ [ses EXCEPT !.ctl = Append(@, on)] \in Session
<1>1. Append(ses.ctl, on) \in Seq(BOOLEAN)
  BY DEF Session
<1>2. PICK q \in Seq(BOOLEAN) : q = Append(ses.ctl, on)
  BY <1>1
<1>3. [ses EXCEPT !.ctl = q] \in Session
  BY DEF Session
<1>4. [ses EXCEPT !.muted = on] \in Session
  BY DEF Session
<1> QED BY <1>2, <1>3, <1>4

LEMMA ApplyTypes ==
    ASSUME cmds \in Seq(Commands), OtherTypes, Net, Calls, Down, Mint, minted <= MaxSid,
           cmds # <<>> /\ Head(cmds).k = "start" => minted < MaxSid, Apply
    PROVE  /\ cmds' = Tail(cmds) /\ Net' /\ OtherTypes' /\ Calls' /\ Down'
           /\ UNCHANGED <<uiVars, left>>
           /\ IF Head(cmds).k = "start" THEN minted' \in {minted, minted + 1}
                                        ELSE minted' = minted
<1>1. PICK e \in Commands : e = Head(cmds)
  BY DEF Apply
<1>2. /\ cmds # <<>> /\ cmds' = Tail(cmds) /\ UNCHANGED <<uiVars, left>>
      /\ e.k # "connect" => UNCHANGED <<handle, link>>
  BY <1>1 DEF Apply
<1>3. Reports' = Reports /\ left \in Budget /\ left' = left
  BY <1>2 DEF Reports, OtherTypes
<1>4. ASSUME e.k # "start", NothingServed \/ (Calls' /\ Down' /\ minted' = minted),
             Net', OtherTypes'
      PROVE  /\ cmds' = Tail(cmds) /\ Net' /\ OtherTypes' /\ Calls' /\ Down'
             /\ UNCHANGED <<uiVars, left>>
             /\ IF Head(cmds).k = "start" THEN minted' \in {minted, minted + 1}
                                          ELSE minted' = minted
  BY <1>1, <1>2, <1>4, NothingServedType
<1>5. odd' = odd => OtherTypes'
  BY <1>3 DEF OtherTypes
<1>6. ASSUME NEW last \in Reports, \E said \in Stopping : evs' = evs \o said \o <<last>>,
             ses' \in Session \cup {NoSession}, e.k # "connect"
      PROVE  Net'
  BY <1>2, <1>3, <1>6, StopType DEF Net
<1>7. CASE e.k = "start" /\ Claim(ServeStart(e.chan), Signal(e.chan, 0)) /\ UNCHANGED odd
  <2>1. e.chan \in Rooms /\ Signal(e.chan, 0) \in Reports
    BY <1>3, <1>7, CommandFields, ReportNames, RoomsAssumption DEF Sids
  <2>2. Net' /\ (ServeStart(e.chan) \/ NothingServed)
    BY <1>2, <1>3, <1>7, <2>1, ClaimType
  <2>3. Calls' /\ Down' /\ minted' \in {minted, minted + 1}
    BY <1>1, <1>2, <1>7, <2>1, <2>2, ServeStartType, NothingServedType
  <2> QED BY <1>1, <1>2, <1>5, <1>7, <2>2, <2>3
<1>8. CASE e.k = "join" /\ Claim(ServeJoin(e.chan, e.sid), Signal(e.chan, e.sid)) /\ UNCHANGED odd
  <2>1. e.chan \in Rooms /\ e.sid \in Sids \ {0} /\ Signal(e.chan, e.sid) \in Reports
    BY <1>3, <1>8, CommandFields, ReportNames
  <2>2. Net' /\ (ServeJoin(e.chan, e.sid) \/ NothingServed)
    BY <1>2, <1>3, <1>8, <2>1, ClaimType
  <2> QED BY <1>4, <1>5, <1>8, <2>1, <2>2, ServeJoinType
<1>9. CASE /\ e.k \in {"leave", "stop"} /\ ses' = NoSession /\ UNCHANGED odd
           /\ \E said \in Stopping : evs' = evs \o said \o <<Status("idle")>>
           /\ (ServeLeave(e.chan, e.sid) /\ e.k = "leave") \/ NothingServed
  <2>1. Status("idle") \in Reports
    BY <1>3, ReportNames DEF Media
  <2>2. Net'
    BY <1>6, <1>9, <2>1
  <2>3. NothingServed \/ (Calls' /\ Down' /\ minted' = minted)
    BY <1>9, CommandFields, ServeLeaveType
  <2> QED BY <1>4, <1>5, <1>9, <2>2, <2>3
<1>10. CASE /\ e.k = "dial" /\ ses' = NewSession(e)
            /\ \E said \in Stopping : evs' = evs \o said \o <<Status("connecting")>>
            /\ odd' = IF handle /\ link THEN odd ELSE odd \cup {"offline"}
            /\ NothingServed
  <2>1. Status("connecting") \in Reports
    BY <1>3, ReportNames DEF Media
  <2>2. ses' \in Session
    BY <1>3, <1>10, CommandFields, NewSessionType
  <2>3. Net'
    BY <1>6, <1>10, <2>1, <2>2
  <2>4. OtherTypes'
    BY <1>3, <1>10 DEF OtherTypes
  <2> QED BY <1>4, <1>10, <2>3, <2>4
<1>11. CASE /\ e.k \in {"mute", "camera"} /\ NothingServed /\ UNCHANGED <<evs, odd>>
            /\ \/ ses' = ses
               \/ Running /\ ses' = [ses EXCEPT !.muted = e.on]
               \/ Running /\ ses' = [ses EXCEPT !.ctl = Append(@, e.on)]
  <2>1. ses' \in Session \cup {NoSession}
    BY <1>11, CommandFields, MuteType DEF Net, Running
  <2>2. Net'
    BY <1>2, <1>3, <1>11, <2>1 DEF Net
  <2> QED BY <1>4, <1>5, <1>11, <2>2
<1>12. CASE /\ e.k = "connect" /\ handle' = TRUE /\ link' = TRUE
            /\ evs' = Append(evs, [k |-> "online"])
            /\ NothingServed /\ UNCHANGED <<ses, odd>>
  <2>1. evs' \in Seq(Reports)
    <3>1. [k |-> "online"] \in Reports
      BY <1>3, ReportNames
    <3> QED BY <1>12, <3>1 DEF Net
  <2>2. Net'
    BY <1>3, <1>12, <2>1 DEF Net
  <2> QED BY <1>4, <1>5, <1>12, <2>2
<1>13. \/ e.k = "start" /\ Claim(ServeStart(e.chan), Signal(e.chan, 0)) /\ UNCHANGED odd
       \/ e.k = "join" /\ Claim(ServeJoin(e.chan, e.sid), Signal(e.chan, e.sid)) /\ UNCHANGED odd
       \/ /\ e.k \in {"leave", "stop"} /\ ses' = NoSession /\ UNCHANGED odd
          /\ \E said \in Stopping : evs' = evs \o said \o <<Status("idle")>>
          /\ (ServeLeave(e.chan, e.sid) /\ e.k = "leave") \/ NothingServed
       \/ /\ e.k = "dial" /\ ses' = NewSession(e)
          /\ \E said \in Stopping : evs' = evs \o said \o <<Status("connecting")>>
          /\ odd' = IF handle /\ link THEN odd ELSE odd \cup {"offline"}
          /\ NothingServed
       \/ /\ e.k \in {"mute", "camera"} /\ NothingServed /\ UNCHANGED <<evs, odd>>
          /\ \/ ses' = ses
             \/ Running /\ ses' = [ses EXCEPT !.muted = e.on]
             \/ Running /\ ses' = [ses EXCEPT !.ctl = Append(@, e.on)]
       \/ /\ e.k = "connect" /\ handle' = TRUE /\ link' = TRUE
          /\ evs' = Append(evs, [k |-> "online"])
          /\ NothingServed /\ UNCHANGED <<ses, odd>>
  BY <1>1, Zenon DEF Apply
<1> QED BY <1>7, <1>8, <1>9, <1>10, <1>11, <1>12, <1>13

LEMMA ForwardTypes ==
    ASSUME OtherTypes, Net, Down, Forward
    PROVE  Net' /\ Down' /\ UNCHANGED <<uiVars, cmds, serverVars, left, odd>>
<1>1. PICK m \in Lines : m = Head(down)
  BY DEF Forward, Down
<1>2. /\ down # <<>> /\ down' = Tail(down)
      /\ \/ m.k # "gone" /\ evs' = Append(evs, m) /\ UNCHANGED netVars
         \/ /\ m.k = "gone" /\ handle' = FALSE /\ ses' = NoSession
            /\ \E said \in Stopping : evs' = evs \o said \o <<[k |-> "disconnected"]>>
      /\ UNCHANGED <<uiVars, cmds, serverVars, left, odd>>
  BY <1>1 DEF Forward
<1>3. Reports' = Reports /\ left \in Budget /\ left' = left /\ link' = link
  BY <1>2 DEF Reports, OtherTypes, serverVars
<1>4. Down'
  BY <1>2 DEF Down
<1>5. CASE m.k # "gone" /\ evs' = Append(evs, m) /\ UNCHANGED netVars
  <2>1. m \in Reports
    BY <1>3, <1>5, ReportNames
  <2>2. evs' \in Seq(Reports)
    BY <1>5, <2>1 DEF Net
  <2> QED BY <1>2, <1>3, <1>4, <1>5, <2>2 DEF Net, netVars
<1>6. CASE /\ m.k = "gone" /\ handle' = FALSE /\ ses' = NoSession
           /\ \E said \in Stopping : evs' = evs \o said \o <<[k |-> "disconnected"]>>
  <2>1. [k |-> "disconnected"] \in Reports /\ evs \in Seq(Reports)
    BY <1>3, ReportNames DEF Net
  <2>2. evs' \in Seq(Reports)'
    BY <1>3, <1>6, <2>1, StopType
  <2> QED BY <1>2, <1>3, <1>4, <1>6, <2>2 DEF Net
<1> QED BY <1>2, <1>5, <1>6

TaskStep == DialSucceeds \/ DialFails \/ Ends \/ Control

LEMMA TaskTypes ==
    ASSUME OtherTypes, Net, TaskStep
    PROVE  /\ Net' /\ OtherTypes' /\ UNCHANGED <<uiVars, cmds, handle, serverVars, down, odd>>
           /\ left'.mic = left.mic /\ left'.calls = left.calls /\ left'.peers = left.peers
<1>1. UNCHANGED <<uiVars, cmds, handle, serverVars, down, odd>> /\ ses \in Session
  BY DEF TaskStep, DialSucceeds, DialFails, Ends, Control, InTask, Net
<1>2. left' = left \/ Spend("fails") \/ Spend("ends")
  BY DEF TaskStep, DialSucceeds, DialFails, Ends, Control
<1>3. left' \in Budget /\ left'.mic = left.mic
      /\ left'.calls = left.calls /\ left'.peers = left.peers
  BY <1>2, SpendType DEF OtherTypes
<1>4. Reports' = Reports
  BY <1>3 DEF Reports
<1>5. evs' \in Seq(Reports)
  <2>1. \A st \in Media : Status(st) \in Reports
    BY ReportNames DEF OtherTypes
  <2>2. evs' = evs \/ \E st \in Media : evs' = Append(evs, Status(st))
    BY DEF TaskStep, DialSucceeds, DialFails, Ends, Control, Media
  <2> QED BY <2>1, <2>2 DEF Net
<1>6. ses' \in Session
  <2>1. CASE DialSucceeds
    <3>1. ses' = [ses EXCEPT !.phase = "live"]
      BY <2>1 DEF DialSucceeds
    <3> QED BY <1>1, <3>1 DEF Session
  <2>2. CASE DialFails \/ Ends
    <3>1. PICK q \in Seq(BOOLEAN) : q = <<>>
      <4>1. <<>> \in Seq(BOOLEAN)
        OBVIOUS
      <4> QED BY <4>1
    <3>2. ses' = [ses EXCEPT !.phase = "over", !.open = FALSE, !.ctl = q]
      BY <2>2, <3>1 DEF DialFails, Ends
    <3> QED BY <1>1, <3>2 DEF Session
  <2>3. CASE Control
    <3>1. PICK q \in Seq(BOOLEAN), now \in BOOLEAN : ses' = [ses EXCEPT !.ctl = q, !.open = now]
      <4>1. ses.ctl # <<>> /\ ses.ctl \in Seq(BOOLEAN) /\ ses.open \in BOOLEAN
        BY <1>1, <2>3 DEF Control, Session
      <4>2. Tail(ses.ctl) \in Seq(BOOLEAN) /\ Head(ses.ctl) \in BOOLEAN
        BY <4>1, TailType
      <4>3. (Head(ses.ctl) /\ (ses.open \/ left.camera = "works")) \in BOOLEAN
        OBVIOUS
      <4>4. ses' = [ses EXCEPT !.ctl = Tail(ses.ctl),
                       !.open = Head(ses.ctl) /\ (ses.open \/ left.camera = "works")]
        BY <1>1, <2>3 DEF Control
      <4> QED BY <4>2, <4>3, <4>4
    <3> QED BY <1>1, <3>1 DEF Session
  <2> QED BY <2>1, <2>2, <2>3 DEF TaskStep
<1>7. link' = link
  BY <1>1 DEF serverVars
<1> QED BY <1>1, <1>3, <1>4, <1>5, <1>6, <1>7 DEF Net, OtherTypes

---------------------------------------------------------------------------
(* The calls the server opens stay within MaxSid: every one is paid for by *)
(* a click or a peer, and a start on its way to the server is paid for.    *)

Starts(q) == Places(q, {m \in Commands : m.k = "start"})
MintInv   == Mint /\ minted + Cardinality(Starts(cmds)) + left.calls + left.peers <= MaxSid

LEMMA StartsFinite == ASSUME NEW q \in Seq(Commands) PROVE Cardinality(Starts(q)) \in Nat
  BY PlacesFinite DEF Starts

LEMMA StartsAppend ==
    ASSUME NEW q \in Seq(Commands), NEW m \in Commands
    PROVE  Cardinality(Starts(Append(q, m))) =
              Cardinality(Starts(q)) + (IF m.k = "start" THEN 1 ELSE 0)
<1>1. m \in {n \in Commands : n.k = "start"} <=> m.k = "start"
  OBVIOUS
<1> QED BY <1>1, PlacesAppend DEF Starts

LEMMA StartsTail ==
    ASSUME NEW q \in Seq(Commands), q # <<>>
    PROVE  Cardinality(Starts(Tail(q))) + (IF Head(q).k = "start" THEN 1 ELSE 0)
              <= Cardinality(Starts(q))
<1>1. Head(q) \in {n \in Commands : n.k = "start"} <=> Head(q).k = "start"
  BY TailType
<1>2. Cardinality(Starts(Tail(q))) \in Nat /\ Cardinality(Starts(q)) \in Nat
  BY TailType, PlacesFinite DEF Starts
<1> QED BY <1>1, <1>2, PlacesTail DEF Starts

---------------------------------------------------------------------------
(* Type correctness                                                        *)

Types == UiThread /\ OtherTypes /\ Net /\ Calls /\ Down /\ MintInv /\ PrefInv

UiStep == Clicks \/ PollRedial \/ Reconnect \/ HandleEvent

LEMMA UiSteps ==
    ASSUME Types, UiStep
    PROVE  /\ UiThread' /\ OtherTypes' /\ Sent /\ PrefInv'
           /\ UNCHANGED <<netVars, serverVars, down>>
           /\ evs' = evs \/ (evs # <<>> /\ evs' = Tail(evs))
<1>1. CASE Clicks \/ PollRedial \/ Reconnect
  <2>1. UNCHANGED <<evs, netVars, serverVars, down>>
    BY <1>1, Zenon DEF Clicks, AvStart, AvJoin, AvLeave, AvToggleMute, AvToggleCamera,
                       PollRedial, Reconnect
  <2> QED BY <1>1, <2>1, ClickTypes, ClickSends DEF Types
<1>2. CASE HandleEvent
  <2>1. evs \in Seq(ReportsOf(left.mic)) /\ evs \in Seq(Events)
    BY DEF Types, Net, Reports, ReportsOf
  <2>2. evs # <<>> /\ evs' = Tail(evs) /\ UNCHANGED <<netVars, serverVars, down>>
    BY <1>2 DEF HandleEvent
  <2> QED BY <1>2, <2>1, <2>2, EventTypes, EventSends DEF Types
<1> QED BY <1>1, <1>2 DEF UiStep

\* What a step of the UI thread does to the budget of calls.
LEMMA SentMint ==
    ASSUME cmds \in Seq(Commands), left \in Budget, left' \in Budget, MintInv, Sent,
           UNCHANGED minted
    PROVE  MintInv' /\ left'.mic = left.mic
<1>0. /\ minted \in Nat /\ minted' = minted /\ MaxSid \in Nat
      /\ left.calls \in Nat /\ left.peers \in Nat
      /\ left'.calls \in Nat /\ left'.peers \in Nat
      /\ Cardinality(Starts(cmds)) \in Nat
      /\ minted + Cardinality(Starts(cmds)) + left.calls + left.peers <= MaxSid
  BY StartsFinite, RoomsAssumption DEF MintInv, Mint, Budget
<1>1. CASE SentNothing
  BY <1>0, <1>1 DEF SentNothing, MintInv, Mint
<1>2. ASSUME NEW m \in Commands, SentOne(m) PROVE MintInv' /\ left'.mic = left.mic
  <2>1. /\ cmds' = Append(cmds, m) /\ left'.mic = left.mic /\ left'.peers = left.peers
        /\ left'.calls = left.calls \/ left'.calls = left.calls - 1
        /\ m.k = "start" => left'.calls = left.calls - 1
    BY <1>2 DEF SentOne
  <2>2. Cardinality(Starts(cmds')) =
           Cardinality(Starts(cmds)) + (IF m.k = "start" THEN 1 ELSE 0)
    BY <2>1, StartsAppend
  <2>3. minted + Cardinality(Starts(cmds')) + left'.calls + left'.peers <= MaxSid
    BY <1>0, <2>1, <2>2, SMTT(40)
  <2> QED BY <1>0, <2>1, <2>3 DEF MintInv, Mint
<1>3. CASE SentLeave
  <2>1. PICK m \in Commands : m.k = "leave" /\ cmds' = Append(Append(cmds, m), [k |-> "stop"])
    BY <1>3 DEF SentLeave
  <2>2. PICK n \in Commands : n = [k |-> "stop"]
    BY Names
  <2>3. PICK q \in Seq(Commands) : q = Append(cmds, m)
    BY <1>0, AppendProperties
  <2>4. Cardinality(Starts(q)) = Cardinality(Starts(cmds))
    BY <1>0, <2>1, <2>3, StartsAppend, SMTT(40)
  <2>5. Cardinality(Starts(cmds')) = Cardinality(Starts(q))
    BY <1>0, <2>1, <2>2, <2>3, <2>4, StartsAppend
  <2> QED BY <1>0, <1>3, <2>4, <2>5 DEF SentLeave, MintInv, Mint
<1> QED BY <1>1, <1>2, <1>3 DEF Sent

LEMMA TypesInit == Init => Types
<1> SUFFICES ASSUME Init PROVE Types
  OBVIOUS
<1>1. left \in Budget /\ left.calls + left.peers <= MaxSid
  BY BudgetsAssumption DEF Init
<1>2. 0 \in Sids /\ MaxSid \in Nat
  BY RoomsAssumption DEF Sids
<1>3. UiThread
  <2>1. left.on \in BOOLEAN /\ <<>> \in Seq(Commands)
    BY <1>1 DEF Budget
  <2> QED BY <1>2, <2>1 DEF Init, UiThread, UiTypes, Prefs
<1>4. OtherTypes
  BY <1>1 DEF Init, OtherTypes
<1>5. Net
  <2>1. <<>> \in Seq(Reports)
    OBVIOUS
  <2> QED BY <2>1 DEF Init, Net
<1>6. Calls /\ Down
  <2>1. <<>> \in Seq(Lines)
    OBVIOUS
  <2> QED BY <1>2, <2>1 DEF Init, Calls, Down
<1>7. MintInv
  <2>1. Starts(<<>>) = {}
    BY DEF Starts, Places
  <2>2. Cardinality(Starts(cmds)) = 0 /\ minted = 0
    BY <2>1, FS_EmptySet DEF Init
  <2>3. left.calls \in Nat /\ left.peers \in Nat
    BY <1>1 DEF Budget
  <2> QED BY <1>1, <2>2, <2>3 DEF MintInv, Mint
<1>8. PrefInv
  BY DEF Init, PrefInv, InCall
<1> QED BY <1>3, <1>4, <1>5, <1>6, <1>7, <1>8 DEF Types

LEMMA TypesStep == Types /\ [Next]_vars => Types'
<1> SUFFICES ASSUME Types, [Next]_vars PROVE Types'
  OBVIOUS
<1>0. /\ UiThread /\ OtherTypes /\ Net /\ Calls /\ Down /\ MintInv /\ PrefInv /\ Mint
      /\ left \in Budget /\ cmds \in Seq(Commands)
      /\ minted \in Nat /\ MaxSid \in Nat
      /\ left.calls \in Nat /\ left.peers \in Nat
      /\ Cardinality(Starts(cmds)) \in Nat
      /\ minted + Cardinality(Starts(cmds)) + left.calls + left.peers <= MaxSid
  BY StartsFinite, RoomsAssumption
     DEF Types, MintInv, Mint, OtherTypes, UiThread, Budget
<1>1. ASSUME UNCHANGED <<uiVars, cmds>> PROVE UiThread' /\ PrefInv'
  BY <1>0, <1>1 DEF UiThread, UiTypes, PrefInv, InCall, uiVars
<1>2. CASE UiStep
  <2>1. /\ UiThread' /\ OtherTypes' /\ Sent /\ PrefInv'
        /\ UNCHANGED <<netVars, serverVars, down>>
        /\ evs' = evs \/ (evs # <<>> /\ evs' = Tail(evs))
    BY <1>2, UiSteps
  <2>2. MintInv' /\ left'.mic = left.mic
    BY <1>0, <2>1, SentMint DEF OtherTypes, serverVars
  <2>3. Reports' = Reports
    BY <2>2 DEF Reports
  <2>4. Net'
    <3>1. evs' \in Seq(Reports)
      BY <1>0, <2>1, TailType DEF Net
    <3> QED BY <1>0, <2>1, <2>3, <3>1 DEF Net, netVars, serverVars
  <2>5. Calls' /\ Down'
    BY <1>0, <2>1 DEF Calls, Down, serverVars
  <2> QED BY <2>1, <2>2, <2>4, <2>5 DEF Types
<1>3. ASSUME NEW c \in Rooms, Peer(c) PROVE Types'
  <2>1. UNCHANGED <<uiVars, cmds, evs, netVars, link, odd>> /\ Spend("peers")
    BY <1>3 DEF Peer
  <2>2. /\ left' \in Budget /\ left'.peers = left.peers - 1 /\ left'.calls = left.calls
        /\ left'.mic = left.mic /\ left.peers > 0
    BY <1>0, <2>1, SpendType DEF Spend
  <2>3. minted < MaxSid
    BY <1>0, <2>2
  <2>4. Calls' /\ Down' /\ minted' \in {minted, minted + 1}
    BY <1>0, <1>3, <2>3, PeerType
  <2>5. MintInv'
    <3>1. minted' \in Nat /\ minted' <= minted + 1
      BY <1>0, <2>4
    <3>2. left'.calls + left'.peers = left.calls + left.peers - 1
      <4>1. left.calls \in Nat /\ left.peers \in Nat
        BY <1>0
      <4> QED BY <2>2, <4>1
    <3>3. left'.calls \in Nat /\ left'.peers \in Nat
      BY <2>2 DEF Budget
    <3>4. minted' + Cardinality(Starts(cmds)) + left'.calls + left'.peers <= MaxSid
      <4>1. /\ minted \in Nat /\ MaxSid \in Nat /\ Cardinality(Starts(cmds)) \in Nat
            /\ left.calls \in Nat /\ left.peers \in Nat
            /\ minted + Cardinality(Starts(cmds)) + left.calls + left.peers <= MaxSid
        BY <1>0
      <4> QED BY <3>1, <3>2, <3>3, <4>1
    <3> QED BY <2>1, <3>1, <3>4 DEF MintInv, Mint
  <2>6. Net' /\ OtherTypes'
    <3>1. Reports' = Reports
      BY <2>2 DEF Reports
    <3> QED BY <1>0, <2>1, <2>2, <3>1 DEF Net, OtherTypes, netVars
  <2> QED BY <1>1, <2>1, <2>4, <2>5, <2>6 DEF Types
<1>4. CASE Apply
  <2>1. cmds # <<>> /\ (Head(cmds).k = "start" => minted < MaxSid) /\ minted <= MaxSid
    <3>1. cmds # <<>>
      BY <1>4 DEF Apply
    <3>2. /\ Cardinality(Starts(Tail(cmds))) \in Nat
          /\ Cardinality(Starts(Tail(cmds))) + (IF Head(cmds).k = "start" THEN 1 ELSE 0)
                <= Cardinality(Starts(cmds))
      BY <1>0, <3>1, TailType, StartsTail, StartsFinite
    <3> QED BY <1>0, <3>1, <3>2
  <2>2. /\ cmds' = Tail(cmds) /\ Net' /\ OtherTypes' /\ Calls' /\ Down'
        /\ UNCHANGED <<uiVars, left>>
        /\ IF Head(cmds).k = "start" THEN minted' \in {minted, minted + 1}
                                     ELSE minted' = minted
    BY <1>0, <1>4, <2>1, ApplyTypes
  <2>3. UiThread' /\ PrefInv'
    <3>1. cmds' \in Seq(Commands)
      BY <1>0, <2>1, <2>2, TailType
    <3> QED BY <1>0, <2>2, <3>1 DEF UiThread, UiTypes, PrefInv, InCall, uiVars
  <2>4. MintInv'
    <3>1. /\ Cardinality(Starts(cmds')) \in Nat
          /\ Cardinality(Starts(cmds')) + (IF Head(cmds).k = "start" THEN 1 ELSE 0)
                <= Cardinality(Starts(cmds))
      BY <1>0, <2>1, <2>2, TailType, StartsTail, StartsFinite
    <3>2. minted' \in Nat
      BY <1>0, <2>2
    <3>3. minted' + Cardinality(Starts(cmds')) + left.calls + left.peers <= MaxSid
      <4>1. minted' + Cardinality(Starts(cmds')) <= minted + Cardinality(Starts(cmds))
        <5>1. minted' <= minted + (IF Head(cmds).k = "start" THEN 1 ELSE 0)
          BY <1>0, <2>2
        <5> QED BY <1>0, <3>1, <3>2, <5>1, SMTT(40)
      <4>2. Cardinality(Starts(cmds')) \in Nat /\ minted' \in Nat
        BY <3>1, <3>2
      <4> QED BY <1>0, <4>1, <4>2, SMTT(40)
    <3> QED BY <2>2, <3>2, <3>3 DEF MintInv, Mint
  <2> QED BY <2>2, <2>3, <2>4 DEF Types
<1>5. CASE Forward
  <2>1. Net' /\ Down' /\ UNCHANGED <<uiVars, cmds, serverVars, left, odd>>
    BY <1>0, <1>5, ForwardTypes
  <2>2. Calls' /\ MintInv' /\ OtherTypes'
    BY <1>0, <2>1 DEF Calls, MintInv, Mint, OtherTypes, serverVars
  <2> QED BY <1>1, <2>1, <2>2 DEF Types
<1>6. CASE Drop
  <2>1. /\ UNCHANGED <<uiVars, cmds, evs, netVars, minted, odd>> /\ Spend("drops")
        /\ link' = FALSE
    BY <1>6 DEF Drop
  <2>2. left' \in Budget /\ left'.calls = left.calls /\ left'.peers = left.peers
        /\ left'.mic = left.mic
    BY <1>0, <2>1, SpendType
  <2>3. Calls' /\ Down' /\ minted' = minted
    BY <1>0, <1>6, DropType
  <2>4. MintInv'
    BY <1>0, <2>1, <2>2 DEF MintInv, Mint
  <2>5. Net' /\ OtherTypes'
    <3>1. Reports' = Reports
      BY <2>2 DEF Reports
    <3> QED BY <1>0, <2>1, <2>2, <3>1 DEF Net, OtherTypes, netVars
  <2> QED BY <1>1, <2>1, <2>3, <2>4, <2>5 DEF Types
<1>7. CASE TaskStep
  <2>1. /\ Net' /\ OtherTypes' /\ UNCHANGED <<uiVars, cmds, handle, serverVars, down, odd>>
        /\ left'.mic = left.mic /\ left'.calls = left.calls /\ left'.peers = left.peers
    BY <1>0, <1>7, TaskTypes
  <2>2. Calls' /\ Down' /\ MintInv'
    BY <1>0, <2>1 DEF Calls, Down, MintInv, Mint, serverVars
  <2> QED BY <1>1, <2>1, <2>2 DEF Types
<1>8. CASE UNCHANGED vars
  <2>1. UNCHANGED <<uiVars, cmds, evs, netVars, serverVars, down, left, odd>>
    BY <1>8 DEF vars
  <2>2. Reports' = Reports
    BY <2>1 DEF Reports
  <2>3. Net' /\ OtherTypes' /\ Calls' /\ Down' /\ MintInv'
    BY <1>0, <2>1, <2>2
       DEF Net, OtherTypes, Calls, Down, MintInv, Mint, netVars, serverVars
  <2> QED BY <1>1, <2>1, <2>3 DEF Types
<1> QED BY <1>2, <1>3, <1>4, <1>5, <1>6, <1>7, <1>8 DEF Next, UiStep, TaskStep

\* Type correctness of the call slot, the media session and the server's calls:
\* no session without its fields, a room is without a call exactly when nobody
\* is in one, and the calls opened never exceed the ids there are.
THEOREM TypeCorrect == Spec => []TypeOK
<1>1. Types => TypeOK
  <2> SUFFICES ASSUME Types PROVE TypeOK
    OBVIOUS
  <2>1. minted \in Sids
    <3>1. /\ minted \in Nat /\ Cardinality(Starts(cmds)) \in Nat /\ MaxSid \in Nat
          /\ left.calls \in Nat /\ left.peers \in Nat
          /\ minted + Cardinality(Starts(cmds)) + left.calls + left.peers <= MaxSid
      BY StartsFinite, RoomsAssumption
         DEF Types, MintInv, Mint, OtherTypes, UiThread, Budget
    <3> QED BY <3>1 DEF Sids
  <2> QED BY <2>1 DEF Types, TypeOK, UiThread, UiTypes, OtherTypes, Net, Calls, Prefs
<1> QED BY <1>1, TypesInit, TypesStep, PTL DEF Spec

---------------------------------------------------------------------------
(* Privacy                                                                 *)
(*                                                                         *)
(* What the net thread will have done once it has read the commands: of    *)
(* those that touch the microphone (the camera) the last one obeys pref,   *)
(* and if none does the session obeys it already.                          *)

SesMuted == Running => ses.muted
SesDark  == Running => After(ses.ctl, {FALSE}, {TRUE}, ~ses.open)

Silence  == {m \in Commands : m.k \in {"stop", "leave"}}
MuteHits == Silence \cup {m \in Commands : m.k = "mute" /\ m.on}
                    \cup {m \in Commands : m.k = "dial" /\ m.muted}
MuteEnds == {m \in Commands : m.k = "mute" /\ ~m.on}
            \cup {m \in Commands : m.k = "dial" /\ ~m.muted}
DarkHits == Silence \cup {m \in Commands : m.k = "camera" /\ ~m.on}
                    \cup {m \in Commands : m.k = "dial" /\ ~m.camera}
DarkEnds == {m \in Commands : m.k = "camera" /\ m.on}
            \cup {m \in Commands : m.k = "dial" /\ m.camera}

MutedInv == left.mic /\ pref.muted => After(cmds, MuteHits, MuteEnds, SesMuted)
DarkInv  == ~pref.camera => After(cmds, DarkHits, DarkEnds, SesDark)

LEMMA SentSilent ==
    ASSUME cmds \in Seq(Commands), pref \in Prefs, pref' \in Prefs, left \in Budget,
           left' \in Budget, UNCHANGED ses, MutedInv, DarkInv, Sent
    PROVE  MutedInv' /\ DarkInv'
<1>1. SesMuted \in BOOLEAN /\ SesDark \in BOOLEAN /\ SesMuted' = SesMuted /\ SesDark' = SesDark
  BY DEF SesMuted, SesDark, Running
<1>2. CASE SentNothing
  BY <1>1, <1>2 DEF SentNothing, PrefKept, MutedInv, DarkInv
<1>3. ASSUME NEW m \in Commands, SentOne(m) PROVE MutedInv' /\ DarkInv'
  <2>1. /\ cmds' = Append(cmds, m) /\ Agrees(m, pref') /\ left'.mic = left.mic
        /\ \/ PrefKept
           \/ m.k = "mute" /\ pref'.camera = pref.camera
           \/ m.k = "camera" /\ pref'.muted = pref.muted
    BY <1>3 DEF SentOne
  <2>2. ASSUME left.mic, pref'.muted PROVE After(cmds', MuteHits, MuteEnds, SesMuted)
    <3>1. m \notin MuteEnds
      BY <2>1, <2>2 DEF Agrees, MuteEnds
    <3>2. CASE pref.muted
      <4>1. After(cmds, MuteHits, MuteEnds, SesMuted)
        BY <2>2, <3>2 DEF MutedInv
      <4> QED BY <1>1, <2>1, <3>1, <4>1, AfterKept
    <3>3. CASE ~pref.muted
      <4>1. m.k = "mute" /\ m.on = pref'.muted
        BY <2>1, <2>2, <3>3 DEF PrefKept, Agrees
      <4>2. m \in MuteHits
        BY <2>2, <4>1 DEF MuteHits
      <4> QED BY <1>1, <2>1, <4>2, AfterHit
    <3> QED BY <3>2, <3>3
  <2>3. ASSUME ~pref'.camera PROVE After(cmds', DarkHits, DarkEnds, SesDark)
    <3>1. m \notin DarkEnds
      BY <2>1, <2>3 DEF Agrees, DarkEnds
    <3>2. CASE ~pref.camera
      <4>1. After(cmds, DarkHits, DarkEnds, SesDark)
        BY <3>2 DEF DarkInv
      <4> QED BY <1>1, <2>1, <3>1, <4>1, AfterKept
    <3>3. CASE pref.camera
      <4>1. m.k = "camera" /\ m.on = pref'.camera
        BY <2>1, <2>3, <3>3 DEF PrefKept, Agrees
      <4>2. m \in DarkHits
        BY <2>3, <4>1 DEF DarkHits
      <4> QED BY <1>1, <2>1, <4>2, AfterHit
    <3> QED BY <3>2, <3>3
  <2> QED BY <1>1, <2>1, <2>2, <2>3 DEF MutedInv, DarkInv
<1>4. CASE SentLeave
  <2>1. PICK m \in Commands : m.k = "leave" /\ cmds' = Append(Append(cmds, m), [k |-> "stop"])
    BY <1>4 DEF SentLeave
  <2>2. PICK n \in Commands : n = [k |-> "stop"]
    BY Names
  <2>3. PICK q \in Seq(Commands) : q = Append(cmds, m)
    BY AppendProperties
  <2>4. n \in MuteHits /\ n \in DarkHits /\ cmds' = Append(q, n)
    BY <2>1, <2>2, <2>3 DEF MuteHits, DarkHits, Silence
  <2>5. /\ After(cmds', MuteHits, MuteEnds, SesMuted)
        /\ After(cmds', DarkHits, DarkEnds, SesDark)
    BY <1>1, <2>4, AfterHit
  <2> QED BY <1>1, <2>5 DEF MutedInv, DarkInv
<1> QED BY <1>2, <1>3, <1>4 DEF Sent

\* A command that has its say on the session.
LEMMA ApplySilent ==
    ASSUME ses \in Session \cup {NoSession}, left \in Budget, cmds \in Seq(Commands), Apply
    PROVE  /\ Head(cmds) \in MuteHits => SesMuted'
           /\ SesMuted /\ Head(cmds) \notin MuteEnds => SesMuted'
           /\ Head(cmds) \in DarkHits => SesDark'
           /\ SesDark /\ Head(cmds) \notin DarkEnds => SesDark'
<1>1. PICK e \in Commands : e = Head(cmds)
  BY DEF Apply
<1> DEFINE Goal == /\ e \in MuteHits => SesMuted'
                   /\ SesMuted /\ e \notin MuteEnds => SesMuted'
                   /\ e \in DarkHits => SesDark'
                   /\ SesDark /\ e \notin DarkEnds => SesDark'
<1> SUFFICES Goal
  BY <1>1
<1>2. CASE e.k \in {"start", "join", "connect"} /\ UNCHANGED ses
  <2>1. e \notin MuteHits /\ e \notin DarkHits
    BY <1>2 DEF MuteHits, DarkHits, Silence
  <2>2. (SesMuted' <=> SesMuted) /\ (SesDark' <=> SesDark)
    BY <1>2 DEF SesMuted, SesDark, Running
  <2> QED BY <2>1, <2>2
<1>3. CASE ses' = NoSession
  BY <1>3 DEF SesMuted, SesDark, Running
<1>4. CASE e.k = "dial" /\ ses' = NewSession(e)
  <2>1. /\ ses'.muted = (e.muted \/ ~left.mic) /\ ses'.ctl = <<>>
        /\ ses'.open = (e.camera /\ left.camera = "works")
    BY <1>4 DEF NewSession
  <2>2. e.muted => SesMuted'
    BY <2>1 DEF SesMuted
  <2>3. ~e.camera => SesDark'
    <3>1. \A P : P => After(<<>>, {FALSE}, {TRUE}, P)
      BY DEF After
    <3>2. ~e.camera => ~ses'.open
      BY <2>1
    <3> QED BY <2>1, <3>1, <3>2 DEF SesDark
  <2>4. /\ e \in MuteHits => e.muted
        /\ e \notin MuteEnds => e.muted
        /\ e \in DarkHits => ~e.camera
        /\ e \notin DarkEnds => ~e.camera
    BY <1>4 DEF MuteHits, MuteEnds, DarkHits, DarkEnds, Silence
  <2> QED BY <2>2, <2>3, <2>4
<1>5. CASE e.k = "mute" /\ ses' = IF Running THEN [ses EXCEPT !.muted = e.on] ELSE ses
  <2>1. CASE Running
    <3>1. ses \in Session /\ ses' = [ses EXCEPT !.muted = e.on]
      BY <1>5, <2>1 DEF Running
    <3>2. ses'.muted = e.on /\ ses'.ctl = ses.ctl /\ ses'.open = ses.open
      BY <3>1 DEF Session
    <3>3. SesDark => SesDark'
      BY <2>1, <3>2 DEF SesDark
    <3>4. e.on => SesMuted'
      BY <3>2 DEF SesMuted
    <3>5. e \notin DarkHits /\ (e \in MuteHits => e.on) /\ (e \notin MuteEnds => e.on)
      BY <1>5 DEF MuteHits, MuteEnds, DarkHits, Silence
    <3> QED BY <3>3, <3>4, <3>5
  <2>2. CASE ~Running
    BY <1>5, <2>2 DEF SesMuted, SesDark, Running
  <2> QED BY <2>1, <2>2
<1>6. CASE e.k = "camera" /\ ses' = IF Running THEN [ses EXCEPT !.ctl = Append(@, e.on)] ELSE ses
  <2>1. CASE Running
    <3>1. ses \in Session /\ ses' = [ses EXCEPT !.ctl = Append(ses.ctl, e.on)]
      BY <1>6, <2>1 DEF Running
    <3>2. ses'.muted = ses.muted /\ ses'.ctl = Append(ses.ctl, e.on) /\ ses'.open = ses.open
      BY <3>1 DEF Session
    <3>3. SesMuted => SesMuted'
      BY <2>1, <3>2 DEF SesMuted
    <3>4. ~e.on => SesDark'
      <4>1. ASSUME ~e.on PROVE After(ses'.ctl, {FALSE}, {TRUE}, ~ses'.open)
        <5>1. e.on \in BOOLEAN /\ ses.ctl \in Seq(BOOLEAN) /\ (~ses'.open) \in BOOLEAN
          BY <1>6, <3>1, CommandFields DEF Session
        <5>2. e.on \in {FALSE}
          BY <4>1, <5>1
        <5>3. After(Append(ses.ctl, e.on), {FALSE}, {TRUE}, ~ses'.open)
          BY <5>1, <5>2, AfterHit
        <5> QED BY <3>2, <5>3
      <4> QED BY <4>1 DEF SesDark
    <3>5. e \notin MuteHits /\ (e \in DarkHits => ~e.on) /\ (e \notin DarkEnds => ~e.on)
      BY <1>6 DEF MuteHits, DarkHits, DarkEnds, Silence
    <3> QED BY <3>3, <3>4, <3>5
  <2>2. CASE ~Running
    BY <1>6, <2>2 DEF SesMuted, SesDark, Running
  <2> QED BY <2>1, <2>2
<1>7. \/ e.k \in {"start", "join", "connect"} /\ UNCHANGED ses
      \/ ses' = NoSession
      \/ e.k = "dial" /\ ses' = NewSession(e)
      \/ e.k = "mute" /\ ses' = IF Running THEN [ses EXCEPT !.muted = e.on] ELSE ses
      \/ e.k = "camera" /\ ses' = IF Running THEN [ses EXCEPT !.ctl = Append(@, e.on)] ELSE ses
  BY <1>1, Zenon DEF Apply, Claim
<1> QED BY <1>2, <1>3, <1>4, <1>5, <1>6, <1>7

LEMMA TaskSilent ==
    ASSUME ses \in Session \cup {NoSession}, TaskStep
    PROVE  (SesMuted => SesMuted') /\ (SesDark => SesDark')
<1>1. ses \in Session
  BY DEF TaskStep, DialSucceeds, DialFails, Ends, Control
<1>2. CASE DialSucceeds
  <2>1. ses.phase = "dial" /\ ses' = [ses EXCEPT !.phase = "live"] /\ ses # NoSession
    BY <1>2 DEF DialSucceeds
  <2>2. Running /\ ses'.muted = ses.muted /\ ses'.ctl = ses.ctl /\ ses'.open = ses.open
    BY <1>1, <2>1 DEF Session, Running
  <2> QED BY <2>2 DEF SesMuted, SesDark
<1>3. CASE DialFails \/ Ends
  <2>1. ses' = [ses EXCEPT !.phase = "over", !.open = FALSE, !.ctl = <<>>]
    BY <1>3 DEF DialFails, Ends
  <2>2. ses'.phase = "over"
    BY <1>1, <2>1 DEF Session
  <2> QED BY <2>2 DEF SesMuted, SesDark, Running
<1>4. CASE Control
  <2> DEFINE on  == Head(ses.ctl)
             now == on /\ (ses.open \/ left.camera = "works")
  <2>1. /\ ses # NoSession /\ ses.phase = "live" /\ ses.ctl # <<>>
        /\ ses' = [ses EXCEPT !.ctl = Tail(ses.ctl), !.open = now]
    BY <1>1, <1>4 DEF Control
  <2>2. Running /\ ses'.muted = ses.muted /\ ses'.ctl = Tail(ses.ctl) /\ ses'.open = now
    BY <1>1, <2>1 DEF Session, Running
  <2>3. SesMuted => SesMuted'
    BY <2>2 DEF SesMuted
  <2>4. ASSUME After(ses.ctl, {FALSE}, {TRUE}, ~ses.open)
        PROVE  After(ses'.ctl, {FALSE}, {TRUE}, ~ses'.open)
    <3>1. ses.ctl \in Seq(BOOLEAN) /\ (~ses.open) \in BOOLEAN /\ (~ses'.open) \in BOOLEAN
      BY <1>1 DEF Session
    <3>2. on \in BOOLEAN
      BY <2>1, <3>1, TailType
    <3>3. (on \in {FALSE} \/ on \notin {TRUE}) => ~ses'.open
      BY <2>2, <3>2
    <3>4. After(Tail(ses.ctl), {FALSE}, {TRUE}, ~ses'.open)
      BY <2>1, <2>4, <3>1, <3>3, AfterTail
    <3> QED BY <2>2, <3>4
  <2>5. SesDark => SesDark'
    BY <2>2, <2>4 DEF SesDark
  <2> QED BY <2>3, <2>5
<1> QED BY <1>2, <1>3, <1>4 DEF TaskStep

PrivacyInv == MutedInv /\ DarkInv

LEMMA PrivacyStep == Types /\ Types' /\ PrivacyInv /\ [Next]_vars => PrivacyInv'
<1> SUFFICES ASSUME Types, Types', PrivacyInv, [Next]_vars PROVE PrivacyInv'
  OBVIOUS
<1>0. /\ cmds \in Seq(Commands) /\ pref \in Prefs /\ pref' \in Prefs /\ left \in Budget
      /\ left' \in Budget /\ ses \in Session \cup {NoSession} /\ MutedInv /\ DarkInv
  BY DEF Types, UiThread, UiTypes, OtherTypes, Net, PrivacyInv
<1>1. SesMuted \in BOOLEAN /\ SesDark \in BOOLEAN /\ SesMuted' \in BOOLEAN /\ SesDark' \in BOOLEAN
  BY DEF SesMuted, SesDark
<1>2. ASSUME UNCHANGED <<cmds, pref>>, left'.mic = left.mic,
             SesMuted => SesMuted', SesDark => SesDark'
      PROVE  PrivacyInv'
  <2>1. left'.mic /\ pref'.muted => After(cmds', MuteHits, MuteEnds, SesMuted')
    BY <1>0, <1>1, <1>2, AfterMore DEF MutedInv
  <2>2. ~pref'.camera => After(cmds', DarkHits, DarkEnds, SesDark')
    BY <1>0, <1>1, <1>2, AfterMore DEF DarkInv
  <2> QED BY <2>1, <2>2 DEF PrivacyInv, MutedInv, DarkInv
<1>3. UNCHANGED ses => (SesMuted => SesMuted') /\ (SesDark => SesDark')
  BY DEF SesMuted, SesDark, Running
<1>4. CASE UiStep
  <2>1. Sent /\ UNCHANGED ses
    BY <1>4, UiSteps DEF netVars
  <2> QED BY <1>0, <2>1, SentSilent DEF PrivacyInv
<1>5. CASE Apply
  <2>1. cmds # <<>> /\ cmds' = Tail(cmds) /\ UNCHANGED <<pref, left>>
    BY <1>5 DEF Apply, uiVars
  <2>2. left.mic /\ pref.muted => After(cmds', MuteHits, MuteEnds, SesMuted')
    <3> SUFFICES ASSUME left.mic, pref.muted PROVE After(cmds', MuteHits, MuteEnds, SesMuted')
      OBVIOUS
    <3>1. After(cmds, MuteHits, MuteEnds, SesMuted)
      BY <1>0 DEF MutedInv
    <3>2. /\ Head(cmds) \in MuteHits => SesMuted'
          /\ SesMuted /\ Head(cmds) \notin MuteEnds => SesMuted'
      BY <1>0, <1>5, ApplySilent
    <3>3. After(Tail(cmds), MuteHits, MuteEnds, SesMuted')
      BY <1>0, <1>1, <2>1, <3>1, <3>2, AfterTail
    <3> QED BY <2>1, <3>3
  <2>3. ~pref.camera => After(cmds', DarkHits, DarkEnds, SesDark')
    <3> SUFFICES ASSUME ~pref.camera PROVE After(cmds', DarkHits, DarkEnds, SesDark')
      OBVIOUS
    <3>1. After(cmds, DarkHits, DarkEnds, SesDark)
      BY <1>0 DEF DarkInv
    <3>2. /\ Head(cmds) \in DarkHits => SesDark'
          /\ SesDark /\ Head(cmds) \notin DarkEnds => SesDark'
      BY <1>0, <1>5, ApplySilent
    <3>3. After(Tail(cmds), DarkHits, DarkEnds, SesDark')
      BY <1>0, <1>1, <2>1, <3>1, <3>2, AfterTail
    <3> QED BY <2>1, <3>3
  <2> QED BY <2>1, <2>2, <2>3 DEF PrivacyInv, MutedInv, DarkInv
<1>6. CASE Forward
  <2>1. UNCHANGED <<cmds, pref, left>> /\ (ses' = ses \/ ses' = NoSession)
    BY <1>6 DEF Forward, uiVars, netVars
  <2>2. (SesMuted => SesMuted') /\ (SesDark => SesDark')
    BY <1>3, <2>1 DEF SesMuted, SesDark, Running
  <2> QED BY <1>2, <2>1, <2>2
<1>7. CASE TaskStep
  <2>1. UNCHANGED <<uiVars, cmds>> /\ left'.mic = left.mic
    BY <1>7, TaskTypes DEF Types
  <2> QED BY <1>0, <1>2, <1>7, <2>1, TaskSilent DEF uiVars
<1>8. ASSUME NEW c \in Rooms, Peer(c) PROVE PrivacyInv'
  <2>1. UNCHANGED <<uiVars, cmds, netVars>> /\ Spend("peers")
    BY <1>8 DEF Peer
  <2>2. left'.mic = left.mic
    BY <1>0, <2>1, SpendType
  <2> QED BY <1>2, <1>3, <2>1, <2>2 DEF uiVars, netVars
<1>9. CASE Drop
  <2>1. UNCHANGED <<uiVars, cmds, netVars>> /\ Spend("drops")
    BY <1>9 DEF Drop
  <2>2. left'.mic = left.mic
    BY <1>0, <2>1, SpendType
  <2> QED BY <1>2, <1>3, <2>1, <2>2 DEF uiVars, netVars
<1>10. CASE UNCHANGED vars
  BY <1>2, <1>3, <1>10 DEF vars, uiVars, netVars
<1> QED BY <1>4, <1>5, <1>6, <1>7, <1>8, <1>9, <1>10 DEF Next, UiStep, TaskStep

\* Muted on the screen is muted, camera off is a closed camera: whatever
\* toggles, redials and reports of devices crossed on the way, once all is
\* settled the session in the net thread obeys what the call shows.
THEOREM PrivacyCorrect == Spec => []PrivacyKept
<1>1. Init => PrivacyInv
  <2> SUFFICES ASSUME Init PROVE PrivacyInv
    OBVIOUS
  <2>1. SesMuted /\ SesDark /\ cmds = <<>>
    BY DEF Init, SesMuted, SesDark, Running
  <2> QED BY <2>1 DEF PrivacyInv, MutedInv, DarkInv, After
<1>2. Types /\ PrivacyInv => PrivacyKept
  <2> SUFFICES ASSUME Types, PrivacyInv, AtRest, InCall, Running
               PROVE  (lc.muted /\ left.mic => ses.muted) /\ (~lc.camera => ~ses.open)
    BY DEF PrivacyKept
  <2>1. cmds = <<>> /\ ses.ctl = <<>> /\ lc.muted = pref.muted /\ lc.camera = pref.camera
    BY DEF AtRest, Running, Types, PrefInv
  <2>2. lc.muted /\ left.mic => ses.muted
    BY <2>1 DEF PrivacyInv, MutedInv, After, SesMuted
  <2>3. ~lc.camera => SesDark
    BY <2>1 DEF PrivacyInv, DarkInv, After
  <2>4. ~lc.camera => ~ses.open
    BY <2>1, <2>3 DEF SesDark, After
  <2> QED BY <2>2, <2>4
<1>3. Spec => [](Types /\ PrivacyInv)
  <2>1. Types /\ PrivacyInv /\ [Next]_vars => (Types /\ PrivacyInv)'
    BY TypesStep, PrivacyStep
  <2> QED BY <1>1, <2>1, TypesInit, PTL DEF Spec
<1> QED BY <1>2, <1>3, PTL

---------------------------------------------------------------------------
(* The redial                                                              *)

\* Media that are down have a redial coming, or wait for an id or a token; media
\* that are live have none; a token names the call it is for.
RedialInv == InCall => /\ lc.media = "idle" => redial \/ lc.sid = 0 \/ lc.tok = 0
                       /\ lc.media = "live" => ~redial
                       /\ lc.tok # 0 => lc.sid # 0

\* Whatever ends in a dial leaves no call behind that could be dialled.
LEMMA DialLeaves ==
    ASSUME NeedToken, NEW call \in Call, Dial(call), call.tok # 0 => call.sid # 0,
           call.media = "live" => ~redial'
    PROVE  RedialInv'
<1>1. lc' = Tried(call)
  BY DEF Dial
<1>2. CASE CanDial(call)
  <2>1. lc' = [call EXCEPT !.media = "connecting"]
    BY <1>1, <1>2 DEF Tried
  <2>2. lc'.media = "connecting" /\ lc'.sid = call.sid /\ lc'.tok = call.tok
    BY <2>1 DEF Call
  <2> QED BY <2>2 DEF RedialInv
<1>3. CASE ~CanDial(call)
  <2>1. lc' = call
    BY <1>1, <1>3 DEF Tried
  <2> QED BY <1>3, <2>1 DEF RedialInv, CanDial
<1> QED BY <1>2, <1>3

LEMMA NewCallLeaves ==
    ASSUME NEW c, NEW sid, NEW inst, NEW await, lc' = NewCall(c, sid, inst, await)
    PROVE  RedialInv'
  BY DEF NewCall, RedialInv

\* A call that keeps its media, id and token, and its redial.
LEMMA SameCall ==
    ASSUME RedialInv, InCall, redial' = redial,
           lc'.media = lc.media, lc'.sid = lc.sid, lc'.tok = lc.tok
    PROVE  RedialInv'
  BY DEF RedialInv

LEMMA NoCallLeaves == lc' = NoCall => RedialInv'
  BY DEF RedialInv, InCall

LEMMA ClickRedial ==
    ASSUME NeedToken, Types, RedialInv, Clicks \/ PollRedial \/ Reconnect
    PROVE  RedialInv'
<1>0. lc \in Call \cup {NoCall}
  BY DEF Types, UiThread, UiTypes
<1>1. ASSUME NEW c \in Rooms, AvStart(c) \/ AvJoin(c) PROVE RedialInv'
  BY <1>1, NewCallLeaves DEF AvStart, AvJoin
<1>2. CASE AvLeave
  BY <1>2, NoCallLeaves DEF AvLeave
<1>3. CASE AvToggleMute \/ AvToggleCamera
  <2>1. /\ InCall /\ lc \in Call /\ redial' = redial
        /\ \/ lc' = [lc EXCEPT !.muted = ~lc.muted]
           \/ lc' = [lc EXCEPT !.camera = ~lc.camera]
    BY <1>0, <1>3 DEF AvToggleMute, AvToggleCamera, InCall
  <2>2. lc'.media = lc.media /\ lc'.sid = lc.sid /\ lc'.tok = lc.tok
    BY <2>1 DEF Call
  <2> QED BY <2>1, <2>2, SameCall
<1>4. CASE PollRedial
  <2>1. CASE InCall /\ lc.sid # 0
    <3>1. Dial([lc EXCEPT !.media = "idle"]) /\ lc \in Call
      BY <1>0, <1>4, <2>1 DEF PollRedial, InCall
    <3>2. PICK call \in Call : call = [lc EXCEPT !.media = "idle"]
      BY <3>1 DEF Call, Media
    <3>3. call.sid = lc.sid /\ call.media = "idle"
      BY <3>1, <3>2 DEF Call
    <3> QED BY <2>1, <3>1, <3>2, <3>3, DialLeaves
  <2>2. CASE ~(InCall /\ lc.sid # 0)
    BY <1>4, <2>2 DEF PollRedial, RedialInv, InCall
  <2> QED BY <2>1, <2>2
<1>5. CASE Reconnect
  BY <1>5 DEF Reconnect, uiVars, RedialInv, InCall
<1> QED BY <1>1, <1>2, <1>3, <1>4, <1>5 DEF Clicks

LEMMA EventRedial ==
    ASSUME NeedToken, Types, RedialInv, HandleEvent
    PROVE  RedialInv'
<1>0. /\ lc \in Call \cup {NoCall} /\ pref \in Prefs
  BY DEF Types, UiThread, UiTypes
<1>1. PICK e \in Events : e = Head(evs)
  BY DEF HandleEvent, Types, Net, Reports, ReportsOf
<1>2. \/ e.k = "collision" /\ Collision(e)
      \/ JoinFailed(e)
      \/ e.k = "signal" /\ Signalled(e)
      \/ e.k = "status" /\ MediaStatus(e)
      \/ e.k = "token" /\ Token(e)
      \/ e.k = "state" /\ AvState(e)
      \/ ClaimFailed
      \/ Disconnected
      \/ UNCHANGED <<lc, redial>>
  BY <1>1, Zenon DEF HandleEvent, uiVars
<1>3. CASE e.k = "collision" /\ Collision(e)
  BY <1>3, NewCallLeaves DEF Collision
<1>4. CASE UNCHANGED <<lc, redial>>
  BY <1>4 DEF RedialInv, InCall
<1>5. CASE JoinFailed(e) \/ ClaimFailed \/ Disconnected
  <2>1. lc' = NoCall \/ UNCHANGED <<lc, redial>>
    BY <1>5, Zenon DEF JoinFailed, ClaimFailed, Disconnected
  <2> QED BY <1>4, <2>1, NoCallLeaves
<1>6. CASE e.k = "signal" /\ Signalled(e)
  <2>0. e.chan \in Rooms /\ e.sid \in Sids
    BY <1>6, EventFields
  <2>1. PICK had \in Call : had = IF InCall THEN lc ELSE NewCall(e.chan, e.sid, TRUE, e.sid = 0)
    <3>1. NewCall(e.chan, e.sid, TRUE, e.sid = 0) \in Call
      BY <1>0, <2>0, NewCallType
    <3> QED BY <1>0, <3>1 DEF InCall
  <2>2. PICK s \in Sids : s = IF e.sid = 0 THEN had.sid ELSE e.sid
    BY <2>0 DEF Call
  <2>3. PICK a \in BOOLEAN : a = (e.sid = 0)
    OBVIOUS
  <2>4. PICK call : call = [had EXCEPT !.chan = e.chan, !.inst = TRUE, !.await = a, !.sid = s]
    OBVIOUS
  <2>5. call \in Call /\ call.sid = s /\ call.tok = had.tok /\ call.media = had.media
    BY <2>0, <2>4 DEF Call
  <2>6. /\ IF e.sid # 0 THEN Dial(call) ELSE lc' = call /\ UNCHANGED cmds
        /\ redial' = redial
    BY <1>6, <2>1, <2>2, <2>3, <2>4, Zenon DEF Signalled
  <2>7. CASE e.sid # 0
    <3>1. call.media = "live" => ~redial'
      BY <2>1, <2>5, <2>6 DEF NewCall, RedialInv
    <3> QED BY <2>2, <2>5, <2>6, <2>7, <3>1, DialLeaves
  <2>8. CASE e.sid = 0 /\ InCall
    BY <2>1, <2>2, <2>5, <2>6, <2>8, SameCall
  <2>9. CASE e.sid = 0 /\ ~InCall
    <3>1. had.tok = 0 /\ had.media = "idle"
      BY <2>1, <2>9 DEF NewCall
    <3> QED BY <2>5, <2>6, <2>9, <3>1 DEF RedialInv
  <2> QED BY <2>7, <2>8, <2>9
<1>7. CASE e.k = "status" /\ MediaStatus(e)
  <2>1. CASE ~InCall
    <3>1. lc' = lc
      BY <1>7, <2>1 DEF MediaStatus
    <3> QED BY <2>1, <3>1 DEF RedialInv, InCall
  <2>2. CASE InCall
    <3>1. PICK h, u : lc' = [lc EXCEPT
               !.media = IF e.st = "idle" /\ lc.media = "connecting" THEN lc.media ELSE e.st,
               !.hascam = h, !.muted = u]
      BY <1>7, <2>2, Zenon DEF MediaStatus
    <3>2. lc \in Call
      BY <1>0, <2>2 DEF InCall
    <3>3. /\ lc'.sid = lc.sid /\ lc'.tok = lc.tok
          /\ lc'.media = IF e.st = "idle" /\ lc.media = "connecting" THEN lc.media ELSE e.st
      BY <3>1, <3>2 DEF Call
    <3>4. redial' = ((e.st \in {"idle", "failed"} /\ InCall
                         /\ ~(InCall /\ lc.media = "connecting"))
                     \/ (redial /\ ~(e.st = "live")))
      BY <1>7, Zenon DEF MediaStatus
    <3> QED BY <2>2, <3>3, <3>4 DEF RedialInv
  <2> QED BY <2>1, <2>2
<1>8. CASE e.k = "token" /\ Token(e)
  <2>1. CASE InCall /\ lc.sid \in {0, e.sid}
    <3>1. /\ Dial([lc EXCEPT !.sid = e.sid, !.tok = e.sid, !.await = FALSE]) /\ lc \in Call
      BY <1>0, <1>8, <2>1 DEF Token, InCall
    <3>2. e.sid \in Sids /\ e.sid # 0
      BY <1>8, EventFields
    <3>3. PICK call \in Call : call = [lc EXCEPT !.sid = e.sid, !.tok = e.sid, !.await = FALSE]
      BY <3>1, <3>2 DEF Call
    <3>4. call.sid = e.sid /\ call.media = lc.media
      BY <3>1, <3>3 DEF Call
    <3>5. call.media = "live" => ~redial'
      BY <1>8, <2>1, <3>4 DEF Token, RedialInv
    <3> QED BY <3>1, <3>2, <3>3, <3>4, <3>5, DialLeaves
  <2>2. CASE ~(InCall /\ lc.sid \in {0, e.sid})
    BY <1>4, <1>8, <2>2 DEF Token
  <2> QED BY <2>1, <2>2
<1>9. CASE e.k = "state" /\ AvState(e)
  <2>0. e.sid \in Sids /\ e.sid # 0
    BY <1>9, EventFields
  <2>1. CASE InCall /\ Dial([lc EXCEPT !.sid = e.sid, !.await = FALSE]) /\ redial' = redial
    <3>1. PICK call \in Call : call = [lc EXCEPT !.sid = e.sid, !.await = FALSE]
      BY <1>0, <2>0, <2>1 DEF InCall, Call
    <3>2. call.sid = e.sid /\ call.media = lc.media
      BY <1>0, <2>1, <3>1 DEF InCall, Call
    <3>3. call.media = "live" => ~redial'
      BY <2>1, <3>2 DEF RedialInv
    <3> QED BY <2>0, <2>1, <3>1, <3>2, <3>3, DialLeaves
  <2>2. CASE lc' = NoCall
    BY <2>2, NoCallLeaves
  <2>3. CASE /\ InCall /\ lc' = [lc EXCEPT !.sid = IF @ = 0 THEN e.sid ELSE @]
             /\ redial' = redial
    <3>1. lc \in Call
      BY <1>0, <2>3 DEF InCall
    <3>2. lc'.media = lc.media /\ lc'.tok = lc.tok
          /\ lc'.sid = IF lc.sid = 0 THEN e.sid ELSE lc.sid
      BY <2>3, <3>1 DEF Call
    <3> QED BY <2>0, <2>3, <3>2 DEF RedialInv
  <2>4. CASE UNCHANGED <<lc, redial>>
    BY <1>4, <2>4
  <2> QED BY <1>9, <2>1, <2>2, <2>3, <2>4, Zenon DEF AvState
<1> QED BY <1>2, <1>3, <1>4, <1>5, <1>6, <1>7, <1>8, <1>9

\* Wherever the SFU wants a token, a call whose media session ended has a redial
\* coming, and one whose media are live has none: nothing that is read in between
\* forgets or repeats it.  Of a dial that failed it says nothing.
THEOREM RedialCorrect == ASSUME NeedToken PROVE Spec => []RedialComes
<1>1. Init => RedialInv
  BY DEF Init, RedialInv, InCall
<1>2. Types /\ RedialInv /\ [Next]_vars => RedialInv'
  <2> SUFFICES ASSUME Types, RedialInv, [Next]_vars PROVE RedialInv'
    OBVIOUS
  <2>1. CASE Clicks \/ PollRedial \/ Reconnect
    BY <2>1, ClickRedial
  <2>2. CASE HandleEvent
    BY <2>2, EventRedial
  <2>3. CASE UNCHANGED uiVars
    BY <2>3 DEF uiVars, RedialInv, InCall
  <2>4. CASE Apply \/ Forward \/ Drop \/ TaskStep \/ (\E c \in Rooms : Peer(c)) \/ UNCHANGED vars
    <3>1. UNCHANGED uiVars
      BY <2>4 DEF Apply, Forward, Drop, TaskStep, Peer, DialSucceeds, DialFails, Ends,
                  Control, InTask, vars
    <3> QED BY <2>3, <3>1
  <2> QED BY <2>1, <2>2, <2>4 DEF Next, TaskStep
<1>3. RedialInv => RedialComes
  BY DEF RedialInv, RedialComes
<1>4. Spec => []RedialInv
  <2>1. Types /\ RedialInv /\ [Next]_vars => (Types /\ RedialInv)'
    BY <1>2, TypesStep
  <2> QED BY <1>1, <2>1, TypesInit, PTL DEF Spec
<1> QED BY <1>3, <1>4, PTL

---------------------------------------------------------------------------
(* What the steps do, as far as calls and media go                         *)

CmdOf(ks)  == {m \in Commands : m.k \in ks}
EvOf(ks)   == {m \in Events : m.k \in ks}
LineOf(ks) == {m \in Lines : m.k \in ks}
Says(sts)  == {m \in Events : m.k = "status" /\ m.st \in sts}

LEMMA CallIsOne == \A call \in Call : call # NoCall
<1> SUFFICES ASSUME NEW call \in Call, call = NoCall PROVE FALSE
  OBVIOUS
<1>1. "sid" \in DOMAIN call
  BY DEF Call
<1>2. "sid" \notin DOMAIN NoCall
  BY DEF NoCall
<1> QED BY <1>1, <1>2

\* The slot holds the same call as before.
Keeps == /\ InCall' <=> InCall
         /\ InCall => /\ lc'.chan = lc.chan /\ lc'.sid = lc.sid
                      /\ lc'.tok = lc.tok /\ lc'.await = lc.await

\* A call whose media were med is dialled, if it can be.
Dials(med) ==
    \/ cmds' = cmds /\ lc'.media = med
    \/ /\ lc'.media = "connecting" /\ (NeedToken => lc'.tok # 0)
       /\ \E m \in Commands : /\ m.k = "dial" /\ m.sid = lc'.sid
                              /\ cmds' = Append(cmds, m)

LEMMA DialDoes ==
    ASSUME cmds \in Seq(Commands), NEW call \in Call, Dial(call)
    PROVE  /\ InCall' /\ Dials(call.media)
           /\ lc'.chan = call.chan /\ lc'.sid = call.sid
           /\ lc'.tok = call.tok /\ lc'.await = call.await
<1>1. lc' = Tried(call)
  BY DEF Dial
<1>2. InCall'
  BY DialType, CallIsOne DEF InCall
<1>3. CASE CanDial(call)
  <2>1. lc' = [call EXCEPT !.media = "connecting"]
    BY <1>1, <1>3 DEF Tried
  <2>2. /\ lc'.media = "connecting" /\ lc'.chan = call.chan /\ lc'.sid = call.sid
        /\ lc'.tok = call.tok /\ lc'.await = call.await
    BY <2>1 DEF Call
  <2>3. PICK m \in Commands : m = [k |-> "dial", sid |-> call.sid, muted |-> call.muted,
                                   camera |-> call.camera]
    BY Names DEF Call
  <2>4. cmds' = cmds \o <<m>>
    BY <1>3, <2>3 DEF Dial, Dialling
  <2>5. cmds' = Append(cmds, m) /\ m.k = "dial" /\ m.sid = call.sid
    BY <2>3, <2>4
  <2>6. NeedToken => lc'.tok # 0
    BY <1>3, <2>2 DEF CanDial
  <2> QED BY <1>2, <2>2, <2>5, <2>6 DEF Dials
<1>4. CASE ~CanDial(call)
  <2>1. lc' = call /\ cmds' = cmds \o <<>>
    BY <1>1, <1>4 DEF Tried, Dial, Dialling
  <2> QED BY <1>2, <2>1 DEF Dials
<1> QED BY <1>3, <1>4

LEMMA NewCallIs ==
    ASSUME pref \in Prefs, NEW c \in Rooms, NEW sid \in Sids, NEW inst \in BOOLEAN,
           NEW await \in BOOLEAN, NEW call, call = NewCall(c, sid, inst, await)
    PROVE  /\ call \in Call /\ call # NoCall /\ call.chan = c /\ call.sid = sid
           /\ call.tok = 0 /\ call.await = await /\ call.media = "idle"
<1>1. call \in Call
  BY NewCallType
<1> QED BY <1>1, CallIsOne DEF NewCall

---------------------------------------------------------------------------
(* Clicks                                                                  *)

\* AvStart, AvJoin
Claimed(c) ==
    /\ ~InCall /\ shown /\ shown' = shown /\ Hurry
    /\ InCall' /\ lc'.chan = c /\ lc'.tok = 0 /\ lc'.media = "idle"
    /\ \E m \in CmdOf({"start", "join"}) :
          /\ m.chan = c /\ (m.k = "join" => lc'.sid = m.sid /\ ~lc'.await)
          /\ cmds' = Append(cmds, m)

\* AvLeave
HungUp ==
    /\ InCall /\ ~InCall' /\ shown' = shown /\ Early
    /\ \E m \in CmdOf({"leave"}), n \in CmdOf({"stop"}) :
          /\ m.chan = lc.chan /\ m.sid = lc.sid
          /\ cmds' = Append(Append(cmds, m), n)

Toggled ==
    /\ Keeps /\ InCall /\ lc'.media = lc.media /\ shown' = shown /\ odd' = odd
    /\ \E m \in CmdOf({"mute", "camera"}) : cmds' = Append(cmds, m)

Redialled ==
    /\ Keeps /\ shown' = shown /\ odd' = odd
    /\ \/ InCall /\ Dials("idle")
       \/ UNCHANGED <<lc, cmds>>

Reconnecting ==
    /\ lc' = lc /\ shown' = shown /\ odd' = odd
    /\ ~shown /\ Lacks(cmds, CmdOf({"connect"})) /\ Lacks(evs, EvOf({"online"}))
    /\ \E m \in CmdOf({"connect"}) : cmds' = Append(cmds, m)

LEMMA ConnectIs == /\ \A m \in Commands : m.k = "connect" => m = [k |-> "connect"]
                   /\ \A m \in Events : m.k = "online" => m = [k |-> "online"]
<1>1. \A m \in Commands : m.k = "connect" => m = [k |-> "connect"]
  BY DEF Commands
<1>2. \A m \in Events : m.k = "online" => m = [k |-> "online"]
  BY DEF Events, Answers, Tokens
<1> QED BY <1>1, <1>2

LEMMA ClickDoes ==
    ASSUME UiThread, evs \in Seq(Events), Clicks \/ PollRedial \/ Reconnect
    PROVE  /\ UNCHANGED <<evs, netVars, serverVars, down>>
           /\ \/ \E c \in Rooms : Claimed(c)
              \/ HungUp \/ Toggled \/ Redialled \/ Reconnecting
<1>a. UNCHANGED <<evs, netVars, serverVars, down>>
  BY DEF Clicks, AvStart, AvJoin, AvLeave, AvToggleMute, AvToggleCamera, PollRedial, Reconnect
<1> SUFFICES \/ \E c \in Rooms : Claimed(c)
             \/ HungUp \/ Toggled \/ Redialled \/ Reconnecting
  BY <1>a
<1>0. /\ lc \in Call \cup {NoCall} /\ pref \in Prefs /\ cmds \in Seq(Commands)
      /\ roster \in [Rooms -> Sids] /\ 0 \in Sids
  BY RoomsAssumption DEF UiThread, UiTypes, Sids
<1>1. ASSUME NEW c \in Rooms, AvStart(c) PROVE Claimed(c)
  <2>1. PICK m \in Commands : m = [k |-> "start", chan |-> c]
    BY Names
  <2>2. /\ cmds' = Append(cmds, m) /\ Hurry /\ shown /\ ~InCall /\ shown' = shown
        /\ lc' = NewCall(c, 0, FALSE, TRUE)
    BY <1>1, <2>1 DEF AvStart
  <2>3. lc' # NoCall /\ lc'.chan = c /\ lc'.tok = 0 /\ lc'.media = "idle"
    <3>1. PICK f \in BOOLEAN, t \in BOOLEAN : f = FALSE /\ t = TRUE
      OBVIOUS
    <3>2. lc' = NewCall(c, 0, f, t)
      BY <2>2, <3>1
    <3> QED BY <1>0, <3>2, NewCallIs
  <2>4. InCall' /\ m \in CmdOf({"start", "join"}) /\ m.chan = c /\ m.k # "join"
    BY <2>1, <2>3 DEF InCall, CmdOf
  <2> QED BY <2>2, <2>3, <2>4 DEF Claimed
<1>2. ASSUME NEW c \in Rooms, AvJoin(c) PROVE Claimed(c)
  <2>1. PICK m \in Commands : m = [k |-> "join", chan |-> c, sid |-> roster[c]]
    BY <1>0, <1>2, Names DEF AvJoin
  <2>2. /\ cmds' = Append(cmds, m) /\ Hurry /\ shown /\ ~InCall /\ shown' = shown
        /\ lc' = NewCall(c, roster[c], FALSE, FALSE)
    BY <1>2, <2>1 DEF AvJoin
  <2>3. /\ lc' # NoCall /\ lc'.chan = c /\ lc'.tok = 0 /\ lc'.media = "idle"
        /\ lc'.sid = roster[c] /\ ~lc'.await
    <3>1. PICK f \in BOOLEAN : f = FALSE
      OBVIOUS
    <3>2. lc' = NewCall(c, roster[c], f, f) /\ roster[c] \in Sids
      BY <1>0, <2>2, <3>1
    <3> QED BY <1>0, <3>1, <3>2, NewCallIs
  <2>4. InCall' /\ m \in CmdOf({"start", "join"}) /\ m.chan = c /\ m.sid = roster[c]
    BY <2>1, <2>3 DEF InCall, CmdOf
  <2> QED BY <2>2, <2>3, <2>4 DEF Claimed
<1>3. CASE AvLeave
  <2>1. InCall /\ lc \in Call /\ lc' = NoCall /\ shown' = shown /\ Early
    BY <1>0, <1>3 DEF AvLeave, InCall
  <2>2. PICK m \in Commands : m = [k |-> "leave", chan |-> lc.chan, sid |-> lc.sid]
    BY <2>1, Names DEF Call
  <2>3. PICK n \in Commands : n = [k |-> "stop"]
    BY Names
  <2>4. cmds' = cmds \o <<m, n>>
    BY <1>3, <2>2, <2>3 DEF AvLeave
  <2>5. cmds' = Append(Append(cmds, m), n)
    BY <1>0, <2>4
  <2>6. /\ m \in CmdOf({"leave"}) /\ n \in CmdOf({"stop"})
        /\ m.chan = lc.chan /\ m.sid = lc.sid /\ ~InCall'
    BY <2>1, <2>2, <2>3 DEF InCall, CmdOf
  <2> QED BY <2>1, <2>5, <2>6 DEF HungUp
<1>4. CASE AvToggleMute \/ AvToggleCamera
  <2>1. /\ InCall /\ lc \in Call /\ odd' = odd /\ shown' = shown
        /\ lc.muted \in BOOLEAN /\ lc.camera \in BOOLEAN
    BY <1>0, <1>4 DEF AvToggleMute, AvToggleCamera, InCall, Call
  <2>2. PICK m \in Commands : m.k \in {"mute", "camera"} /\ cmds' = Append(cmds, m)
    <3>1. (~lc.muted) \in BOOLEAN /\ (~lc.camera) \in BOOLEAN
      OBVIOUS
    <3>2. [k |-> "mute", on |-> ~lc.muted] \in Commands
          /\ [k |-> "camera", on |-> ~lc.camera] \in Commands
      BY <3>1, Names
    <3> QED BY <1>4, <3>2 DEF AvToggleMute, AvToggleCamera
  <2>3. lc' = [lc EXCEPT !.muted = ~lc.muted] \/ lc' = [lc EXCEPT !.camera = ~lc.camera]
    BY <1>4 DEF AvToggleMute, AvToggleCamera
  <2>4. /\ lc'.chan = lc.chan /\ lc'.sid = lc.sid /\ lc'.tok = lc.tok
        /\ lc'.await = lc.await /\ lc'.media = lc.media /\ lc' \in Call
    <3>1. (~lc.muted) \in BOOLEAN /\ (~lc.camera) \in BOOLEAN
      OBVIOUS
    <3> QED BY <2>1, <2>3, <3>1 DEF Call
  <2>5. InCall'
    BY <2>4, CallIsOne DEF InCall
  <2>6. m \in CmdOf({"mute", "camera"})
    BY <2>2 DEF CmdOf
  <2>7. Keeps
    BY <2>1, <2>4, <2>5 DEF Keeps
  <2> QED BY <2>1, <2>2, <2>4, <2>6, <2>7 DEF Toggled
<1>5. CASE PollRedial
  <2>1. CASE InCall /\ lc.sid # 0
    <3>1. Dial([lc EXCEPT !.media = "idle"]) /\ lc \in Call /\ shown' = shown /\ odd' = odd
      BY <1>0, <1>5, <2>1 DEF PollRedial, InCall
    <3>2. PICK call \in Call : call = [lc EXCEPT !.media = "idle"]
      BY <3>1 DEF Call, Media
    <3>3. /\ call.media = "idle" /\ call.chan = lc.chan /\ call.sid = lc.sid
          /\ call.tok = lc.tok /\ call.await = lc.await
      BY <3>1, <3>2 DEF Call
    <3>4. /\ InCall' /\ Dials("idle")
          /\ lc'.chan = lc.chan /\ lc'.sid = lc.sid
          /\ lc'.tok = lc.tok /\ lc'.await = lc.await
      BY <1>0, <3>1, <3>2, <3>3, DialDoes
    <3>5. Keeps
      BY <2>1, <3>4 DEF Keeps
    <3> QED BY <2>1, <3>1, <3>4, <3>5 DEF Redialled
  <2>2. CASE ~(InCall /\ lc.sid # 0)
    <3>1. UNCHANGED <<lc, cmds>> /\ shown' = shown /\ odd' = odd
      BY <1>5, <2>2 DEF PollRedial
    <3>2. Keeps
      BY <3>1 DEF Keeps, InCall
    <3> QED BY <3>1, <3>2 DEF Redialled
  <2> QED BY <2>1, <2>2
<1>6. CASE Reconnect
  <2>1. PICK m \in Commands : m = [k |-> "connect"]
    BY Names
  <2>2. /\ cmds' = Append(cmds, m) /\ UNCHANGED <<lc, shown, odd>> /\ ~shown
        /\ [k |-> "connect"] \notin ToSet(cmds) /\ [k |-> "online"] \notin ToSet(evs)
    BY <1>6, <2>1 DEF Reconnect, uiVars
  <2>3. Lacks(cmds, CmdOf({"connect"}))
    <3>1. \A i \in 1..Len(cmds) : cmds[i] \in Commands /\ cmds[i] \in ToSet(cmds)
      BY <1>0 DEF ToSet
    <3> QED BY <2>2, <3>1, ConnectIs DEF Lacks, CmdOf
  <2>4. Lacks(evs, EvOf({"online"}))
    <3>1. \A i \in 1..Len(evs) : evs[i] \in Events /\ evs[i] \in ToSet(evs)
      BY DEF ToSet
    <3> QED BY <2>2, <3>1, ConnectIs DEF Lacks, EvOf
  <2>5. m \in CmdOf({"connect"})
    BY <2>1 DEF CmdOf
  <2> QED BY <2>2, <2>3, <2>4, <2>5 DEF Reconnecting
<1> QED BY <1>1, <1>2, <1>3, <1>4, <1>5, <1>6 DEF Clicks

---------------------------------------------------------------------------
(* Events of the net thread                                                *)

SignalRead(e) ==
    /\ e \in EvOf({"signal"}) /\ shown' = shown /\ odd' = odd
    /\ InCall' /\ lc'.chan = e.chan /\ lc'.await = (e.sid = 0)
    /\ lc'.sid = (IF e.sid # 0 THEN e.sid ELSE IF InCall THEN lc.sid ELSE 0)
    /\ lc'.tok = (IF InCall THEN lc.tok ELSE 0)
    /\ Dials(IF InCall THEN lc.media ELSE "idle")

StatusRead(e) ==
    /\ e \in EvOf({"status"}) /\ shown' = shown /\ odd' = odd /\ Keeps
    /\ InCall => lc'.media = (IF e.st = "idle" /\ lc.media = "connecting" THEN lc.media ELSE e.st)
    /\ cmds' = cmds \/ \E m \in CmdOf({"camera"}) : cmds' = Append(cmds, m)

TokenRead(e) ==
    /\ e \in EvOf({"token"}) /\ shown' = shown /\ odd' = odd
    /\ \/ /\ InCall /\ lc.sid \in {0, e.sid}
          /\ InCall' /\ lc'.chan = lc.chan /\ lc'.sid = e.sid /\ lc'.tok = e.sid /\ ~lc'.await
          /\ Dials(lc.media)
       \/ /\ ~(InCall /\ lc.sid \in {0, e.sid})
          /\ lc' = lc /\ cmds' = cmds

CollisionRead(e) ==
    /\ e \in EvOf({"collision"}) /\ shown' = shown
    /\ InCall' /\ lc'.tok = 0 /\ lc'.sid = e.sid /\ ~lc'.await /\ lc'.media = "idle"
    /\ lc'.chan = (IF InCall /\ (lc.await \/ lc.sid = 0) THEN lc.chan ELSE e.chan)
    /\ odd' = (IF ~InCall \/ lc.chan # lc'.chan \/ lc.media # "idle"
               THEN odd \cup {"hurried"} ELSE odd)
    /\ \E m \in CmdOf({"join"}) :
          m.chan = lc'.chan /\ m.sid = e.sid /\ cmds' = Append(cmds, m)

JoinRefused(e) ==
    /\ e \in EvOf({"joinfailed"}) /\ shown' = shown /\ odd' = odd /\ cmds' = cmds
    /\ \/ InCall /\ lc.sid \in {0, e.sid} /\ lc' = NoCall
       \/ ~(InCall /\ lc.sid \in {0, e.sid}) /\ lc' = lc

Started(e) ==
    /\ InCall /\ lc.chan = e.chan /\ e.act = "started" /\ lc.await /\ odd' = odd
    /\ InCall' /\ lc'.chan = lc.chan /\ lc'.tok = lc.tok /\ lc'.sid = e.sid /\ ~lc'.await
    /\ Dials(lc.media)

Ended(e) ==
    /\ InCall /\ lc.chan = e.chan /\ e.act = "ended" /\ Early /\ ~InCall'
    /\ \E m \in CmdOf({"stop"}) : cmds' = Append(cmds, m)

Heard(e) ==
    /\ InCall /\ lc.chan = e.chan /\ e.act # "ended" /\ odd' = odd /\ cmds' = cmds
    /\ InCall' /\ lc'.chan = lc.chan /\ lc'.tok = lc.tok /\ lc'.await = lc.await
    /\ lc'.media = lc.media /\ lc'.sid = (IF lc.sid = 0 THEN e.sid ELSE lc.sid)

StateRead(e) ==
    /\ e \in EvOf({"state"}) /\ shown' = shown
    /\ \/ Started(e) \/ Ended(e) \/ Heard(e)
       \/ ~(InCall /\ lc.chan = e.chan) /\ lc' = lc /\ cmds' = cmds /\ odd' = odd

ClaimDropped(e) ==
    /\ e \in EvOf({"claimfailed"}) /\ shown' = shown /\ odd' = odd /\ cmds' = cmds
    /\ \/ lc' = NoCall
       \/ ~(InCall /\ (lc.await \/ lc.sid = 0)) /\ lc' = lc

Cut(e) ==
    /\ e \in EvOf({"disconnected"}) /\ ~InCall' /\ ~shown' /\ cmds' = cmds /\ odd' = odd

CameOnline(e) ==
    /\ e \in EvOf({"online"}) /\ shown' /\ lc' = lc /\ cmds' = cmds /\ odd' = odd

Passed(e) ==
    /\ e \in EvOf({"notconnected"})
    /\ lc' = lc /\ shown' = shown /\ cmds' = cmds /\ odd' = odd

LEMMA SignalDoes ==
    ASSUME UiThread, NEW e \in Events, e.k = "signal", Signalled(e), odd' = odd
    PROVE  SignalRead(e)
<1>0. /\ lc \in Call \cup {NoCall} /\ pref \in Prefs /\ cmds \in Seq(Commands)
      /\ e.chan \in Rooms /\ e.sid \in Sids /\ e \in EvOf({"signal"})
  BY EventFields DEF UiThread, UiTypes, EvOf
<1>1. PICK had : had = IF InCall THEN lc ELSE NewCall(e.chan, e.sid, TRUE, e.sid = 0)
  OBVIOUS
<1>2. /\ had \in Call /\ had.sid = (IF InCall THEN lc.sid ELSE e.sid)
      /\ had.tok = (IF InCall THEN lc.tok ELSE 0)
      /\ had.media = (IF InCall THEN lc.media ELSE "idle")
  <2>1. CASE InCall
    BY <1>0, <1>1, <2>1 DEF InCall
  <2>2. CASE ~InCall
    <3>1. PICK t \in BOOLEAN, a \in BOOLEAN : t = TRUE /\ a = (e.sid = 0)
      OBVIOUS
    <3>2. had = NewCall(e.chan, e.sid, t, a)
      BY <1>1, <2>2, <3>1
    <3> QED BY <1>0, <2>2, <3>2, NewCallIs
  <2> QED BY <2>1, <2>2
<1>3. PICK a \in BOOLEAN, s \in Sids : /\ a = (e.sid = 0)
                                       /\ s = IF e.sid = 0 THEN had.sid ELSE e.sid
  BY <1>0, <1>2 DEF Call
<1>4. PICK call : call = [had EXCEPT !.chan = e.chan, !.inst = TRUE, !.await = a, !.sid = s]
  OBVIOUS
<1>5. /\ IF e.sid # 0 THEN Dial(call) ELSE lc' = call /\ UNCHANGED cmds
      /\ shown' = shown
  BY <1>1, <1>3, <1>4, Zenon DEF Signalled
<1>6. /\ call \in Call /\ call.chan = e.chan /\ call.await = a /\ call.sid = s
      /\ call.tok = had.tok /\ call.media = had.media
  BY <1>0, <1>2, <1>4 DEF Call
<1>7. /\ InCall' /\ lc'.chan = e.chan /\ lc'.await = a /\ lc'.sid = s /\ lc'.tok = had.tok
      /\ Dials(had.media)
  <2>1. CASE e.sid # 0
    BY <1>0, <1>5, <1>6, <2>1, DialDoes
  <2>2. CASE e.sid = 0
    BY <1>5, <1>6, <2>2, CallIsOne DEF InCall, Dials
  <2> QED BY <2>1, <2>2
<1>8. Dials(IF InCall THEN lc.media ELSE "idle")
  BY <1>2, <1>7
<1>9. lc'.sid = (IF e.sid # 0 THEN e.sid ELSE IF InCall THEN lc.sid ELSE 0)
  BY <1>2, <1>3, <1>7
<1> QED BY <1>0, <1>2, <1>3, <1>5, <1>7, <1>8, <1>9 DEF SignalRead

LEMMA StatusDoes ==
    ASSUME UiThread, NEW e \in Events, e.k = "status", MediaStatus(e), odd' = odd
    PROVE  StatusRead(e)
<1>0. lc \in Call \cup {NoCall} /\ e \in EvOf({"status"})
  BY DEF UiThread, UiTypes, EvOf
<1>1. CASE InCall
  <2> DEFINE m == IF e.st = "idle" /\ InCall /\ lc.media = "connecting" THEN lc.media ELSE e.st
             h == IF e.st = "live" THEN e.cam ELSE lc.hascam
  <2>1. lc' = [lc EXCEPT !.media = m, !.hascam = h,
                         !.muted = lc.muted \/ (e.st = "live" /\ ~e.mic)]
    BY <1>1, Zenon DEF MediaStatus
  <2>2. m = IF e.st = "idle" /\ lc.media = "connecting" THEN lc.media ELSE e.st
    BY <1>1
  <2> HIDE DEF m, h
  <2>3. /\ lc'.chan = lc.chan /\ lc'.sid = lc.sid /\ lc'.tok = lc.tok
        /\ lc'.await = lc.await /\ lc'.media = m
    BY <1>0, <1>1, <2>1 DEF InCall, Call
  <2>4. InCall'
    <3>1. "sid" \in DOMAIN lc'
      BY <1>0, <1>1, <2>1 DEF InCall, Call
    <3>2. "sid" \notin DOMAIN NoCall
      BY DEF NoCall
    <3> QED BY <3>1, <3>2 DEF InCall
  <2>5. Keeps /\ lc'.media = (IF e.st = "idle" /\ lc.media = "connecting" THEN lc.media ELSE e.st)
    BY <1>1, <2>2, <2>3, <2>4 DEF Keeps
  <2>6. cmds' = cmds \/ \E n \in CmdOf({"camera"}) : cmds' = Append(cmds, n)
    <3>1. PICK n \in Commands : n = [k |-> "camera", on |-> TRUE]
      BY Names
    <3>2. n \in CmdOf({"camera"})
      BY <3>1 DEF CmdOf
    <3>3. cmds' = cmds \/ cmds' = Append(cmds, n)
      BY <3>1, Zenon DEF MediaStatus
    <3> QED BY <3>2, <3>3
  <2>7. shown' = shown
    BY DEF MediaStatus
  <2> QED BY <1>0, <2>5, <2>6, <2>7 DEF StatusRead
<1>2. CASE ~InCall
  <2>1. lc' = lc /\ cmds' = cmds /\ shown' = shown
    BY <1>2, Zenon DEF MediaStatus
  <2>2. Keeps
    BY <1>2, <2>1 DEF Keeps, InCall
  <2> QED BY <1>0, <1>2, <2>1, <2>2 DEF StatusRead
<1> QED BY <1>1, <1>2

LEMMA TokenDoes ==
    ASSUME UiThread, NEW e \in Events, e.k = "token", Token(e), odd' = odd
    PROVE  TokenRead(e)
<1>0. /\ lc \in Call \cup {NoCall} /\ e \in EvOf({"token"}) /\ e.sid \in Sids
      /\ shown' = shown /\ cmds \in Seq(Commands)
  BY EventFields DEF UiThread, UiTypes, EvOf, Token
<1>1. CASE InCall /\ lc.sid \in {0, e.sid}
  <2>1. Dial([lc EXCEPT !.sid = e.sid, !.tok = e.sid, !.await = FALSE]) /\ lc \in Call
    BY <1>0, <1>1 DEF Token, InCall
  <2>2. PICK call \in Call : call = [lc EXCEPT !.sid = e.sid, !.tok = e.sid, !.await = FALSE]
    BY <1>0, <2>1 DEF Call
  <2>3. /\ call.chan = lc.chan /\ call.sid = e.sid /\ call.tok = e.sid /\ ~call.await
        /\ call.media = lc.media
    BY <2>1, <2>2 DEF Call
  <2>4. /\ InCall' /\ lc'.chan = lc.chan /\ lc'.sid = e.sid /\ lc'.tok = e.sid /\ ~lc'.await
        /\ Dials(lc.media)
    BY <1>0, <2>1, <2>2, <2>3, DialDoes
  <2> QED BY <1>0, <1>1, <2>4 DEF TokenRead
<1>2. CASE ~(InCall /\ lc.sid \in {0, e.sid})
  <2>1. lc' = lc /\ cmds' = cmds
    BY <1>2 DEF Token
  <2> QED BY <1>0, <1>2, <2>1 DEF TokenRead
<1> QED BY <1>1, <1>2

LEMMA CollisionDoes ==
    ASSUME UiThread, NEW e \in Events, e.k = "collision", Collision(e)
    PROVE  CollisionRead(e)
<1>0. /\ lc \in Call \cup {NoCall} /\ pref \in Prefs /\ e \in EvOf({"collision"})
      /\ e.chan \in Rooms /\ e.sid \in Sids \ {0} /\ shown' = shown
  BY EventFields DEF UiThread, UiTypes, EvOf, Collision
<1>1. PICK c \in Rooms : c = IF InCall /\ (lc.await \/ lc.sid = 0) THEN lc.chan ELSE e.chan
  BY <1>0 DEF InCall, Call
<1>2. PICK m \in Commands : m = [k |-> "join", chan |-> c, sid |-> e.sid]
  BY <1>0, Names
<1>3. PICK f \in BOOLEAN : f = FALSE
  OBVIOUS
<1>4. /\ cmds' = Append(cmds, m) /\ lc' = NewCall(c, e.sid, FALSE, FALSE)
      /\ odd' = IF ~InCall \/ lc.chan # c \/ lc.media # "idle"
                THEN odd \cup {"hurried"} ELSE odd
  BY <1>1, <1>2, Zenon DEF Collision
<1>5. lc' = NewCall(c, e.sid, f, f)
  BY <1>3, <1>4
<1>6. /\ lc' # NoCall /\ lc'.chan = c /\ lc'.sid = e.sid /\ lc'.tok = 0 /\ ~lc'.await
      /\ lc'.media = "idle"
  BY <1>0, <1>3, <1>5, NewCallIs
<1>7. m \in CmdOf({"join"}) /\ m.chan = lc'.chan /\ m.sid = e.sid /\ InCall'
  BY <1>2, <1>6 DEF CmdOf, InCall
<1>8. odd' = (IF ~InCall \/ lc.chan # lc'.chan \/ lc.media # "idle"
              THEN odd \cup {"hurried"} ELSE odd)
  BY <1>4, <1>6
<1> QED BY <1>0, <1>1, <1>4, <1>6, <1>7, <1>8 DEF CollisionRead

LEMMA StateDoes ==
    ASSUME UiThread, NEW e \in Events, e.k = "state", AvState(e)
    PROVE  StateRead(e)
<1>0. /\ lc \in Call \cup {NoCall} /\ e \in EvOf({"state"}) /\ e.sid \in Sids
      /\ shown' = shown /\ cmds \in Seq(Commands)
  BY EventFields DEF UiThread, UiTypes, EvOf, AvState
<1>1. CASE /\ InCall /\ lc.chan = e.chan /\ e.act = "started" /\ lc.await
           /\ Dial([lc EXCEPT !.sid = e.sid, !.await = FALSE])
           /\ UNCHANGED <<redial, odd>>
  <2>1. lc \in Call
    BY <1>0, <1>1 DEF InCall
  <2>2. PICK call \in Call : call = [lc EXCEPT !.sid = e.sid, !.await = FALSE]
    BY <1>0, <2>1 DEF Call
  <2>3. /\ call.chan = lc.chan /\ call.sid = e.sid /\ call.tok = lc.tok /\ ~call.await
        /\ call.media = lc.media
    BY <2>1, <2>2 DEF Call
  <2>4. /\ InCall' /\ lc'.chan = lc.chan /\ lc'.sid = e.sid /\ lc'.tok = lc.tok /\ ~lc'.await
        /\ Dials(lc.media)
    BY <1>0, <1>1, <2>2, <2>3, DialDoes
  <2>5. Started(e)
    BY <1>1, <2>4 DEF Started
  <2> QED BY <1>0, <2>5 DEF StateRead
<1>2. CASE /\ InCall /\ lc.chan = e.chan /\ e.act = "ended"
           /\ lc' = NoCall /\ redial' = FALSE /\ Early
           /\ cmds' = Append(cmds, [k |-> "stop"])
  <2>1. PICK m \in Commands : m = [k |-> "stop"]
    BY Names
  <2>2. m \in CmdOf({"stop"}) /\ cmds' = Append(cmds, m) /\ ~InCall'
    BY <1>2, <2>1 DEF CmdOf, InCall
  <2>3. Ended(e)
    BY <1>2, <2>2 DEF Ended
  <2> QED BY <1>0, <2>3 DEF StateRead
<1>3. CASE /\ InCall /\ lc.chan = e.chan /\ e.act # "ended"
           /\ ~(e.act = "started" /\ lc.await)
           /\ lc' = [lc EXCEPT !.sid = IF @ = 0 THEN e.sid ELSE @]
           /\ UNCHANGED <<redial, cmds, odd>>
  <2>1. PICK s \in Sids : s = IF lc.sid = 0 THEN e.sid ELSE lc.sid
    BY <1>0, <1>3 DEF InCall, Call
  <2>2. lc \in Call /\ lc' = [lc EXCEPT !.sid = s]
    BY <1>0, <1>3, <2>1 DEF InCall
  <2>3. /\ lc' \in Call /\ lc'.chan = lc.chan /\ lc'.tok = lc.tok /\ lc'.await = lc.await
        /\ lc'.media = lc.media /\ lc'.sid = s
    BY <2>2 DEF Call
  <2>4. InCall'
    BY <2>3, CallIsOne DEF InCall
  <2>5. Heard(e)
    BY <1>3, <2>1, <2>3, <2>4 DEF Heard
  <2> QED BY <1>0, <2>5 DEF StateRead
<1>4. CASE /\ ~InCall \/ lc.chan # e.chan
           /\ UNCHANGED <<lc, redial, cmds, odd>>
  BY <1>0, <1>4 DEF StateRead
<1> QED BY <1>1, <1>2, <1>3, <1>4, Zenon DEF AvState

Read(e) == \/ SignalRead(e) \/ StatusRead(e) \/ TokenRead(e) \/ CollisionRead(e)
           \/ JoinRefused(e) \/ StateRead(e) \/ ClaimDropped(e)
           \/ Cut(e) \/ CameOnline(e) \/ Passed(e)

LEMMA EventDoes ==
    ASSUME UiThread, evs \in Seq(Events), HandleEvent
    PROVE  /\ UNCHANGED <<netVars, serverVars, down>>
           /\ evs # <<>> /\ evs' = Tail(evs) /\ Head(evs) \in Events
           /\ Read(Head(evs))
<1>1. /\ UNCHANGED <<netVars, serverVars, down>> /\ evs # <<>> /\ evs' = Tail(evs)
      /\ Head(evs) \in Events
  BY DEF HandleEvent
<1>2. PICK e \in Events : e = Head(evs)
  BY <1>1
<1>3. \/ e.k = "collision" /\ Collision(e)
      \/ e.k = "joinfailed" /\ JoinFailed(e)
      \/ e.k = "state" /\ AvState(e)
      \/ odd' = odd /\ e.k = "signal" /\ Signalled(e)
      \/ odd' = odd /\ e.k = "status" /\ MediaStatus(e)
      \/ odd' = odd /\ e.k = "token" /\ Token(e)
      \/ odd' = odd /\ e.k = "claimfailed" /\ ClaimFailed
      \/ odd' = odd /\ e.k = "disconnected" /\ Disconnected
      \/ odd' = odd /\ e.k = "online" /\ shown' = TRUE /\ UNCHANGED <<lc, cmds>>
      \/ odd' = odd /\ e.k = "notconnected" /\ UNCHANGED <<uiVars, cmds>>
  BY <1>2 DEF HandleEvent
<1> SUFFICES Read(e)
  BY <1>1, <1>2
<1>4. CASE e.k = "collision" /\ Collision(e)
  BY <1>4, CollisionDoes DEF Read
<1>5. CASE e.k = "joinfailed" /\ JoinFailed(e)
  <2>1. e \in EvOf({"joinfailed"})
    BY <1>5 DEF EvOf
  <2>2. JoinRefused(e)
    BY <1>5, <2>1 DEF JoinFailed, JoinRefused
  <2> QED BY <2>2 DEF Read
<1>6. CASE e.k = "state" /\ AvState(e)
  BY <1>6, StateDoes DEF Read
<1>7. CASE odd' = odd /\ e.k = "signal" /\ Signalled(e)
  BY <1>7, SignalDoes DEF Read
<1>8. CASE odd' = odd /\ e.k = "status" /\ MediaStatus(e)
  BY <1>8, StatusDoes DEF Read
<1>9. CASE odd' = odd /\ e.k = "token" /\ Token(e)
  BY <1>9, TokenDoes DEF Read
<1>10. CASE odd' = odd /\ e.k = "claimfailed" /\ ClaimFailed
  <2>1. e \in EvOf({"claimfailed"})
    BY <1>10 DEF EvOf
  <2>2. ClaimDropped(e)
    BY <1>10, <2>1 DEF ClaimFailed, ClaimDropped
  <2> QED BY <2>2 DEF Read
<1>11. CASE odd' = odd /\ e.k = "disconnected" /\ Disconnected
  <2>1. e \in EvOf({"disconnected"}) /\ ~InCall'
    BY <1>11 DEF EvOf, Disconnected, InCall
  <2>2. Cut(e)
    BY <1>11, <2>1 DEF Disconnected, Cut
  <2> QED BY <2>2 DEF Read
<1>12. CASE odd' = odd /\ e.k = "online" /\ shown' = TRUE /\ UNCHANGED <<lc, cmds>>
  <2>1. e \in EvOf({"online"})
    BY <1>12 DEF EvOf
  <2>2. CameOnline(e)
    BY <1>12, <2>1 DEF CameOnline
  <2> QED BY <2>2 DEF Read
<1>13. CASE odd' = odd /\ e.k = "notconnected" /\ UNCHANGED <<uiVars, cmds>>
  <2>1. e \in EvOf({"notconnected"})
    BY <1>13 DEF EvOf
  <2>2. Passed(e)
    BY <1>13, <2>1 DEF Passed, uiVars
  <2> QED BY <2>2 DEF Read
<1> QED BY <1>3, <1>4, <1>5, <1>6, <1>7, <1>8, <1>9, <1>10, <1>11, <1>12, <1>13

---------------------------------------------------------------------------
(* What the net thread does                                                *)

\* A session that runs says up to two things before last, the latter its end.
StopSays(last) ==
    \E q \in Seq(Events) :
       /\ evs' = Append(q, last) /\ Grown(evs, q, Says({"live", "idle", "failed"}))
       /\ ~Running => q = evs
       /\ \/ q = evs /\ ~(Running /\ ses.phase = "live")
          \/ \E p \in Seq(Events), m \in Says({"idle", "failed"}) : q = Append(p, m)

Quiescent == UNCHANGED <<live, inside, down>>

LEMMA SaysNames ==
    ASSUME left \in Budget
    PROVE  \A st \in Media : Status(st) \in Events /\ Status(st) \in Says({st})
  BY StatusType DEF Says

LEMMA StopDoes ==
    ASSUME left \in Budget, evs \in Seq(Events), ses \in Session \cup {NoSession},
           NEW last \in Events, \E said \in Stopping : evs' = evs \o said \o <<last>>
    PROVE  StopSays(last)
<1>1. PICK said \in Stopping : evs' = evs \o said \o <<last>>
  OBVIOUS
<1>2. PICK i \in Events, l \in Events, f \in Events :
         /\ i = Status("idle") /\ l = Status("live") /\ f = Status("failed")
  BY SaysNames DEF Media
<1>3. /\ i \in Says({"idle", "failed"}) /\ f \in Says({"idle", "failed"})
      /\ {i, l, f} \subseteq Says({"live", "idle", "failed"})
  BY <1>2, SaysNames DEF Media, Says
<1>4. /\ said \in {<<>>, <<i>>, <<l, i>>, <<f>>} /\ (~Running => said = <<>>)
      /\ Running /\ ses.phase = "live" => said # <<>>
  <2>1. CASE ses = NoSession \/ ses.phase = "over"
    BY <2>1 DEF Stopping, Running
  <2>2. CASE ses # NoSession /\ ses.phase # "over" /\ ses.phase = "live"
    <3>1. said = <<i>>
      BY <1>2, <2>2, Zenon DEF Stopping
    <3>2. said # <<>>
      BY <3>1
    <3> QED BY <2>2, <3>1, <3>2 DEF Running
  <2>3. CASE ses # NoSession /\ ses.phase # "over" /\ ses.phase # "live"
    <3>1. said \in {<<>>, <<l, i>>, <<f>>}
      BY <1>2, <2>3, Zenon DEF Stopping
    <3> QED BY <2>3, <3>1 DEF Running
  <2> QED BY <2>1, <2>2, <2>3
<1>5. PICK q : q = evs \o said
  OBVIOUS
<1>a. ASSUME NEW a \in Events, NEW b \in Events
      PROVE  /\ evs \o <<>> = evs /\ evs \o <<a>> = Append(evs, a)
             /\ evs \o <<a, b>> = Append(Append(evs, a), b)
  OBVIOUS
<1>6. \/ said = <<>> /\ q = evs
      \/ q = Append(evs, i)
      \/ q = Append(Append(evs, l), i)
      \/ q = Append(evs, f)
  BY <1>4, <1>5, <1>a, Zenon
<1>b. ASSUME NEW p \in Seq(Events), NEW a \in Events
      PROVE  Append(p, a) \in Seq(Events) /\ p \o <<a>> = Append(p, a)
  OBVIOUS
<1>7. q \in Seq(Events)
  BY <1>6, <1>b, Zenon
<1>8. evs' = Append(q, last)
  BY <1>1, <1>5, <1>7, <1>b
<1>9. Grown(evs, q, Says({"live", "idle", "failed"}))
  BY <1>3, <1>6 DEF Grown
<1>10. \/ said = <<>> /\ q = evs
       \/ \E p \in Seq(Events), m \in Says({"idle", "failed"}) : q = Append(p, m)
  BY <1>3, <1>6, AppendProperties
<1>11. ~Running => q = evs
  <2> SUFFICES ASSUME ~Running PROVE q = evs
    OBVIOUS
  <2>1. said = <<>>
    BY <1>4
  <2> QED BY <1>5, <2>1
<1> QED BY <1>4, <1>7, <1>8, <1>9, <1>10, <1>11 DEF StopSays

\* A claim that the server grants: the user is in the call m asks for.
Granted(m) ==
    \E n \in Lines, t \in Lines :
       /\ n \in EvOf({"state"}) /\ n.act # "ended"
       /\ t \in EvOf({"token"}) /\ t.sid = live'[m.chan]
       /\ m.k = "join" => t.sid = m.sid
       /\ down' = Append(Append(down, n), t)
       /\ "me" \in inside'[m.chan]
       /\ \A c \in Rooms \ {m.chan} : live'[c] = live[c] /\ inside'[c] = inside[c]
       /\ "me" \in inside[m.chan] => live'[m.chan] = live[m.chan]

\* One that it does not grant.
Refused(m) ==
    /\ UNCHANGED <<live, inside>>
    /\ \E n \in Lines : /\ n \in EvOf({"collision", "joinfailed"}) /\ down' = Append(down, n)
                        /\ n.k = "joinfailed" => m.k = "join" /\ n.sid = m.sid

Asked(m) ==
    /\ m \in CmdOf({"start", "join"}) /\ ses' = ses /\ odd' = odd /\ UNCHANGED <<handle, link>>
    /\ \/ /\ handle /\ link /\ (Granted(m) \/ Refused(m))
          /\ \E s \in EvOf({"signal"}) : /\ s.chan = m.chan /\ (m.k = "join" => s.sid = m.sid)
                                         /\ m.k = "start" => s.sid = 0
                                         /\ evs' = Append(evs, s)
       \/ /\ handle /\ ~link /\ Quiescent
          /\ \E s \in EvOf({"claimfailed"}) : evs' = Append(evs, s)
       \/ /\ ~handle /\ Quiescent
          /\ \E s \in EvOf({"notconnected"}) : evs' = Append(evs, s)

\* The server takes the user out of the call of room c.
TakenOut(c) ==
    /\ "me" \in inside[c] /\ "me" \notin inside'[c]
    /\ \A d \in Rooms \ {c} : live'[d] = live[d] /\ inside'[d] = inside[d]
    /\ \E n \in Lines : n \in EvOf({"state"}) /\ n.chan = c /\ down' = Append(down, n)

Stopped(m) ==
    /\ m \in CmdOf({"leave", "stop"}) /\ odd' = odd /\ UNCHANGED <<handle, link>>
    /\ ~Running' /\ \E s \in Says({"idle"}) : StopSays(s)
    /\ \/ m.k = "leave" /\ link /\ m.sid = live[m.chan] /\ TakenOut(m.chan)
       \/ /\ Quiescent
          /\ ~(m.k = "leave" /\ handle /\ link /\ m.sid # 0 /\ m.sid = live[m.chan]
               /\ "me" \in inside[m.chan])

Dialled(m) ==
    /\ m \in CmdOf({"dial"}) /\ UNCHANGED <<handle, link>> /\ Quiescent
    /\ odd' = (IF handle /\ link THEN odd ELSE odd \cup {"offline"})
    /\ Running' /\ ses'.phase = "dial" /\ ses'.sid = m.sid
    /\ \E s \in Says({"connecting"}) : StopSays(s)

Tuned(m) ==
    /\ m \in CmdOf({"mute", "camera"}) /\ UNCHANGED <<handle, link, evs, odd>> /\ Quiescent
    /\ Running' <=> Running
    /\ Running => ses'.phase = ses.phase /\ ses'.sid = ses.sid

Connected(m) ==
    /\ m \in CmdOf({"connect"}) /\ UNCHANGED <<ses, odd>> /\ Quiescent
    /\ handle' /\ link' /\ \E s \in EvOf({"online"}) : evs' = Append(evs, s)

Does(m) == Asked(m) \/ Stopped(m) \/ Dialled(m) \/ Tuned(m) \/ Connected(m)

LEMMA GrantDoes ==
    ASSUME Calls, Down, Mint, link, NEW m \in Commands, m.k = "start" => minted < MaxSid,
           \/ m.k = "start" /\ live[m.chan] = 0 /\ Opens(m.chan, "me", <<TokenFor(minted + 1)>>)
           \/ /\ m.k = "join" /\ live[m.chan] = m.sid
              /\ Enters(m.chan, "me", <<TokenFor(m.sid)>>)
    PROVE  Granted(m)
<1>0. /\ m.chan \in Rooms /\ (m.k = "join" => m.sid \in Sids \ {0})
      /\ inside \in [Rooms -> SUBSET {"me", "peer"}] /\ live \in [Rooms -> Sids]
      /\ down \in Seq(Lines) /\ (m.k = "start" => minted + 1 \in Sids \ {0})
  BY CommandFields, RoomsAssumption DEF Calls, Down, Mint, Sids
<1>1. PICK s, act :
         /\ s \in Sids \ {0} /\ act \in {"started", "joined"}
         /\ Tell(<<State(m.chan, act, s)>> \o <<TokenFor(s)>>)
         /\ live'[m.chan] = s /\ (m.k = "join" => s = m.sid)
         /\ "me" \in inside'[m.chan]
         /\ \A c \in Rooms \ {m.chan} : live'[c] = live[c] /\ inside'[c] = inside[c]
         /\ "me" \in inside[m.chan] => live'[m.chan] = live[m.chan]
  <2>1. CASE m.k = "start" /\ live[m.chan] = 0 /\ Opens(m.chan, "me", <<TokenFor(minted + 1)>>)
    <3>1. /\ live' = [live EXCEPT ![m.chan] = minted + 1]
          /\ inside' = [inside EXCEPT ![m.chan] = {"me"}]
          /\ Tell(<<State(m.chan, "started", minted + 1)>> \o <<TokenFor(minted + 1)>>)
          /\ inside[m.chan] = {}
      BY <1>0, <2>1 DEF Opens, Calls
    <3>2. PICK s : s = minted + 1
      OBVIOUS
    <3>3. /\ live'[m.chan] = s /\ "me" \in inside'[m.chan] /\ "me" \notin inside[m.chan]
          /\ \A c \in Rooms \ {m.chan} : live'[c] = live[c] /\ inside'[c] = inside[c]
          /\ s \in Sids \ {0}
      BY <1>0, <2>1, <3>1, <3>2
    <3> QED BY <2>1, <3>1, <3>2, <3>3
  <2>2. CASE /\ m.k = "join" /\ live[m.chan] = m.sid
             /\ Enters(m.chan, "me", <<TokenFor(m.sid)>>)
    <3>1. /\ live' = live
          /\ inside' = [inside EXCEPT ![m.chan] = inside[m.chan] \cup {"me"}]
          /\ Tell(<<State(m.chan, "joined", m.sid)>> \o <<TokenFor(m.sid)>>)
      BY <2>2 DEF Enters
    <3>2. /\ "me" \in inside'[m.chan]
          /\ \A c \in Rooms \ {m.chan} : live'[c] = live[c] /\ inside'[c] = inside[c]
      BY <1>0, <3>1
    <3> QED BY <1>0, <2>2, <3>1, <3>2
  <2> QED BY <2>1, <2>2
<1>2. PICK n \in Lines : n = State(m.chan, act, s)
  BY <1>0, <1>1, LineNames
<1>3. PICK t \in Lines : t = TokenFor(s)
  BY <1>1, LineNames
<1>4. down' = down \o (<<n>> \o <<t>>)
  BY <1>1, <1>2, <1>3 DEF Tell
<1>5. down' = Append(Append(down, n), t)
  BY <1>0, <1>4
<1>6. /\ n.k = "state" /\ n.act # "ended" /\ t.k = "token" /\ t.sid = live'[m.chan]
      /\ m.k = "join" => t.sid = m.sid
  BY <1>1, <1>2, <1>3 DEF State, TokenFor
<1>7. n \in EvOf({"state"}) /\ t \in EvOf({"token"})
  BY <1>6, EventNames DEF EvOf
<1> QED BY <1>1, <1>5, <1>6, <1>7 DEF Granted

LEMMA RefuseDoes ==
    ASSUME Calls, Down, link, NEW m \in Commands, UNCHANGED <<live, inside>>,
           \/ /\ m.k = "start" /\ live[m.chan] # 0
              /\ Tell(<<[k |-> "collision", chan |-> m.chan, sid |-> live[m.chan]]>>)
           \/ /\ m.k = "join" /\ Tell(<<[k |-> "joinfailed", sid |-> m.sid]>>)
    PROVE  Refused(m)
<1>0. /\ m.chan \in Rooms /\ (m.k = "join" => m.sid \in Sids \ {0}) /\ live \in [Rooms -> Sids]
      /\ down \in Seq(Lines)
  BY CommandFields DEF Calls, Down
<1>1. PICK n \in Lines : /\ Tell(<<n>>) /\ n.k \in {"collision", "joinfailed"}
                         /\ n.k = "joinfailed" => m.k = "join" /\ n.sid = m.sid
  <2>1. CASE /\ m.k = "start" /\ live[m.chan] # 0
             /\ Tell(<<[k |-> "collision", chan |-> m.chan, sid |-> live[m.chan]]>>)
    <3>1. PICK n \in Lines : n = [k |-> "collision", chan |-> m.chan, sid |-> live[m.chan]]
      BY <1>0, <2>1, LineNames
    <3> QED BY <2>1, <3>1
  <2>2. CASE /\ m.k = "join" /\ Tell(<<[k |-> "joinfailed", sid |-> m.sid]>>)
    <3>1. PICK n \in Lines : n = [k |-> "joinfailed", sid |-> m.sid]
      BY <1>0, <2>2, LineNames
    <3> QED BY <2>2, <3>1
  <2> QED BY <2>1, <2>2
<1>2. down' = Append(down, n)
  BY <1>0, <1>1 DEF Tell
<1>3. n \in EvOf({"collision", "joinfailed"})
  BY <1>1, EventNames DEF EvOf
<1> QED BY <1>1, <1>2, <1>3 DEF Refused

\* The server's part of a claim.
Serves(m) == IF m.k = "start" THEN ServeStart(m.chan) ELSE ServeJoin(m.chan, m.sid)

LEMMA ServeDoes ==
    ASSUME Calls, Down, Mint, link, NEW m \in CmdOf({"start", "join"}),
           m.k = "start" => minted < MaxSid, Serves(m)
    PROVE  Granted(m) \/ Refused(m)
<1>0. m \in Commands /\ (m.k = "start" \/ m.k = "join")
  BY DEF CmdOf
<1>1. CASE m.k = "start"
  BY <1>0, <1>1, GrantDoes, RefuseDoes DEF Serves, ServeStart
<1>2. CASE m.k = "join"
  BY <1>0, <1>2, GrantDoes, RefuseDoes DEF Serves, ServeJoin
<1> QED BY <1>0, <1>1, <1>2

LEMMA ClaimDoes ==
    ASSUME Net, Calls, Down, Mint, NEW m \in CmdOf({"start", "join"}),
           m.k = "start" => minted < MaxSid,
           UNCHANGED <<handle, link, odd>>,
           NEW s \in EvOf({"signal"}), s.chan = m.chan, m.k = "join" => s.sid = m.sid,
           m.k = "start" => s.sid = 0, Claim(Serves(m), s)
    PROVE  Asked(m)
<1>1. ses' = ses
  BY DEF Claim
<1>2. CASE handle /\ link /\ Serves(m) /\ evs' = Append(evs, s)
  <2>1. Granted(m) \/ Refused(m)
    BY <1>2, ServeDoes
  <2> QED BY <1>1, <1>2, <2>1 DEF Asked
<1>3. CASE handle /\ ~link /\ NothingServed /\ evs' = Append(evs, [k |-> "claimfailed"])
  <2>1. PICK n \in Events : n = [k |-> "claimfailed"]
    BY EventNames
  <2>2. n \in EvOf({"claimfailed"}) /\ evs' = Append(evs, n) /\ Quiescent
    BY <1>3, <2>1 DEF EvOf, NothingServed, Quiescent
  <2> QED BY <1>1, <1>3, <2>2 DEF Asked
<1>4. CASE ~handle /\ NothingServed /\ evs' = Append(evs, [k |-> "notconnected"])
  <2>1. PICK n \in Events : n = [k |-> "notconnected"]
    BY EventNames
  <2>2. n \in EvOf({"notconnected"}) /\ evs' = Append(evs, n) /\ Quiescent
    BY <1>4, <2>1 DEF EvOf, NothingServed, Quiescent
  <2> QED BY <1>1, <1>4, <2>2 DEF Asked
<1> QED BY <1>2, <1>3, <1>4 DEF Claim

LEMMA TakeOutDoes ==
    ASSUME Calls, Down, link, NEW c \in Rooms, "me" \in inside[c], Leaves(c, "me")
    PROVE  TakenOut(c)
<1> DEFINE stay == inside[c] \ {"me"}
           act  == IF stay = {} THEN "ended" ELSE "left"
<1>1. /\ inside' = [inside EXCEPT ![c] = stay]
      /\ live' = [live EXCEPT ![c] = IF stay = {} THEN 0 ELSE live[c]]
      /\ Tell(<<State(c, act, live[c])>>)
  BY DEF Leaves
<1>2. PICK n \in Lines : n = State(c, act, live[c])
  BY LineNames DEF Calls
<1>3. n.k = "state" /\ n.chan = c /\ down' = Append(down, n)
  BY <1>1, <1>2 DEF State, Tell, Down
<1>4. n \in EvOf({"state"})
  BY <1>3, EventNames DEF EvOf
<1>5. /\ "me" \notin inside'[c]
      /\ \A d \in Rooms \ {c} : live'[d] = live[d] /\ inside'[d] = inside[d]
  BY <1>1 DEF Calls
<1> QED BY <1>3, <1>4, <1>5 DEF TakenOut

LEMMA ApplyDoes ==
    ASSUME cmds \in Seq(Commands), left \in Budget, Net, Calls, Down, Mint,
           cmds # <<>> /\ Head(cmds).k = "start" => minted < MaxSid, Apply
    PROVE  /\ cmds # <<>> /\ cmds' = Tail(cmds) /\ Head(cmds) \in Commands
           /\ UNCHANGED <<lc, shown>> /\ Does(Head(cmds))
<1>1. PICK m \in Commands : m = Head(cmds)
  BY DEF Apply
<1>2. /\ cmds # <<>> /\ cmds' = Tail(cmds) /\ UNCHANGED <<lc, shown>>
      /\ m.k # "connect" => UNCHANGED <<handle, link>>
  BY <1>1 DEF Apply, uiVars
<1>3. evs \in Seq(Events) /\ ses \in Session \cup {NoSession}
  <2>1. Reports \subseteq Events
    BY DEF Reports, ReportsOf
  <2> QED BY <2>1 DEF Net
<1> SUFFICES Does(m)
  BY <1>1, <1>2
<1>4. CASE m.k = "start" /\ Claim(ServeStart(m.chan), Signal(m.chan, 0)) /\ UNCHANGED odd
  <2>0. m.chan \in Rooms /\ 0 \in Sids
    BY <1>4, CommandFields, RoomsAssumption DEF Sids
  <2>1. PICK s \in Events : s = Signal(m.chan, 0)
    BY <2>0, EventNames DEF Signal
  <2>2. s \in EvOf({"signal"}) /\ s.chan = m.chan /\ s.sid = 0 /\ m \in CmdOf({"start", "join"})
    BY <1>4, <2>1 DEF EvOf, CmdOf, Signal
  <2>3. Claim(Serves(m), s)
    BY <1>4, <2>1 DEF Serves, Claim
  <2> QED BY <1>1, <1>2, <1>4, <2>2, <2>3, ClaimDoes DEF Does
<1>5. CASE m.k = "join" /\ Claim(ServeJoin(m.chan, m.sid), Signal(m.chan, m.sid)) /\ UNCHANGED odd
  <2>0. m.chan \in Rooms /\ m.sid \in Sids
    BY <1>5, CommandFields
  <2>1. PICK s \in Events : s = Signal(m.chan, m.sid)
    BY <2>0, EventNames DEF Signal
  <2>2. s \in EvOf({"signal"}) /\ s.chan = m.chan /\ s.sid = m.sid /\ m \in CmdOf({"start", "join"})
    BY <1>5, <2>1 DEF EvOf, CmdOf, Signal
  <2>3. Claim(Serves(m), s)
    BY <1>5, <2>1 DEF Serves, Claim
  <2> QED BY <1>1, <1>2, <1>5, <2>2, <2>3, ClaimDoes DEF Does
<1>6. CASE /\ m.k \in {"leave", "stop"} /\ ses' = NoSession /\ UNCHANGED odd
           /\ \E said \in Stopping : evs' = evs \o said \o <<Status("idle")>>
           /\ \/ m.k = "leave" /\ handle /\ link /\ ServeLeave(m.chan, m.sid)
              \/ ~(m.k = "leave" /\ handle /\ link) /\ NothingServed
  <2>1. PICK s \in Events : s = Status("idle") /\ s \in Says({"idle"})
    BY SaysNames DEF Media
  <2>2. StopSays(s)
    BY <1>3, <1>6, <2>1, StopDoes
  <2>3. ~Running' /\ m \in CmdOf({"leave", "stop"})
    BY <1>6 DEF Running, CmdOf
  <2>4. \/ m.k = "leave" /\ link /\ m.sid = live[m.chan] /\ TakenOut(m.chan)
        \/ /\ Quiescent
           /\ ~(m.k = "leave" /\ handle /\ link /\ m.sid # 0 /\ m.sid = live[m.chan]
                /\ "me" \in inside[m.chan])
    <3>1. CASE m.k = "leave" /\ handle /\ link /\ ServeLeave(m.chan, m.sid)
      <4>1. m.chan \in Rooms
        BY <3>1, CommandFields
      <4> QED BY <3>1, <4>1, TakeOutDoes DEF ServeLeave, NothingServed, Quiescent
    <3>2. CASE ~(m.k = "leave" /\ handle /\ link) /\ NothingServed
      BY <3>2 DEF NothingServed, Quiescent
    <3> QED BY <1>6, <3>1, <3>2
  <2>5. Stopped(m)
    BY <1>2, <1>6, <2>1, <2>2, <2>3, <2>4 DEF Stopped
  <2> QED BY <2>5 DEF Does
<1>7. CASE /\ m.k = "dial" /\ ses' = NewSession(m)
           /\ \E said \in Stopping : evs' = evs \o said \o <<Status("connecting")>>
           /\ odd' = IF handle /\ link THEN odd ELSE odd \cup {"offline"}
           /\ NothingServed
  <2>1. PICK s \in Events : s = Status("connecting") /\ s \in Says({"connecting"})
    BY SaysNames DEF Media
  <2>2. StopSays(s)
    BY <1>3, <1>7, <2>1, StopDoes
  <2>3. ses'.phase = "dial" /\ ses'.sid = m.sid
    BY <1>7 DEF NewSession
  <2>4. ses' # NoSession
    BY <2>3 DEF NoSession
  <2>5. Running' /\ m \in CmdOf({"dial"}) /\ Quiescent
    BY <1>7, <2>3, <2>4 DEF Running, CmdOf, Quiescent, NothingServed
  <2>6. Dialled(m)
    BY <1>2, <1>7, <2>1, <2>2, <2>3, <2>5 DEF Dialled
  <2> QED BY <2>6 DEF Does
<1>8. CASE /\ m.k \in {"mute", "camera"} /\ NothingServed /\ UNCHANGED <<evs, odd>>
           /\ \/ ses' = ses
              \/ Running /\ ses' = [ses EXCEPT !.muted = m.on]
              \/ Running /\ ses' = [ses EXCEPT !.ctl = Append(@, m.on)]
  <2>1. (Running' <=> Running) /\ (Running => ses'.phase = ses.phase /\ ses'.sid = ses.sid)
    <3>1. CASE ses' = ses
      BY <3>1 DEF Running
    <3>2. CASE Running /\ (\/ ses' = [ses EXCEPT !.muted = m.on]
                           \/ ses' = [ses EXCEPT !.ctl = Append(@, m.on)])
      <4>1. ses \in Session /\ ses.phase # "over"
        BY <1>3, <3>2 DEF Running
      <4>2. ses'.phase = ses.phase /\ ses'.sid = ses.sid /\ "sid" \in DOMAIN ses'
        BY <3>2, <4>1 DEF Session
      <4>3. ses' # NoSession
        BY <4>2 DEF NoSession
      <4> QED BY <3>2, <4>1, <4>2, <4>3 DEF Running
    <3> QED BY <1>8, <3>1, <3>2
  <2>2. m \in CmdOf({"mute", "camera"}) /\ Quiescent
    BY <1>8 DEF CmdOf, Quiescent, NothingServed
  <2>3. Tuned(m)
    BY <1>2, <1>8, <2>1, <2>2 DEF Tuned
  <2> QED BY <2>3 DEF Does
<1>9. CASE /\ m.k = "connect" /\ handle' = TRUE /\ link' = TRUE
           /\ evs' = Append(evs, [k |-> "online"])
           /\ NothingServed /\ UNCHANGED <<ses, odd>>
  <2>1. PICK s \in Events : s = [k |-> "online"]
    BY EventNames
  <2>2. s \in EvOf({"online"}) /\ evs' = Append(evs, s) /\ m \in CmdOf({"connect"}) /\ Quiescent
    BY <1>9, <2>1 DEF EvOf, CmdOf, Quiescent, NothingServed
  <2>3. Connected(m)
    BY <1>9, <2>2 DEF Connected
  <2> QED BY <2>3 DEF Does
<1>10. \/ m.k = "start" /\ Claim(ServeStart(m.chan), Signal(m.chan, 0)) /\ UNCHANGED odd
       \/ m.k = "join" /\ Claim(ServeJoin(m.chan, m.sid), Signal(m.chan, m.sid)) /\ UNCHANGED odd
       \/ /\ m.k \in {"leave", "stop"} /\ ses' = NoSession /\ UNCHANGED odd
          /\ \E said \in Stopping : evs' = evs \o said \o <<Status("idle")>>
          /\ \/ m.k = "leave" /\ handle /\ link /\ ServeLeave(m.chan, m.sid)
             \/ ~(m.k = "leave" /\ handle /\ link) /\ NothingServed
       \/ /\ m.k = "dial" /\ ses' = NewSession(m)
          /\ \E said \in Stopping : evs' = evs \o said \o <<Status("connecting")>>
          /\ odd' = IF handle /\ link THEN odd ELSE odd \cup {"offline"}
          /\ NothingServed
       \/ /\ m.k \in {"mute", "camera"} /\ NothingServed /\ UNCHANGED <<evs, odd>>
          /\ \/ ses' = ses
             \/ Running /\ ses' = [ses EXCEPT !.muted = m.on]
             \/ Running /\ ses' = [ses EXCEPT !.ctl = Append(@, m.on)]
       \/ /\ m.k = "connect" /\ handle' = TRUE /\ link' = TRUE
          /\ evs' = Append(evs, [k |-> "online"])
          /\ NothingServed /\ UNCHANGED <<ses, odd>>
  BY <1>1, Zenon DEF Apply
<1> QED BY <1>4, <1>5, <1>6, <1>7, <1>8, <1>9, <1>10

---------------------------------------------------------------------------
(* Lines, other members, the media task                                    *)

Forwarded(m) ==
    \/ m.k # "gone" /\ m \in Events /\ evs' = Append(evs, m) /\ UNCHANGED netVars
    \/ /\ m \in LineOf({"gone"}) /\ ~handle' /\ ~Running'
       /\ \E s \in EvOf({"disconnected"}) : StopSays(s)

LEMMA ForwardDoes ==
    ASSUME left \in Budget, Net, Down, Forward
    PROVE  /\ down # <<>> /\ down' = Tail(down) /\ Head(down) \in Lines
           /\ UNCHANGED <<lc, shown, cmds, serverVars, odd>> /\ Forwarded(Head(down))
<1>1. PICK m \in Lines : m = Head(down)
  BY DEF Forward, Down
<1>2. /\ down # <<>> /\ down' = Tail(down)
      /\ UNCHANGED <<lc, shown, cmds, serverVars, odd>>
  BY DEF Forward, uiVars
<1>3. evs \in Seq(Events) /\ ses \in Session \cup {NoSession}
  <2>1. Reports \subseteq Events
    BY DEF Reports, ReportsOf
  <2> QED BY <2>1 DEF Net
<1> SUFFICES Forwarded(m)
  BY <1>1, <1>2
<1>4. CASE m.k # "gone" /\ evs' = Append(evs, m) /\ UNCHANGED netVars
  BY <1>4, EventNames DEF Forwarded
<1>5. CASE /\ m.k = "gone" /\ handle' = FALSE /\ ses' = NoSession
           /\ \E said \in Stopping : evs' = evs \o said \o <<[k |-> "disconnected"]>>
  <2>1. PICK s \in Events : s = [k |-> "disconnected"]
    BY EventNames
  <2>2. s \in EvOf({"disconnected"}) /\ ~Running' /\ m \in LineOf({"gone"})
    BY <1>5, <2>1 DEF EvOf, Running, LineOf
  <2>3. StopSays(s)
    BY <1>3, <1>5, <2>1, StopDoes
  <2> QED BY <1>5, <2>2, <2>3 DEF Forwarded
<1> QED BY <1>1, <1>4, <1>5 DEF Forward

LEMMA DropDoes ==
    ASSUME Drop
    PROVE  /\ link /\ ~link' /\ \A c \in Rooms : "me" \notin inside'[c]
           /\ UNCHANGED <<lc, shown, cmds, evs, netVars, odd>>
           /\ \E m \in LineOf({"gone"}) : m \in Lines /\ down' = Append(down, m)
<1>1. /\ link /\ ~link' /\ UNCHANGED <<lc, shown, cmds, evs, netVars, odd>>
      /\ inside' = [c \in Rooms |-> inside[c] \ {"me"}]
      /\ down' = Append(down, [k |-> "gone"])
  BY DEF Drop, uiVars
<1>2. PICK m \in Lines : m = [k |-> "gone"]
  BY LineNames
<1>3. m \in LineOf({"gone"})
  BY <1>2 DEF LineOf
<1>4. \A c \in Rooms : "me" \notin inside'[c]
  BY <1>1
<1> QED BY <1>1, <1>2, <1>3, <1>4

PeerDoes ==
    /\ UNCHANGED <<lc, shown, cmds, evs, netVars, link, odd>>
    /\ \A c \in Rooms : /\ "me" \in inside'[c] <=> "me" \in inside[c]
                        /\ "me" \in inside[c] => live'[c] = live[c]
    /\ \/ down' = down
       \/ \E n \in Lines : /\ n \in EvOf({"state"}) /\ down' = Append(down, n)
                           /\ n.act = "ended" => "me" \notin inside[n.chan]

LEMMA TellDoes ==
    ASSUME Down, NEW n \in Lines, Tell(<<n>>)
    PROVE  down' = down \/ down' = Append(down, n)
  BY DEF Tell, Down

LEMMA PeerSteps ==
    ASSUME Calls, Down, Mint, minted < MaxSid, NEW c \in Rooms, Peer(c)
    PROVE  PeerDoes
<1>0. /\ UNCHANGED <<lc, shown, cmds, evs, netVars, link, odd>>
      /\ inside \in [Rooms -> SUBSET {"me", "peer"}] /\ live \in [Rooms -> Sids]
  BY DEF Peer, uiVars, Calls
<1>1. CASE live[c] = 0 /\ Opens(c, "peer", <<>>)
  <2>1. /\ live' = [live EXCEPT ![c] = minted + 1] /\ inside' = [inside EXCEPT ![c] = {"peer"}]
        /\ Tell(<<State(c, "started", minted + 1)>> \o <<>>) /\ inside[c] = {}
    BY <1>1 DEF Opens, Calls
  <2>2. PICK n \in Lines : n = State(c, "started", minted + 1)
    <3>1. minted + 1 \in Sids \ {0}
      BY RoomsAssumption DEF Sids, Mint
    <3> QED BY <3>1, LineNames
  <2>3. <<n>> \o <<>> = <<n>>
    OBVIOUS
  <2>4. n.k = "state" /\ n.act # "ended" /\ (down' = down \/ down' = Append(down, n))
    BY <2>1, <2>2, <2>3, TellDoes DEF State
  <2>5. n \in EvOf({"state"})
    BY <2>4, EventNames DEF EvOf
  <2>6. \A d \in Rooms : /\ "me" \in inside'[d] <=> "me" \in inside[d]
                         /\ "me" \in inside[d] => live'[d] = live[d]
    BY <1>0, <2>1
  <2> QED BY <1>0, <2>4, <2>5, <2>6 DEF PeerDoes
<1>2. CASE live[c] # 0 /\ Enters(c, "peer", <<>>)
  <2>1. /\ live' = live /\ inside' = [inside EXCEPT ![c] = inside[c] \cup {"peer"}]
        /\ Tell(<<State(c, "joined", live[c])>> \o <<>>)
    BY <1>2 DEF Enters
  <2>2. PICK n \in Lines : n = State(c, "joined", live[c])
    BY <1>0, <1>2, LineNames
  <2>3. <<n>> \o <<>> = <<n>>
    OBVIOUS
  <2>4. n.k = "state" /\ n.act # "ended" /\ (down' = down \/ down' = Append(down, n))
    BY <2>1, <2>2, <2>3, TellDoes DEF State
  <2>5. n \in EvOf({"state"})
    BY <2>4, EventNames DEF EvOf
  <2>6. \A d \in Rooms : /\ "me" \in inside'[d] <=> "me" \in inside[d]
                         /\ "me" \in inside[d] => live'[d] = live[d]
    BY <1>0, <2>1
  <2> QED BY <1>0, <2>4, <2>5, <2>6 DEF PeerDoes
<1>3. CASE "peer" \in inside[c] /\ Leaves(c, "peer")
  <2> DEFINE stay == inside[c] \ {"peer"}
             act  == IF stay = {} THEN "ended" ELSE "left"
  <2>1. /\ inside' = [inside EXCEPT ![c] = stay]
        /\ live' = [live EXCEPT ![c] = IF stay = {} THEN 0 ELSE live[c]]
        /\ Tell(<<State(c, act, live[c])>>)
    BY <1>3 DEF Leaves
  <2>2. PICK n \in Lines : n = State(c, act, live[c])
    BY <1>3, LineNames DEF Calls
  <2>3. /\ n.k = "state" /\ n.chan = c /\ (n.act = "ended" => stay = {})
        /\ (down' = down \/ down' = Append(down, n))
    BY <2>1, <2>2, TellDoes DEF State
  <2>4. n \in EvOf({"state"})
    BY <2>3, EventNames DEF EvOf
  <2>5. \A d \in Rooms : /\ "me" \in inside'[d] <=> "me" \in inside[d]
                         /\ "me" \in inside[d] => live'[d] = live[d]
    BY <1>0, <2>1
  <2> QED BY <1>0, <2>3, <2>4, <2>5 DEF PeerDoes
<1> QED BY <1>1, <1>2, <1>3 DEF Peer

\* The session runs on, or ends and says so.
TaskDoes ==
    /\ UNCHANGED <<lc, shown, cmds, handle, serverVars, down, odd>> /\ Running
    /\ Running' => ses'.sid = ses.sid
    /\ \/ /\ ses.phase = "dial" /\ Running' /\ ses'.phase = "live"
          /\ \E s \in Says({"live"}) : evs' = Append(evs, s)
       \/ /\ ses.phase = "dial" /\ ~Running'
          /\ \E s \in Says({"failed"}) : evs' = Append(evs, s)
       \/ /\ ses.phase = "live" /\ ~Running'
          /\ \E s \in Says({"idle"}) : evs' = Append(evs, s)
       \/ /\ ses.phase = "live" /\ Running' /\ ses'.phase = "live"
          /\ evs' = evs \/ \E s \in Says({"live"}) : evs' = Append(evs, s)

LEMMA TaskSteps ==
    ASSUME left \in Budget, ses \in Session \cup {NoSession}, TaskStep PROVE TaskDoes
<1>1. /\ UNCHANGED <<lc, shown, cmds, handle, serverVars, down, odd>>
      /\ ses \in Session /\ Running
  BY DEF TaskStep, DialSucceeds, DialFails, Ends, Control, InTask, uiVars, Running
<1>2. PICK i \in Events, l \in Events, f \in Events :
         /\ i = Status("idle") /\ i \in Says({"idle"})
         /\ l = Status("live") /\ l \in Says({"live"})
         /\ f = Status("failed") /\ f \in Says({"failed"})
  BY SaysNames DEF Media
<1>3. "sid" \notin DOMAIN NoSession
  BY DEF NoSession
<1>4. CASE DialSucceeds
  <2>1. ses' = [ses EXCEPT !.phase = "live"] /\ ses.phase = "dial" /\ evs' = Append(evs, l)
    BY <1>2, <1>4 DEF DialSucceeds
  <2>2. ses'.phase = "live" /\ ses'.sid = ses.sid /\ "sid" \in DOMAIN ses'
    BY <1>1, <2>1 DEF Session
  <2>3. Running'
    BY <1>3, <2>2 DEF Running
  <2> QED BY <1>1, <1>2, <2>1, <2>2, <2>3 DEF TaskDoes
<1>5. CASE DialFails
  <2>1. /\ ses' = [ses EXCEPT !.phase = "over", !.open = FALSE, !.ctl = <<>>]
        /\ ses.phase = "dial" /\ evs' = Append(evs, f)
    BY <1>2, <1>5 DEF DialFails
  <2>2. ses'.phase = "over"
    BY <1>1, <2>1 DEF Session
  <2>3. ~Running'
    BY <2>2 DEF Running
  <2> QED BY <1>1, <1>2, <2>1, <2>3 DEF TaskDoes
<1>6. CASE Ends
  <2>1. /\ ses' = [ses EXCEPT !.phase = "over", !.open = FALSE, !.ctl = <<>>]
        /\ ses.phase = "live" /\ evs' = Append(evs, i)
    BY <1>2, <1>6 DEF Ends
  <2>2. ses'.phase = "over"
    BY <1>1, <2>1 DEF Session
  <2>3. ~Running'
    BY <2>2 DEF Running
  <2> QED BY <1>1, <1>2, <2>1, <2>3 DEF TaskDoes
<1>7. CASE Control
  <2>1. PICK q, now : ses' = [ses EXCEPT !.ctl = q, !.open = now]
    BY <1>7 DEF Control
  <2>2. ses.phase = "live" /\ (evs' = evs \/ evs' = Append(evs, l))
    BY <1>2, <1>7 DEF Control
  <2>3. ses'.phase = "live" /\ ses'.sid = ses.sid /\ "sid" \in DOMAIN ses'
    BY <1>1, <2>1, <2>2 DEF Session
  <2>4. Running'
    BY <1>3, <2>3 DEF Running
  <2> QED BY <1>1, <1>2, <2>2, <2>3, <2>4 DEF TaskDoes
<1> QED BY <1>4, <1>5, <1>6, <1>7 DEF TaskStep

---------------------------------------------------------------------------
(* What follows for a queue that grows at its end or loses its head        *)

AppendFacts(q, e, r) ==
    /\ \A T : Lacks(r, T) <=> Lacks(q, T) /\ e \notin T
    /\ \A T : Single(q, T) /\ (e \in T => Lacks(q, T)) => Single(r, T)
    /\ \A A, B : InOrder(q, A, B) /\ (e \in B => Lacks(q, A)) => InOrder(r, A, B)
    /\ \A hits, ends : \A P \in BOOLEAN :
          e \in hits \/ (e \notin ends /\ After(q, hits, ends, P)) => After(r, hits, ends, P)

TailFacts(q, e, r) ==
    /\ \A T : Lacks(q, T) <=> e \notin T /\ Lacks(r, T)
    /\ \A T : Single(q, T) => Single(r, T) /\ (e \in T => Lacks(r, T))
    /\ \A A, B : InOrder(q, A, B) => InOrder(r, A, B) /\ (e \in A => Lacks(r, B))
    /\ \A hits, ends : \A P \in BOOLEAN, Q \in BOOLEAN :
          After(q, hits, ends, P) /\ (e \in hits => Q) /\ (P /\ e \notin ends => Q)
             => After(r, hits, ends, Q)

GrownFacts(q, r, E) ==
    /\ \A T : (\A e \in E : e \notin T) =>
          (Lacks(r, T) <=> Lacks(q, T)) /\ (Single(q, T) => Single(r, T))
    /\ \A A, B : (\A e \in E : e \notin B) /\ InOrder(q, A, B) => InOrder(r, A, B)
    /\ \A hits, ends : \A P \in BOOLEAN :
          (\A e \in E : e \notin ends) /\ After(q, hits, ends, P) => After(r, hits, ends, P)

LEMMA Appended ==
    ASSUME NEW S, NEW q \in Seq(S), NEW e \in S
    PROVE  AppendFacts(q, e, Append(q, e))
  BY LacksAppend, SingleAppend, InOrderAppend, AfterHit, AfterKept DEF AppendFacts

LEMMA Shortened ==
    ASSUME NEW S, NEW q \in Seq(S), q # <<>>
    PROVE  TailFacts(q, Head(q), Tail(q))
  BY LacksTail, SingleTail, InOrderTail, AfterTail DEF TailFacts

LEMMA GrownBy ==
    ASSUME NEW S, NEW q \in Seq(S), NEW E \in SUBSET S, NEW r, Grown(q, r, E)
    PROVE  GrownFacts(q, r, E)
<1>1. \A T : (\A e \in E : e \notin T) => T \cap E = {}
  OBVIOUS
<1>2. ASSUME NEW T, \A e \in E : e \notin T
      PROVE  (Lacks(r, T) <=> Lacks(q, T)) /\ (Single(q, T) => Single(r, T))
  BY <1>1, <1>2, LacksGrown, SingleGrown
<1>3. ASSUME NEW A, NEW B, \A e \in E : e \notin B, InOrder(q, A, B) PROVE InOrder(r, A, B)
  BY <1>1, <1>3, InOrderGrown
<1>4. ASSUME NEW hits, NEW ends, NEW P \in BOOLEAN, \A e \in E : e \notin ends,
             After(q, hits, ends, P)
      PROVE  After(r, hits, ends, P)
  BY <1>1, <1>4, AfterGrown
<1> QED BY <1>2, <1>3, <1>4 DEF GrownFacts

---------------------------------------------------------------------------
(* Every step of the specification, as far as calls and media go           *)

Clicked == /\ UNCHANGED <<evs, netVars, serverVars, down>>
           /\ \/ \E c \in Rooms : Claimed(c)
              \/ HungUp \/ Toggled \/ Redialled \/ Reconnecting
EventRead == /\ UNCHANGED <<netVars, serverVars, down>>
             /\ evs # <<>> /\ evs' = Tail(evs) /\ Head(evs) \in Events
             /\ Read(Head(evs))
Applied == /\ cmds # <<>> /\ cmds' = Tail(cmds) /\ Head(cmds) \in Commands
           /\ UNCHANGED <<lc, shown>> /\ Does(Head(cmds))
LineRead == /\ down # <<>> /\ down' = Tail(down) /\ Head(down) \in Lines
            /\ UNCHANGED <<lc, shown, cmds, serverVars, odd>> /\ Forwarded(Head(down))
Broken == /\ link /\ ~link' /\ \A c \in Rooms : "me" \notin inside'[c]
          /\ UNCHANGED <<lc, shown, cmds, evs, netVars, odd>>
          /\ \E m \in LineOf({"gone"}) : m \in Lines /\ down' = Append(down, m)

Effect == \/ Clicked \/ EventRead \/ Applied \/ LineRead \/ PeerDoes \/ Broken \/ TaskDoes
          \/ UNCHANGED vars

\* The types these rest on.
Typed == /\ cmds \in Seq(Commands) /\ evs \in Seq(Events) /\ down \in Seq(Lines)
         /\ lc \in Call \cup {NoCall} /\ ses \in Session \cup {NoSession}
         /\ shown \in BOOLEAN /\ handle \in BOOLEAN /\ link \in BOOLEAN

LEMMA TypesTyped == Types => Typed
<1>1. Reports \subseteq Events
  BY DEF Reports, ReportsOf
<1> QED BY <1>1 DEF Types, Typed, UiThread, UiTypes, Net, Down

LEMMA StepDoes == Types /\ [Next]_vars => Effect
<1> SUFFICES ASSUME Types, [Next]_vars PROVE Effect
  OBVIOUS
<1>0. /\ UiThread /\ OtherTypes /\ Net /\ Calls /\ Down /\ MintInv /\ Mint
      /\ left \in Budget /\ cmds \in Seq(Commands) /\ evs \in Seq(Events)
      /\ minted \in Nat /\ MaxSid \in Nat
      /\ left.calls \in Nat /\ left.peers \in Nat
      /\ Cardinality(Starts(cmds)) \in Nat
      /\ minted + Cardinality(Starts(cmds)) + left.calls + left.peers <= MaxSid
  BY TypesTyped, StartsFinite, RoomsAssumption
     DEF Typed, Types, MintInv, Mint, OtherTypes, UiThread, Budget
<1>1. CASE Clicks \/ PollRedial \/ Reconnect
  BY <1>0, <1>1, ClickDoes DEF Clicked, Effect
<1>2. CASE HandleEvent
  BY <1>0, <1>2, EventDoes DEF EventRead, Effect
<1>3. CASE Apply
  <2>1. cmds # <<>> /\ (Head(cmds).k = "start" => minted < MaxSid)
    <3>1. cmds # <<>>
      BY <1>3 DEF Apply
    <3>2. /\ Cardinality(Starts(Tail(cmds))) \in Nat
          /\ Cardinality(Starts(Tail(cmds))) + (IF Head(cmds).k = "start" THEN 1 ELSE 0)
                <= Cardinality(Starts(cmds))
      BY <1>0, <3>1, TailType, StartsTail, StartsFinite
    <3> QED BY <1>0, <3>1, <3>2
  <2> QED BY <1>0, <1>3, <2>1, ApplyDoes DEF Applied, Effect
<1>4. CASE Forward
  BY <1>0, <1>4, ForwardDoes DEF LineRead, Effect
<1>5. ASSUME NEW c \in Rooms, Peer(c) PROVE Effect
  <2>1. minted < MaxSid
    <3>1. left.peers > 0
      BY <1>5 DEF Peer, Spend
    <3> QED BY <1>0, <3>1
  <2> QED BY <1>0, <1>5, <2>1, PeerSteps DEF Effect
<1>6. CASE Drop
  BY <1>6, DropDoes DEF Broken, Effect
<1>7. CASE TaskStep
  BY <1>0, <1>7, TaskSteps DEF Net, Effect
<1>8. CASE UNCHANGED vars
  BY <1>8 DEF Effect
<1> QED BY <1>1, <1>2, <1>3, <1>4, <1>5, <1>6, <1>7, <1>8 DEF Next, TaskStep

Claims    == CmdOf({"start", "join"})
Connects  == CmdOf({"connect"})
DialCmds  == CmdOf({"dial"})
Gone      == LineOf({"gone"})
Onlines   == EvOf({"online"})
Cuts      == EvOf({"disconnected"})
Signals   == EvOf({"signal"})
Replies   == EvOf({"token", "collision", "joinfailed", "claimfailed"})
Dialings  == Says({"connecting"})

\* None of T is said by a session that stops.
Clear(T) == \A m \in Says({"live", "idle", "failed"}) : m \notin T

LEMMA CmdKinds ==
    ASSUME NEW m \in Commands
    PROVE  /\ m \in Claims <=> m.k \in {"start", "join"}
           /\ m \in Connects <=> m.k = "connect"
           /\ m \in DialCmds <=> m.k = "dial"
           /\ m \in Silence <=> m.k \in {"leave", "stop"}
           /\ \A ks : m \in CmdOf(ks) <=> m.k \in ks
  BY DEF Claims, Connects, DialCmds, Silence, CmdOf

LEMMA EvKinds ==
    ASSUME NEW m \in Events
    PROVE  /\ m \in Onlines <=> m.k = "online"
           /\ m \in Cuts <=> m.k = "disconnected"
           /\ m \in Signals <=> m.k = "signal"
           /\ m \in Replies <=> m.k \in {"token", "collision", "joinfailed", "claimfailed"}
           /\ m \in Dialings <=> m.k = "status" /\ m.st = "connecting"
           /\ \A ks : m \in EvOf(ks) <=> m.k \in ks
           /\ \A sts : m \in Says(sts) <=> m.k = "status" /\ m.st \in sts
  BY DEF Onlines, Cuts, Signals, Replies, Dialings, EvOf, Says

\* A line is an event, or it is the one that says that the session is gone.
LEMMA LineKinds ==
    ASSUME NEW m \in Lines
    PROVE  /\ m \in Gone <=> m.k = "gone"
           /\ m.k # "gone" => m \in Events
           /\ m.k = "gone" => m \notin Replies
           /\ m.k \notin {"status", "signal", "online", "disconnected", "claimfailed"}
<1>1. m.k \notin {"status", "signal", "online", "disconnected", "claimfailed"}
  BY DEF Lines, Answers, Tokens
<1> QED BY <1>1, EventNames DEF Gone, LineOf, Replies, EvOf

LEMMA OfKind == /\ \A ks : CmdOf(ks) \subseteq Commands /\ EvOf(ks) \subseteq Events
                /\ \A ks : LineOf(ks) \subseteq Lines /\ Says(ks) \subseteq Events
  BY DEF CmdOf, EvOf, LineOf, Says

LEMMA ClearKinds == /\ Clear(Onlines) /\ Clear(Cuts) /\ Clear(Signals) /\ Clear(Replies)
                    /\ Clear(Dialings) /\ \A ks : "status" \notin ks => Clear(EvOf(ks))
  BY DEF Clear, Says, Dialings, Onlines, Cuts, Signals, Replies, EvOf

\* e at the end of q, after what a stopping session says at most.
PassFacts(q, e, r) ==
    /\ \A T : Clear(T) => /\ Lacks(r, T) <=> Lacks(q, T) /\ e \notin T
                          /\ Single(q, T) /\ (e \in T => Lacks(q, T)) => Single(r, T)
    /\ \A A, B : /\ Clear(B) /\ InOrder(q, A, B)
                 /\ e \in B => Clear(A) /\ Lacks(q, A)
                 => InOrder(r, A, B)
    /\ \A hits, ends : \A P \in BOOLEAN :
          e \in hits \/ (e \notin ends /\ Clear(ends) /\ After(q, hits, ends, P))
             => After(r, hits, ends, P)

LEMMA Said ==
    ASSUME evs \in Seq(Events), NEW e \in Events, StopSays(e) PROVE PassFacts(evs, e, evs')
<1> DEFINE E == Says({"live", "idle", "failed"})
<1>1. PICK q \in Seq(Events) : evs' = Append(q, e) /\ Grown(evs, q, E)
  BY DEF StopSays
<1>2. GrownFacts(evs, q, E) /\ AppendFacts(q, e, evs')
  BY <1>1, OfKind, GrownBy, Appended
<1>3. \A T : Clear(T) => \A m \in E : m \notin T
  BY DEF Clear
<1> HIDE DEF E
<1> QED BY <1>2, <1>3 DEF PassFacts, GrownFacts, AppendFacts

---------------------------------------------------------------------------
(* The connection: the UI learns of every end of a session, once, and in   *)
(* its turn.                                                               *)

Hidden == ~shown

Conn ==
  /\ link => handle
  /\ ~Lacks(down, Gone) <=> handle /\ ~link
  /\ Single(down, Gone) /\ Single(cmds, Connects) /\ Single(evs, Cuts)
  /\ handle => After(evs, Onlines, Cuts, shown)
  /\ ~handle => After(evs, Cuts, Onlines, Hidden)
  /\ ~Lacks(cmds, Connects) => ~handle /\ Lacks(evs, Cuts)
  /\ ~Lacks(evs, Cuts) => ~handle /\ (shown \/ ~Lacks(evs, Onlines))

\* What most clicks and events add to the commands: no claim and no connect.
Plain == {m \in Commands : m.k \notin {"start", "join", "connect"}}

Claiming == \/ Clicked /\ \E c \in Rooms : Claimed(c)
            \/ EventRead /\ CollisionRead(Head(evs))

LEMMA PlainSent ==
    ASSUME Typed, EventRead \/ (Clicked /\ ~Reconnecting), ~Claiming
    PROVE  Grown(cmds, cmds', Plain)
<1> DEFINE E == Plain
<1>1. ASSUME NEW m \in E, cmds' = Append(cmds, m) PROVE Grown(cmds, cmds', E)
  BY <1>1 DEF Grown
<1>2. ASSUME NEW med, Dials(med) PROVE Grown(cmds, cmds', E)
  BY <1>2 DEF Dials, Grown, Plain
<1>3. ASSUME cmds' = cmds PROVE Grown(cmds, cmds', E)
  BY <1>3 DEF Grown
<1>4. ASSUME NEW ks \in SUBSET {"leave", "stop", "mute", "camera"}, NEW m \in CmdOf(ks)
      PROVE  m \in E
  BY <1>4 DEF CmdOf, Plain
<1>5. CASE Clicked /\ ~Reconnecting
  <2>2. CASE HungUp
    <3>1. PICK m \in CmdOf({"leave"}), n \in CmdOf({"stop"}) :
             cmds' = Append(Append(cmds, m), n)
      BY <2>2 DEF HungUp
    <3>2. m \in E /\ n \in E
      BY <1>4
    <3> QED BY <3>1, <3>2 DEF Grown
  <2>3. CASE Toggled
    <3>1. PICK m \in CmdOf({"mute", "camera"}) : cmds' = Append(cmds, m)
      BY <2>3 DEF Toggled
    <3> QED BY <1>1, <1>4, <3>1
  <2>4. CASE Redialled
    BY <1>2, <1>3, <2>4 DEF Redialled
  <2> QED BY <1>5, <2>2, <2>3, <2>4 DEF Clicked, Claiming
<1>6. CASE EventRead
  <2>1. PICK e \in Events : e = Head(evs) /\ Read(e)
    BY <1>6 DEF EventRead
  <2>2. ASSUME SignalRead(e) \/ TokenRead(e) PROVE Grown(cmds, cmds', E)
    BY <1>2, <1>3, <2>2 DEF SignalRead, TokenRead
  <2>3. CASE StatusRead(e)
    <3>1. cmds' = cmds \/ \E m \in CmdOf({"camera"}) : cmds' = Append(cmds, m)
      BY <2>3 DEF StatusRead
    <3> QED BY <1>1, <1>3, <1>4, <3>1
  <2>4. ~CollisionRead(e)
    BY <1>6, <2>1 DEF Claiming
  <2>5. CASE StateRead(e)
    <3>1. CASE Ended(e)
      <4>1. \E m \in CmdOf({"stop"}) : cmds' = Append(cmds, m)
        BY <3>1 DEF Ended
      <4> QED BY <1>1, <1>4, <4>1
    <3> QED BY <1>2, <1>3, <2>5, <3>1 DEF StateRead, Started, Heard
  <2>6. CASE JoinRefused(e) \/ ClaimDropped(e) \/ Cut(e) \/ CameOnline(e) \/ Passed(e)
    BY <1>3, <2>6 DEF JoinRefused, ClaimDropped, Cut, CameOnline, Passed
  <2> QED BY <2>1, <2>2, <2>3, <2>4, <2>5, <2>6 DEF Read
<1> QED BY <1>5, <1>6

LEMMA ClaimSent == ASSUME Claiming PROVE \E m \in Claims : m \in Commands /\ cmds' = Append(cmds, m)
<1>1. ASSUME NEW c \in Rooms, Claimed(c) PROVE \E m \in Claims : cmds' = Append(cmds, m)
  BY <1>1 DEF Claimed, Claims
<1>2. ASSUME CollisionRead(Head(evs)) PROVE \E m \in Claims : cmds' = Append(cmds, m)
  BY <1>2 DEF CollisionRead, Claims, CmdOf
<1> QED BY <1>1, <1>2, OfKind DEF Claiming, Claims

LEMMA NoConnectSent ==
    ASSUME Typed, EventRead \/ (Clicked /\ ~Reconnecting)
    PROVE  /\ Lacks(cmds', Connects) <=> Lacks(cmds, Connects)
           /\ Single(cmds, Connects) => Single(cmds', Connects)
<1>0. cmds \in Seq(Commands)
  BY DEF Typed
<1>1. CASE ~Claiming
  <2>1. GrownFacts(cmds, cmds', Plain)
    BY <1>0, <1>1, PlainSent, GrownBy DEF Plain
  <2> QED BY <2>1, CmdKinds DEF GrownFacts, Plain
<1>2. CASE Claiming
  <2>1. PICK m \in Claims : m \in Commands /\ cmds' = Append(cmds, m)
    BY <1>2, ClaimSent
  <2>2. AppendFacts(cmds, m, cmds') /\ m \notin Connects
    BY <1>0, <2>1, Appended, CmdKinds
  <2> QED BY <2>2 DEF AppendFacts
<1> QED BY <1>1, <1>2

LEMMA ConnClick == ASSUME Typed, Conn, Clicked PROVE Conn'
<1>0. cmds \in Seq(Commands) /\ UNCHANGED <<evs, netVars, serverVars, down>>
  BY DEF Typed, Clicked
<1>1. CASE ~Reconnecting
  <2>3. /\ Lacks(cmds', Connects) <=> Lacks(cmds, Connects)
        /\ Single(cmds, Connects) => Single(cmds', Connects)
    BY <1>1, NoConnectSent
  <2>4. shown' = shown
    BY <1>1 DEF Clicked, Claimed, HungUp, Toggled, Redialled
  <2> QED BY <1>0, <2>3, <2>4 DEF Conn, Hidden, netVars, serverVars
<1>2. CASE Reconnecting
  <2>1. PICK m \in Connects : cmds' = Append(cmds, m)
    BY <1>2 DEF Reconnecting, Connects
  <2>2. /\ shown' = shown /\ ~shown /\ Lacks(cmds, Connects) /\ Lacks(evs, Onlines)
    BY <1>2 DEF Reconnecting, Connects, Onlines
  <2>3. Single(cmds', Connects)
    <3>1. m \in Commands
      BY <2>1, OfKind DEF Connects
    <3>2. AppendFacts(cmds, m, cmds')
      BY <1>0, <2>1, <3>1, Appended
    <3> QED BY <2>2, <3>2 DEF AppendFacts, Conn
  <2>4. ~handle /\ Lacks(evs, Cuts)
    <3>1. ~handle
      BY <2>2, AfterSome DEF Conn, Typed
    <3> QED BY <2>2, <3>1 DEF Conn
  <2> QED BY <1>0, <2>2, <2>3, <2>4 DEF Conn, Hidden, netVars, serverVars
<1> QED BY <1>1, <1>2

LEMMA ConnEvent == ASSUME Typed, Typed', Conn, EventRead PROVE Conn'
<1>0. /\ cmds \in Seq(Commands) /\ evs \in Seq(Events) /\ evs # <<>> /\ evs' = Tail(evs)
      /\ shown \in BOOLEAN /\ shown' \in BOOLEAN
      /\ UNCHANGED <<netVars, serverVars, down>>
  BY DEF Typed, EventRead
<1>1. PICK e \in Events : e = Head(evs) /\ Read(e)
  BY DEF EventRead
<1>2. TailFacts(evs, e, evs')
  BY <1>0, <1>1, Shortened
<1>3. /\ Lacks(cmds', Connects) <=> Lacks(cmds, Connects)
      /\ Single(cmds, Connects) => Single(cmds', Connects)
  BY NoConnectSent
<1>4. /\ Hidden = ~shown /\ Hidden' = ~shown' /\ Hidden \in BOOLEAN /\ Hidden' \in BOOLEAN
  BY DEF Hidden
<1>5. /\ e.k = "disconnected" => ~shown'
      /\ e.k = "online" => shown'
      /\ e.k \notin {"disconnected", "online"} => shown' = shown
  <2>1. CASE Cut(e) \/ CameOnline(e)
    BY <1>1, <2>1, EvKinds DEF Cut, CameOnline
  <2>2. CASE ~(Cut(e) \/ CameOnline(e))
    <3>1. shown' = shown /\ e.k \notin {"disconnected", "online"}
      BY <1>1, <2>2, EvKinds
         DEF Read, SignalRead, StatusRead, TokenRead, CollisionRead, JoinRefused, StateRead,
             ClaimDropped, Passed
    <3> QED BY <3>1
  <2> QED BY <2>1, <2>2
<1>6. Single(evs', Cuts) /\ (Lacks(evs, Cuts) => Lacks(evs', Cuts))
  BY <1>2 DEF TailFacts, Conn
<1>7. handle' => After(evs', Onlines, Cuts, shown')
  BY <1>0, <1>1, <1>2, <1>5, EvKinds DEF TailFacts, Conn, netVars
<1>8. ~handle' => After(evs', Cuts, Onlines, Hidden')
  BY <1>0, <1>1, <1>2, <1>4, <1>5, EvKinds DEF TailFacts, Conn, netVars
<1>9. ~Lacks(evs', Cuts) => ~handle' /\ (shown' \/ ~Lacks(evs', Onlines))
  <2> SUFFICES ASSUME ~Lacks(evs', Cuts)
               PROVE  ~handle' /\ (shown' \/ ~Lacks(evs', Onlines))
    OBVIOUS
  <2>1. e \notin Cuts /\ ~handle /\ (shown \/ ~Lacks(evs, Onlines))
    BY <1>2 DEF TailFacts, Conn
  <2> QED BY <1>0, <1>1, <1>2, <1>5, <2>1, EvKinds DEF TailFacts, netVars
<1> QED BY <1>0, <1>3, <1>6, <1>7, <1>8, <1>9 DEF Conn, netVars, serverVars

LEMMA ConnApply == ASSUME Typed, Conn, Applied PROVE Conn'
<1>0. /\ cmds \in Seq(Commands) /\ evs \in Seq(Events) /\ cmds # <<>> /\ cmds' = Tail(cmds)
      /\ shown \in BOOLEAN /\ shown' = shown /\ down \in Seq(Lines)
  BY DEF Typed, Applied
<1>1. PICK m \in Commands : m = Head(cmds) /\ Does(m)
  BY DEF Applied
<1>2. TailFacts(cmds, m, cmds')
  BY <1>0, <1>1, Shortened
<1>3. /\ Single(cmds', Connects) /\ (Lacks(cmds, Connects) => Lacks(cmds', Connects))
      /\ m \in Connects => Lacks(cmds', Connects)
  BY <1>2 DEF TailFacts, Conn
<1>4. Hidden' = Hidden /\ Hidden \in BOOLEAN
  BY <1>0 DEF Hidden
\* What the step adds to the events is no end and no beginning of a session.
<1>5. ASSUME NEW e \in Events, e \notin Onlines, e \notin Cuts, PassFacts(evs, e, evs')
      PROVE  /\ Lacks(evs', Cuts) <=> Lacks(evs, Cuts)
             /\ Lacks(evs', Onlines) <=> Lacks(evs, Onlines)
             /\ Single(evs, Cuts) => Single(evs', Cuts)
             /\ After(evs, Onlines, Cuts, shown) => After(evs', Onlines, Cuts, shown)
             /\ After(evs, Cuts, Onlines, Hidden) => After(evs', Cuts, Onlines, Hidden)
  BY <1>0, <1>4, <1>5, ClearKinds DEF PassFacts
<1>6. ASSUME NEW e \in Events, evs' = Append(evs, e) PROVE PassFacts(evs, e, evs')
  BY <1>0, <1>6, Appended DEF PassFacts, AppendFacts
<1>7. ASSUME /\ Lacks(down', Gone) <=> Lacks(down, Gone)
             /\ Single(down, Gone) => Single(down', Gone),
             UNCHANGED <<handle, link>>, m \notin Connects,
             \/ evs' = evs
             \/ \E e \in Events : e \notin Onlines /\ e \notin Cuts /\ PassFacts(evs, e, evs')
      PROVE  Conn'
  <2>1. CASE evs' = evs
    BY <1>0, <1>3, <1>4, <1>7, <2>1 DEF Conn
  <2>2. CASE \E e \in Events : e \notin Onlines /\ e \notin Cuts /\ PassFacts(evs, e, evs')
    BY <1>0, <1>3, <1>4, <1>5, <1>7, <2>2 DEF Conn
  <2> QED BY <1>7, <2>1, <2>2
<1>8. ASSUME NEW n \in Lines, n \notin Gone, down' = Append(down, n)
      PROVE  /\ Lacks(down', Gone) <=> Lacks(down, Gone)
             /\ Single(down, Gone) => Single(down', Gone)
             /\ down' \in Seq(Lines)
  BY <1>0, <1>8, Appended, AppendProperties DEF AppendFacts
<1>9. ASSUME NEW n \in Lines, NEW ks, "gone" \notin ks, n \in EvOf(ks) PROVE n \notin Gone
  BY <1>9, LineKinds DEF EvOf
<1>10. CASE Asked(m)
  <2>1. m \notin Connects /\ UNCHANGED <<handle, link>>
    BY <1>10, CmdKinds DEF Asked
  <2>2. /\ Lacks(down', Gone) <=> Lacks(down, Gone)
        /\ Single(down, Gone) => Single(down', Gone)
    <3>1. CASE Quiescent
      BY <3>1 DEF Quiescent
    <3>2. CASE Granted(m)
      <4>1. PICK n \in Lines, t \in Lines :
               /\ n \in EvOf({"state"}) /\ t \in EvOf({"token"})
               /\ down' = Append(Append(down, n), t)
        BY <3>2 DEF Granted
      <4>2. PICK q : q = Append(down, n)
        OBVIOUS
      <4>3. n \notin Gone /\ t \notin Gone
        BY <1>9, <4>1
      <4>4. AppendFacts(down, n, q) /\ q \in Seq(Lines) /\ AppendFacts(q, t, down')
        BY <1>0, <4>1, <4>2, Appended, AppendProperties
      <4> QED BY <4>3, <4>4 DEF AppendFacts
    <3>3. CASE Refused(m)
      <4>1. PICK n \in Lines : n \in EvOf({"collision", "joinfailed"}) /\ down' = Append(down, n)
        BY <3>3 DEF Refused
      <4>2. n \notin Gone
        BY <1>9, <4>1
      <4> QED BY <1>8, <4>1, <4>2
    <3> QED BY <1>10, <3>1, <3>2, <3>3 DEF Asked
  <2>3. \E e \in Events : e \notin Onlines /\ e \notin Cuts /\ PassFacts(evs, e, evs')
    <3>1. PICK e \in Events : e.k \in {"signal", "claimfailed", "notconnected"}
                              /\ evs' = Append(evs, e)
      BY <1>10 DEF Asked, EvOf
    <3>2. e \notin Onlines /\ e \notin Cuts
      BY <3>1, EvKinds
    <3> QED BY <1>6, <3>1, <3>2
  <2> QED BY <1>7, <2>1, <2>2, <2>3
<1>11. CASE Stopped(m) \/ Dialled(m)
  <2>1. m \notin Connects /\ UNCHANGED <<handle, link>>
    BY <1>11, CmdKinds DEF Stopped, Dialled
  <2>2. /\ Lacks(down', Gone) <=> Lacks(down, Gone)
        /\ Single(down, Gone) => Single(down', Gone)
    <3>1. CASE Quiescent
      BY <3>1 DEF Quiescent
    <3>2. CASE TakenOut(m.chan)
      <4>1. PICK n \in Lines : n \in EvOf({"state"}) /\ down' = Append(down, n)
        BY <3>2 DEF TakenOut
      <4>2. n \notin Gone
        BY <1>9, <4>1
      <4> QED BY <1>8, <4>1, <4>2
    <3> QED BY <1>11, <3>1, <3>2 DEF Stopped, Dialled
  <2>3. PICK e \in Events : e.k = "status" /\ StopSays(e)
    BY <1>11 DEF Stopped, Dialled, Says
  <2>4. e \notin Onlines /\ e \notin Cuts /\ PassFacts(evs, e, evs')
    BY <1>0, <2>3, Said, EvKinds
  <2> QED BY <1>7, <2>1, <2>2, <2>4
<1>12. CASE Tuned(m)
  BY <1>7, <1>12, CmdKinds DEF Tuned, Quiescent
<1>13. CASE Connected(m)
  <2>1. /\ m \in Connects /\ handle' /\ link' /\ down' = down
    BY <1>13, CmdKinds DEF Connected, Quiescent
  <2>2. PICK e \in Onlines : e \in Events /\ evs' = Append(evs, e)
    BY <1>13, OfKind DEF Connected, Onlines
  <2>3. PassFacts(evs, e, evs') /\ e \notin Cuts
    BY <1>6, <2>2, EvKinds
  <2>4. ~handle /\ Lacks(evs, Cuts)
    BY <1>2, <2>1 DEF TailFacts, Conn
  <2>5. /\ Lacks(evs', Cuts) /\ Single(evs', Cuts) /\ After(evs', Onlines, Cuts, shown)
    BY <1>0, <2>2, <2>3, <2>4, ClearKinds DEF PassFacts, Conn
  <2> QED BY <1>0, <1>3, <2>1, <2>4, <2>5 DEF Conn
<1> QED BY <1>1, <1>10, <1>11, <1>12, <1>13 DEF Does

LEMMA ConnLine == ASSUME Typed, Conn, LineRead PROVE Conn'
<1>0. /\ evs \in Seq(Events) /\ down \in Seq(Lines) /\ down # <<>> /\ down' = Tail(down)
      /\ shown \in BOOLEAN /\ UNCHANGED <<shown, cmds, link>>
  BY DEF Typed, LineRead, serverVars
<1>1. PICK m \in Lines : m = Head(down) /\ Forwarded(m)
  BY DEF LineRead
<1>2. TailFacts(down, m, down')
  BY <1>0, <1>1, Shortened
<1>3. Hidden' = Hidden /\ Hidden \in BOOLEAN
  BY <1>0 DEF Hidden
<1>4. CASE m.k # "gone" /\ m \in Events /\ evs' = Append(evs, m) /\ UNCHANGED netVars
  <2>1. m \notin Gone /\ m \notin Onlines /\ m \notin Cuts
    BY <1>4, LineKinds, EvKinds
  <2>2. AppendFacts(evs, m, evs') /\ handle' = handle
    BY <1>0, <1>4, Appended DEF netVars
  <2>3. /\ Lacks(evs', Cuts) <=> Lacks(evs, Cuts)
        /\ Lacks(evs', Onlines) <=> Lacks(evs, Onlines)
        /\ Single(evs, Cuts) => Single(evs', Cuts)
        /\ After(evs, Onlines, Cuts, shown) => After(evs', Onlines, Cuts, shown)
        /\ After(evs, Cuts, Onlines, Hidden) => After(evs', Cuts, Onlines, Hidden)
    BY <1>0, <1>3, <2>1, <2>2 DEF AppendFacts
  <2>4. (Lacks(down', Gone) <=> Lacks(down, Gone)) /\ Single(down', Gone)
    BY <1>2, <2>1 DEF TailFacts, Conn
  <2> QED BY <1>0, <1>3, <2>2, <2>3, <2>4 DEF Conn
<1>5. CASE /\ m \in LineOf({"gone"}) /\ ~handle' /\ ~Running'
           /\ \E s \in EvOf({"disconnected"}) : StopSays(s)
  <2>1. m \in Gone
    BY <1>5 DEF Gone
  <2>2. PICK e \in Cuts : e \in Events /\ StopSays(e)
    BY <1>5, OfKind DEF Cuts
  <2>3. PassFacts(evs, e, evs') /\ e \notin Onlines
    BY <1>0, <2>2, Said, EvKinds
  <2>4. Lacks(down', Gone) /\ Single(down', Gone)
    BY <1>2, <2>1 DEF TailFacts, Conn
  <2>5. handle /\ ~link /\ Lacks(evs, Cuts) /\ Lacks(cmds, Connects)
    BY <1>2, <2>1 DEF TailFacts, Conn
  <2>6. /\ Single(evs', Cuts) /\ After(evs', Cuts, Onlines, Hidden)
        /\ Lacks(evs', Onlines) <=> Lacks(evs, Onlines)
    BY <1>0, <1>3, <2>2, <2>3, <2>5, ClearKinds DEF PassFacts, Conn
  <2>7. shown \/ ~Lacks(evs, Onlines)
    BY <1>0, <2>5, AfterSome DEF Conn
  <2> QED BY <1>0, <1>3, <1>5, <2>4, <2>5, <2>6, <2>7 DEF Conn
<1> QED BY <1>1, <1>4, <1>5 DEF Forwarded

LEMMA ConnStep == Types /\ Types' /\ Conn /\ [Next]_vars => Conn'
<1> SUFFICES ASSUME Types, Types', Conn, [Next]_vars PROVE Conn'
  OBVIOUS
<1>1. Typed /\ Typed' /\ Effect
  BY TypesTyped, StepDoes, PTL
<1>2. shown \in BOOLEAN /\ down \in Seq(Lines) /\ evs \in Seq(Events)
  BY <1>1 DEF Typed
<1>3. CASE PeerDoes
  <2>1. UNCHANGED <<shown, cmds, evs, handle, link>>
    BY <1>3 DEF PeerDoes, netVars
  <2>2. /\ Lacks(down', Gone) <=> Lacks(down, Gone)
        /\ Single(down, Gone) => Single(down', Gone)
    <3>1. ASSUME NEW n \in Lines, n \in EvOf({"state"}), down' = Append(down, n)
          PROVE  /\ Lacks(down', Gone) <=> Lacks(down, Gone)
                 /\ Single(down, Gone) => Single(down', Gone)
      <4>1. n \notin Gone
        BY <3>1, LineKinds DEF EvOf
      <4>2. AppendFacts(down, n, down')
        BY <1>2, <3>1, Appended
      <4> QED BY <4>1, <4>2 DEF AppendFacts
    <3> QED BY <1>3, <3>1 DEF PeerDoes
  <2> QED BY <2>1, <2>2 DEF Conn, Hidden
<1>4. CASE Broken
  <2>1. UNCHANGED <<shown, cmds, evs, handle>> /\ link /\ ~link'
    BY <1>4 DEF Broken, netVars
  <2>2. PICK m \in Gone : m \in Lines /\ down' = Append(down, m)
    BY <1>4 DEF Broken, Gone
  <2>3. AppendFacts(down, m, down')
    BY <1>2, <2>2, Appended
  <2>4. Single(down', Gone) /\ ~Lacks(down', Gone)
    BY <2>1, <2>2, <2>3 DEF AppendFacts, Conn
  <2> QED BY <2>1, <2>4 DEF Conn, Hidden
<1>5. CASE TaskDoes
  <2>1. UNCHANGED <<shown, cmds, handle, link, down>>
    BY <1>5 DEF TaskDoes, serverVars
  <2>2. Hidden' = Hidden /\ Hidden \in BOOLEAN
    BY <1>2, <2>1 DEF Hidden
  <2>3. /\ Lacks(evs', Cuts) <=> Lacks(evs, Cuts)
        /\ Lacks(evs', Onlines) <=> Lacks(evs, Onlines)
        /\ Single(evs, Cuts) => Single(evs', Cuts)
        /\ After(evs, Onlines, Cuts, shown) => After(evs', Onlines, Cuts, shown)
        /\ After(evs, Cuts, Onlines, Hidden) => After(evs', Cuts, Onlines, Hidden)
    <3>1. CASE evs' = evs
      BY <3>1
    <3>2. CASE evs' # evs
      <4>1. PICK e \in Events : e.k = "status" /\ evs' = Append(evs, e)
        BY <1>5, <3>2 DEF TaskDoes, Says
      <4>2. e \notin Cuts /\ e \notin Onlines /\ AppendFacts(evs, e, evs')
        BY <1>2, <4>1, EvKinds, Appended
      <4> QED BY <1>2, <2>2, <4>2 DEF AppendFacts
    <3> QED BY <3>1, <3>2
  <2> QED BY <2>1, <2>2, <2>3 DEF Conn
<1>6. CASE UNCHANGED vars
  BY <1>6 DEF Conn, Hidden, vars, uiVars, netVars, serverVars
<1> QED BY <1>1, <1>3, <1>4, <1>5, <1>6, ConnClick, ConnEvent, ConnApply, ConnLine DEF Effect

---------------------------------------------------------------------------
(* One claim at a time: a start or a join on its way to the server, or its *)
(* answer on the way back; the call has no token while one is open.        *)

Fair  == odd \subseteq {"early"}
Untok == InCall => lc.tok = 0
Enders == EvOf({"token", "collision", "joinfailed", "claimfailed", "disconnected"})

Open == ~Lacks(cmds, Claims) \/ ~Lacks(down, Replies) \/ ~Lacks(evs, Replies)

Asks ==
  /\ Single(cmds, Claims) /\ Single(down, Replies) /\ Single(evs, Replies)
  /\ Lacks(cmds, Claims) \/ Lacks(down, Replies)
  /\ Lacks(cmds, Claims) \/ Lacks(evs, Replies)
  /\ Lacks(down, Replies) \/ Lacks(evs, Replies)
  /\ Open => Untok
  /\ ~Lacks(evs, Signals) => Untok /\ Lacks(cmds, Claims)
  /\ InOrder(evs, Enders, Signals)
  /\ InCall /\ lc.tok # 0 => lc.sid # 0 /\ ~lc.await
AskInv == Fair => Asks

LEMMA EnderKinds ==
    /\ Clear(Enders)
    /\ \A m \in Events : m \in Enders <=> m \in Replies \/ m \in Cuts
    /\ \A q \in Seq(Events) : Lacks(q, Enders) <=> Lacks(q, Replies) /\ Lacks(q, Cuts)
<1>1. \A m \in Events : m \in Enders <=> m \in Replies \/ m \in Cuts
  BY DEF Enders, Replies, Cuts, EvOf
<1>2. ASSUME NEW q \in Seq(Events)
      PROVE  Lacks(q, Enders) <=> Lacks(q, Replies) /\ Lacks(q, Cuts)
  <2>1. \A i \in 1..Len(q) : q[i] \in Events
    OBVIOUS
  <2> QED BY <1>1, <2>1 DEF Lacks
<1> QED BY <1>1, <1>2, ClearKinds DEF Enders

\* What is odd stays so.
LEMMA OddGrows == ASSUME Effect PROVE odd \subseteq odd'
<1>1. ASSUME Clicked PROVE odd \subseteq odd'
  BY <1>1 DEF Clicked, Claimed, Hurry, HungUp, Early, Toggled, Redialled, Reconnecting
<1>2. ASSUME EventRead PROVE odd \subseteq odd'
  BY <1>2 DEF EventRead, Read, SignalRead, StatusRead, TokenRead, CollisionRead, JoinRefused,
              StateRead, Started, Ended, Heard, Early, ClaimDropped, Cut, CameOnline, Passed
<1>3. ASSUME Applied PROVE odd \subseteq odd'
  BY <1>3 DEF Applied, Does, Asked, Stopped, Dialled, Tuned, Connected
<1>4. LineRead \/ PeerDoes \/ Broken \/ TaskDoes \/ UNCHANGED vars => odd' = odd
  BY DEF LineRead, PeerDoes, Broken, TaskDoes, vars
<1> QED BY <1>1, <1>2, <1>3, <1>4 DEF Effect

LEMMA FairBefore == ASSUME Effect, Fair' PROVE Fair
  BY OddGrows DEF Fair

\* A claim made in fairness is made when all is quiet.
LEMMA ClaimedQuietly ==
    ASSUME NEW c \in Rooms, Claimed(c), Fair'
    PROVE  ~Running /\ cmds = <<>> /\ evs = <<>> /\ down = <<>>
<1>1. "hurried" \notin odd'
  BY DEF Fair
<1> QED BY <1>1 DEF Claimed, Hurry, Pending

\* The slot after a click or an event, as far as claims go.
LEMMA AsksClick == ASSUME Typed, Asks, Fair', Clicked PROVE Asks'
<1>0. /\ cmds \in Seq(Commands) /\ UNCHANGED <<evs, down>>
      /\ lc \in Call \cup {NoCall}
  BY DEF Typed, Clicked
<1>1. ASSUME NEW c \in Rooms, Claimed(c) PROVE Asks'
  <2>1. cmds = <<>> /\ evs = <<>> /\ down = <<>>
    BY <1>1, ClaimedQuietly
  <2>2. PICK m \in Claims : m \in Commands /\ cmds' = Append(cmds, m)
    BY <1>1, ClaimSent DEF Claiming
  <2>3. Lacks(evs', Replies) /\ Lacks(evs', Signals) /\ Lacks(down', Replies) /\ Lacks(cmds, Claims)
    BY <1>0, <2>1, LacksEmpty
  <2>4. Single(cmds', Claims) /\ Single(down', Replies) /\ Single(evs', Replies)
    <3>1. AppendFacts(cmds, m, cmds') /\ Single(cmds, Claims)
      BY <1>0, <2>2, <2>3, Appended, SingleLacks
    <3> QED BY <2>3, <3>1, SingleLacks DEF AppendFacts
  <2>5. InOrder(evs', Enders, Signals)
    BY <2>3, InOrderLacks
  <2>6. lc'.tok = 0
    BY <1>1 DEF Claimed
  <2> QED BY <2>3, <2>4, <2>5, <2>6 DEF Asks, Untok
<1>2. CASE ~\E c \in Rooms : Claimed(c)
  <2>1. /\ Lacks(cmds', Claims) <=> Lacks(cmds, Claims)
        /\ Single(cmds, Claims) => Single(cmds', Claims)
    <3>1. CASE Reconnecting
      <4>1. PICK m \in CmdOf({"connect"}) : m \in Commands /\ cmds' = Append(cmds, m)
        BY <3>1, OfKind DEF Reconnecting
      <4>2. AppendFacts(cmds, m, cmds') /\ m \notin Claims
        BY <1>0, <4>1, Appended, CmdKinds
      <4> QED BY <4>2 DEF AppendFacts
    <3>2. CASE ~Reconnecting
      <4>1. ~Claiming
        BY <1>2, EvKinds DEF Claiming, Clicked, EventRead
      <4>2. GrownFacts(cmds, cmds', Plain)
        BY <1>0, <3>2, <4>1, PlainSent, GrownBy DEF Plain
      <4> QED BY <4>2, CmdKinds DEF GrownFacts, Plain
    <3> QED BY <3>1, <3>2
  <2>2. ~InCall' \/ Keeps
    BY <1>2 DEF Clicked, HungUp, Toggled, Redialled, Reconnecting, Keeps, InCall
  <2> QED BY <1>0, <2>1, <2>2 DEF Asks, Open, Untok, Keeps
<1> QED BY <1>1, <1>2

LEMMA AsksEvent == ASSUME Typed, Asks, EventRead PROVE Asks'
<1>0. /\ cmds \in Seq(Commands) /\ evs \in Seq(Events) /\ evs # <<>> /\ evs' = Tail(evs)
      /\ down' = down /\ lc \in Call \cup {NoCall} /\ evs' \in Seq(Events)
  BY TailType DEF Typed, EventRead
<1>1. PICK e \in Events : e = Head(evs) /\ Read(e)
  BY DEF EventRead
<1>2. TailFacts(evs, e, evs')
  BY <1>0, <1>1, Shortened
<1>3. /\ Single(evs', Replies) /\ InOrder(evs', Enders, Signals)
      /\ Lacks(evs, Replies) => Lacks(evs', Replies)
      /\ Lacks(evs, Signals) => Lacks(evs', Signals)
  BY <1>2 DEF TailFacts, Asks
\* An answer is the last there is: nothing is open behind it.
<1>4. ASSUME e \in Replies
      PROVE  /\ Lacks(cmds, Claims) /\ Lacks(down, Replies) /\ Lacks(evs', Replies)
             /\ Lacks(evs', Signals) /\ Untok
  <2>1. ~Lacks(evs, Replies) /\ Lacks(evs', Replies)
    BY <1>2, <1>4 DEF TailFacts, Asks
  <2>2. Lacks(evs', Signals)
    BY <1>2, <1>4, EnderKinds DEF TailFacts, Asks
  <2> QED BY <2>1, <2>2 DEF Asks, Open
<1>5. CASE CollisionRead(e)
  <2>1. e \in Replies
    BY <1>5, EvKinds DEF CollisionRead
  <2>2. PICK m \in Claims : m \in Commands /\ cmds' = Append(cmds, m)
    BY <1>0, <1>1, <1>5, ClaimSent DEF Claiming, EventRead
  <2>3. AppendFacts(cmds, m, cmds')
    BY <1>0, <2>2, Appended
  <2>4. Single(cmds', Claims)
    BY <1>4, <2>1, <2>3 DEF AppendFacts, Asks
  <2>5. lc'.tok = 0
    BY <1>5 DEF CollisionRead
  <2> QED BY <1>0, <1>3, <1>4, <2>1, <2>4, <2>5 DEF Asks, Untok
<1>6. CASE ~CollisionRead(e)
  <2>1. /\ Lacks(cmds', Claims) <=> Lacks(cmds, Claims)
        /\ Single(cmds, Claims) => Single(cmds', Claims)
    <3>1. ~Claiming
      BY <1>1, <1>6, EvKinds DEF Claiming, Clicked, EventRead
    <3>2. GrownFacts(cmds, cmds', Plain)
      BY <1>0, <3>1, PlainSent, GrownBy DEF Plain
    <3> QED BY <3>2, CmdKinds DEF GrownFacts, Plain
  <2>2. CASE TokenRead(e)
    <3>1. e \in Replies /\ e.sid # 0
      BY <2>2, EvKinds, EventFields DEF TokenRead
    <3>2. InCall' /\ lc'.tok # 0 => lc'.sid # 0 /\ ~lc'.await
      BY <2>2, <3>1 DEF TokenRead, Asks, InCall
    <3> QED BY <1>0, <1>3, <1>4, <2>1, <3>1, <3>2 DEF Asks, Open
  <2>3. ASSUME Untok => Untok', InCall' /\ lc'.tok # 0 => lc'.sid # 0 /\ ~lc'.await
        PROVE  Asks'
    BY <1>0, <1>3, <2>1, <2>3 DEF Asks, Open
  <2>4. CASE SignalRead(e)
    <3>1. Untok
      BY <1>2, <2>4, EvKinds DEF SignalRead, TailFacts, Asks
    <3>2. lc'.tok = 0
      BY <2>4, <3>1 DEF SignalRead, Untok
    <3> QED BY <2>3, <3>2 DEF Untok
  <2>5. CASE StatusRead(e)
    BY <2>3, <2>5 DEF StatusRead, Keeps, Untok, Asks
  <2>6. CASE StateRead(e)
    <3>1. e.sid # 0
      BY <2>6, EvKinds, EventFields DEF StateRead
    <3>2. CASE Started(e) \/ Heard(e)
      BY <2>3, <3>1, <3>2 DEF Started, Heard, Untok, Asks
    <3>3. CASE Ended(e) \/ lc' = lc
      BY <2>3, <3>3 DEF Ended, Untok, Asks, InCall
    <3> QED BY <2>6, <3>2, <3>3 DEF StateRead
  <2>7. CASE JoinRefused(e) \/ ClaimDropped(e) \/ Cut(e) \/ CameOnline(e) \/ Passed(e)
    BY <2>3, <2>7
       DEF JoinRefused, ClaimDropped, Cut, CameOnline, Passed, Untok, Asks, InCall
  <2> QED BY <1>1, <1>6, <2>2, <2>4, <2>5, <2>6, <2>7 DEF Read
<1> QED BY <1>5, <1>6

LEMMA AsksApply == ASSUME Typed, Conn, Asks, Applied PROVE Asks'
<1>0. /\ cmds \in Seq(Commands) /\ evs \in Seq(Events) /\ cmds # <<>> /\ cmds' = Tail(cmds)
      /\ lc' = lc /\ down \in Seq(Lines)
  BY DEF Typed, Applied
<1>1. PICK m \in Commands : m = Head(cmds) /\ Does(m)
  BY DEF Applied
<1>2. TailFacts(cmds, m, cmds')
  BY <1>0, <1>1, Shortened
<1>3. /\ Single(cmds', Claims) /\ (Lacks(cmds, Claims) => Lacks(cmds', Claims))
      /\ Untok' <=> Untok
  BY <1>0, <1>2 DEF TailFacts, Asks, Untok, InCall
<1>4. ASSUME NEW n \in Lines, n \in EvOf({"state"}) PROVE n \notin Replies
  BY <1>4, EvKinds DEF EvOf, Replies
\* Statuses and what else is no answer and no signal.
<1>5. ASSUME NEW e \in Events, e \notin Replies, e \notin Signals, PassFacts(evs, e, evs')
      PROVE  /\ Lacks(evs', Replies) <=> Lacks(evs, Replies)
             /\ Lacks(evs', Signals) <=> Lacks(evs, Signals)
             /\ Single(evs, Replies) => Single(evs', Replies)
             /\ InOrder(evs, Enders, Signals) => InOrder(evs', Enders, Signals)
  BY <1>5, ClearKinds DEF PassFacts
<1>6. ASSUME NEW e \in Events, evs' = Append(evs, e) PROVE PassFacts(evs, e, evs')
  BY <1>0, <1>6, Appended DEF PassFacts, AppendFacts
<1>7. ASSUME /\ Lacks(down', Replies) <=> Lacks(down, Replies)
             /\ Single(down, Replies) => Single(down', Replies),
             \/ evs' = evs
             \/ \E e \in Events : e \notin Replies /\ e \notin Signals /\ PassFacts(evs, e, evs')
      PROVE  Asks'
  <2>1. /\ Lacks(evs', Replies) <=> Lacks(evs, Replies)
        /\ Lacks(evs', Signals) <=> Lacks(evs, Signals)
        /\ Single(evs, Replies) => Single(evs', Replies)
        /\ InOrder(evs, Enders, Signals) => InOrder(evs', Enders, Signals)
    BY <1>5, <1>7
  <2> QED BY <1>0, <1>3, <1>7, <2>1 DEF Asks, Open, InCall
<1>8. CASE Asked(m)
  <2>1. /\ m \in Claims /\ Lacks(cmds', Claims) /\ Lacks(down, Replies)
        /\ Lacks(evs, Replies) /\ Untok
    <3>1. m \in Claims
      BY <1>8 DEF Asked, Claims
    <3> QED BY <1>2, <3>1 DEF TailFacts, Asks, Open
  <2>2. CASE /\ handle /\ link /\ (Granted(m) \/ Refused(m))
             /\ \E s \in EvOf({"signal"}) : evs' = Append(evs, s)
    <3>1. PICK s \in Signals : s \in Events /\ evs' = Append(evs, s)
      BY <2>2, OfKind DEF Signals
    <3>2. s \notin Replies /\ Lacks(evs, Enders)
      BY <1>0, <2>1, <2>2, <3>1, EvKinds, EnderKinds DEF Conn
    <3>3. AppendFacts(evs, s, evs')
      BY <1>0, <3>1, Appended
    <3>4. /\ Lacks(evs', Replies) /\ Single(evs', Replies)
          /\ InOrder(evs', Enders, Signals)
      BY <2>1, <3>2, <3>3 DEF AppendFacts, Asks
    <3>5. Single(down', Replies)
      <4>1. CASE Granted(m)
        <5>1. PICK n \in Lines, t \in Lines : /\ n \in EvOf({"state"})
                                            /\ down' = Append(Append(down, n), t)
          BY <4>1 DEF Granted
        <5>2. PICK q : q = Append(down, n)
          OBVIOUS
        <5>3. AppendFacts(down, n, q) /\ q \in Seq(Lines) /\ AppendFacts(q, t, down')
          BY <1>0, <5>1, <5>2, Appended, AppendProperties
        <5> QED BY <1>4, <2>1, <5>1, <5>3, SingleLacks DEF AppendFacts
      <4>2. CASE Refused(m)
        <5>1. PICK n \in Lines : down' = Append(down, n)
          BY <4>2 DEF Refused
        <5>2. AppendFacts(down, n, down')
          BY <1>0, <5>1, Appended
        <5> QED BY <2>1, <5>2, SingleLacks DEF AppendFacts
      <4> QED BY <2>2, <4>1, <4>2
    <3> QED BY <1>0, <1>3, <2>1, <3>4, <3>5 DEF Asks, Open, InCall
  <2>3. CASE Quiescent /\ \E s \in EvOf({"claimfailed"}) : evs' = Append(evs, s)
    <3>1. PICK s \in Events : s.k = "claimfailed" /\ evs' = Append(evs, s)
      BY <2>3 DEF EvOf
    <3>2. AppendFacts(evs, s, evs') /\ s \notin Signals
      BY <1>0, <3>1, Appended, EvKinds
    <3>3. /\ Single(evs', Replies) /\ InOrder(evs', Enders, Signals)
          /\ Lacks(down', Replies) /\ Single(down', Replies)
      BY <2>1, <2>3, <3>2 DEF AppendFacts, Asks, Quiescent
    <3> QED BY <1>0, <1>3, <2>1, <3>3 DEF Asks, Open, InCall
  <2>4. CASE Quiescent /\ \E s \in EvOf({"notconnected"}) : evs' = Append(evs, s)
    <3>1. PICK s \in Events : s.k = "notconnected" /\ evs' = Append(evs, s)
      BY <2>4 DEF EvOf
    <3>2. s \notin Signals /\ s \notin Replies
      BY <3>1, EvKinds
    <3> QED BY <1>6, <1>7, <2>4, <3>1, <3>2 DEF Quiescent
  <2> QED BY <1>8, <2>2, <2>3, <2>4 DEF Asked
<1>9. CASE Stopped(m) \/ Dialled(m)
  <2>1. /\ Lacks(down', Replies) <=> Lacks(down, Replies)
        /\ Single(down, Replies) => Single(down', Replies)
    <3>1. CASE Quiescent
      BY <3>1 DEF Quiescent
    <3>2. CASE TakenOut(m.chan)
      <4>1. PICK n \in Lines : n \in EvOf({"state"}) /\ down' = Append(down, n)
        BY <3>2 DEF TakenOut
      <4>2. AppendFacts(down, n, down')
        BY <1>0, <4>1, Appended
      <4> QED BY <1>4, <4>1, <4>2 DEF AppendFacts
    <3> QED BY <1>9, <3>1, <3>2 DEF Stopped, Dialled
  <2>2. PICK e \in Events : e.k = "status" /\ StopSays(e)
    BY <1>9 DEF Stopped, Dialled, Says
  <2>3. e \notin Replies /\ e \notin Signals /\ PassFacts(evs, e, evs')
    BY <1>0, <2>2, Said, EvKinds
  <2> QED BY <1>7, <2>1, <2>3
<1>10. CASE Tuned(m)
  BY <1>7, <1>10 DEF Tuned, Quiescent
<1>11. CASE Connected(m)
  <2>1. PICK e \in Events : e.k = "online" /\ evs' = Append(evs, e)
    BY <1>11 DEF Connected, EvOf
  <2>2. e \notin Replies /\ e \notin Signals
    BY <2>1, EvKinds
  <2> QED BY <1>6, <1>7, <1>11, <2>1, <2>2 DEF Connected, Quiescent
<1> QED BY <1>1, <1>8, <1>9, <1>10, <1>11 DEF Does

LEMMA AsksLine == ASSUME Typed, Asks, LineRead PROVE Asks'
<1>0. /\ evs \in Seq(Events) /\ down \in Seq(Lines) /\ down # <<>> /\ down' = Tail(down)
      /\ UNCHANGED <<lc, cmds>>
  BY DEF Typed, LineRead
<1>1. PICK m \in Lines : m = Head(down) /\ Forwarded(m)
  BY DEF LineRead
<1>2. TailFacts(down, m, down')
  BY <1>0, <1>1, Shortened
<1>3. CASE m.k # "gone" /\ m \in Events /\ evs' = Append(evs, m)
  <2>1. m \notin Signals
    BY <1>3, LineKinds, EvKinds
  <2>2. AppendFacts(evs, m, evs')
    BY <1>0, <1>3, Appended
  <2>3. /\ Single(evs', Replies) /\ InOrder(evs', Enders, Signals)
        /\ Lacks(evs', Signals) <=> Lacks(evs, Signals)
        /\ Single(down', Replies)
        /\ Lacks(down', Replies) \/ Lacks(evs', Replies)
        /\ ~Lacks(down', Replies) => ~Lacks(down, Replies)
        /\ ~Lacks(evs', Replies) => ~Lacks(down, Replies) \/ ~Lacks(evs, Replies)
    BY <1>2, <2>1, <2>2 DEF AppendFacts, TailFacts, Asks
  <2> QED BY <1>0, <2>3 DEF Asks, Open, Untok, InCall
<1>4. CASE m \in LineOf({"gone"}) /\ \E s \in EvOf({"disconnected"}) : StopSays(s)
  <2>1. PICK e \in Cuts : e \in Events /\ StopSays(e)
    BY <1>4, OfKind DEF Cuts
  <2>2. PassFacts(evs, e, evs') /\ e \notin Signals /\ e \notin Replies
    BY <1>0, <2>1, Said, EvKinds
  <2>3. /\ Lacks(evs', Replies) <=> Lacks(evs, Replies)
        /\ Lacks(evs', Signals) <=> Lacks(evs, Signals)
        /\ Single(evs', Replies) /\ InOrder(evs', Enders, Signals)
    BY <2>2, ClearKinds DEF PassFacts, Asks
  <2>4. Single(down', Replies) /\ (Lacks(down, Replies) => Lacks(down', Replies))
    BY <1>2 DEF TailFacts, Asks
  <2> QED BY <1>0, <2>3, <2>4 DEF Asks, Open, Untok, InCall
<1> QED BY <1>1, <1>3, <1>4 DEF Forwarded

LEMMA AskStep == Types /\ Types' /\ Conn /\ AskInv /\ [Next]_vars => AskInv'
<1> SUFFICES ASSUME Types, Types', Conn, AskInv, [Next]_vars, Fair' PROVE Asks'
  BY DEF AskInv
<1>1. Typed /\ Typed' /\ Effect
  BY TypesTyped, StepDoes, PTL
<1>2. Asks /\ down \in Seq(Lines) /\ evs \in Seq(Events)
  BY <1>1, FairBefore DEF Typed, AskInv
<1>3. CASE PeerDoes \/ Broken
  <2>1. UNCHANGED <<lc, cmds, evs>>
    BY <1>3 DEF PeerDoes, Broken
  <2>2. /\ Lacks(down', Replies) <=> Lacks(down, Replies)
        /\ Single(down, Replies) => Single(down', Replies)
    <3>1. ASSUME NEW n \in Lines, n \notin Replies, down' = Append(down, n)
          PROVE  /\ Lacks(down', Replies) <=> Lacks(down, Replies)
                 /\ Single(down, Replies) => Single(down', Replies)
      <4>1. AppendFacts(down, n, down')
        BY <1>2, <3>1, Appended
      <4> QED BY <3>1, <4>1 DEF AppendFacts
    <3>2. \A n \in Lines : n \in EvOf({"state"}) \/ n \in LineOf({"gone"}) => n \notin Replies
      BY EvKinds, LineKinds DEF EvOf, LineOf
    <3> QED BY <1>3, <3>1, <3>2 DEF PeerDoes, Broken
  <2> QED BY <1>2, <2>1, <2>2 DEF Asks, Open, Untok, InCall
<1>4. CASE TaskDoes
  <2>1. UNCHANGED <<lc, cmds, down>>
    BY <1>4 DEF TaskDoes
  <2>2. /\ Lacks(evs', Replies) <=> Lacks(evs, Replies)
        /\ Lacks(evs', Signals) <=> Lacks(evs, Signals)
        /\ Single(evs, Replies) => Single(evs', Replies)
        /\ InOrder(evs, Enders, Signals) => InOrder(evs', Enders, Signals)
    <3>1. CASE evs' = evs
      BY <3>1
    <3>2. CASE evs' # evs
      <4>1. PICK e \in Events : e.k = "status" /\ evs' = Append(evs, e)
        BY <1>4, <3>2 DEF TaskDoes, Says
      <4>2. e \notin Replies /\ e \notin Signals /\ AppendFacts(evs, e, evs')
        BY <1>2, <4>1, EvKinds, Appended
      <4> QED BY <4>2 DEF AppendFacts
    <3> QED BY <3>1, <3>2
  <2> QED BY <1>2, <2>1, <2>2 DEF Asks, Open, Untok, InCall
<1>5. CASE UNCHANGED vars
  BY <1>2, <1>5 DEF Asks, Open, Untok, InCall, vars, uiVars
<1> QED BY <1>1, <1>2, <1>3, <1>4, <1>5, AsksClick, AsksEvent, AsksApply, AsksLine DEF Effect

---------------------------------------------------------------------------
(* The media: whatever runs or is to be dialled is that of the call on the *)
(* screen, or is about to be stopped.                                      *)

Strays(s) == {m \in DialCmds : m.sid # s}
Silent    == ~Running
Undialled == lc.media # "connecting"
InDial    == Running /\ ses.phase = "dial"
Answered  == Says({"live", "failed"})

\* Nothing runs and nothing is about to.
Calm == Silent /\ Lacks(cmds, DialCmds) /\ Lacks(evs, Dialings)

\* A call that is shown as connecting is, or will learn that it is not.
Learns == InCall /\ ~InDial => \/ ~Lacks(cmds, DialCmds) \/ ~Lacks(evs, Cuts)
                               \/ After(evs, Answered, Dialings, Undialled)

\* Without a call, a session or a dial is followed by a stop; after the end of
\* the connection there is none, and nothing is dialled before the next one.
Stops == ~InCall => \/ After(cmds, Silence, DialCmds, Silent)
                    \/ ~handle /\ Silent /\ InOrder(cmds, Connects, DialCmds)

Media1 ==
  /\ Open \/ ~Lacks(evs, Signals) => Calm
  /\ ~Lacks(evs, Cuts) => Silent
  /\ Stops
  /\ InCall => /\ Lacks(cmds, Strays(lc.sid))
               /\ ~Lacks(cmds, DialCmds) => lc.tok # 0
               /\ Running => ses.sid = lc.sid /\ lc.tok # 0
               /\ ~Lacks(cmds, Silence) => Silent /\ InOrder(cmds, DialCmds, Silence)
  /\ Learns
MediaInv == Fair => Media1

LEMMA Truths == Silent \in BOOLEAN /\ Undialled \in BOOLEAN /\ InDial \in BOOLEAN
  BY DEF Silent, Undialled, InDial

LEMMA StrayKinds ==
    /\ \A s : Strays(s) \subseteq DialCmds
    /\ \A m \in Commands : \A s : m \in Strays(s) <=> m.k = "dial" /\ m.sid # s
    /\ \A q, s : Lacks(q, DialCmds) => Lacks(q, Strays(s))
<1>1. \A s : Strays(s) \subseteq DialCmds
  BY DEF Strays
<1> QED BY <1>1, CmdKinds DEF Strays, Lacks

LEMMA AnswerKinds ==
    \A m \in Events : m \in Answered <=> m.k = "status" /\ m.st \in {"live", "failed"}
  BY EvKinds DEF Answered

\* What holds of a call when nothing runs.
LEMMA CalmMedia == Calm /\ Learns => Media1
<1> SUFFICES ASSUME Calm, Learns PROVE Media1
  OBVIOUS
<1>1. ~InCall => After(cmds, Silence, DialCmds, Silent)
  BY AfterLacks, Truths DEF Calm
<1>2. InOrder(cmds, DialCmds, Silence)
  BY InOrderLacks DEF Calm
<1>3. Lacks(cmds, Strays(lc.sid)) /\ ~Running
  BY StrayKinds DEF Calm, Silent
<1> QED BY <1>1, <1>2, <1>3 DEF Media1, Calm, Stops, Silent

\* A call that can be dialled anew, whatever its id was.
LEMMA MediaClick ==
    ASSUME NeedToken, Typed, Typed', Asks, Asks', Media1, Fair', Clicked PROVE Media1'
<1>0. /\ cmds \in Seq(Commands) /\ cmds' \in Seq(Commands)
      /\ UNCHANGED <<evs, ses, handle, down>>
      /\ Silent' = Silent /\ (InDial' <=> InDial) /\ (Running' <=> Running)
  BY DEF Typed, Clicked, netVars, Silent, InDial, Running
<1>1. ASSUME NEW c \in Rooms, Claimed(c) PROVE Media1'
  <2>1. ~Running /\ cmds = <<>> /\ evs = <<>>
    BY <1>1, ClaimedQuietly
  <2>2. PICK m \in Claims : m \in Commands /\ cmds' = Append(cmds, m)
    BY <1>1, ClaimSent DEF Claiming
  <2>3. AppendFacts(cmds, m, cmds') /\ m \notin DialCmds
    BY <1>0, <2>2, Appended, CmdKinds
  <2>4. Calm'
    BY <1>0, <2>1, <2>3, LacksEmpty DEF Calm, AppendFacts, Silent
  <2>5. After(evs, Answered, Dialings, Undialled')
    <3>1. Undialled' \in BOOLEAN /\ Undialled'
      BY <1>1 DEF Claimed, Undialled
    <3> QED BY <2>1, <3>1, LacksEmpty, AfterLacks
  <2>6. Learns'
    BY <1>0, <2>5 DEF Learns
  <2> QED BY <2>4, <2>6, CalmMedia, PTL
<1>2. CASE HungUp
  <2>1. PICK m \in CmdOf({"leave"}), n \in CmdOf({"stop"}) :
           cmds' = Append(Append(cmds, m), n)
    BY <1>2 DEF HungUp
  <2>2. m \in Commands /\ n \in Commands /\ m.k = "leave" /\ n.k = "stop"
    BY <2>1 DEF CmdOf
  <2>3. PICK q : q = Append(cmds, m)
    OBVIOUS
  <2>4. AppendFacts(cmds, m, q) /\ q \in Seq(Commands) /\ AppendFacts(q, n, cmds')
    BY <1>0, <2>1, <2>2, <2>3, Appended, AppendProperties
  <2>5. /\ Lacks(cmds', Claims) <=> Lacks(cmds, Claims)
        /\ Lacks(cmds', DialCmds) <=> Lacks(cmds, DialCmds)
    BY <2>2, <2>4, CmdKinds DEF AppendFacts
  <2>6. After(cmds', Silence, DialCmds, Silent)
    BY <2>2, <2>4, CmdKinds, Truths DEF AppendFacts
  <2>7. ~InCall'
    BY <1>2 DEF HungUp
  <2>8. After(cmds', Silence, DialCmds, Silent')
    BY <1>0, <2>6, Truths
  <2> QED BY <1>0, <2>5, <2>7, <2>8 DEF Media1, Open, Calm, Stops, Learns
<1>3. CASE Toggled
  <2>1. PICK m \in CmdOf({"mute", "camera"}) : m \in Commands /\ cmds' = Append(cmds, m)
    BY <1>3, OfKind DEF Toggled
  <2>2. AppendFacts(cmds, m, cmds') /\ m.k \in {"mute", "camera"}
    BY <1>0, <2>1, Appended, CmdKinds
  <2>3. /\ \A T : m \notin T => (Lacks(cmds', T) <=> Lacks(cmds, T))
        /\ m \notin Claims /\ m \notin DialCmds /\ m \notin Silence /\ m \notin Strays(lc.sid)
        /\ InOrder(cmds, DialCmds, Silence) => InOrder(cmds', DialCmds, Silence)
    BY <2>1, <2>2, CmdKinds, StrayKinds DEF AppendFacts
  <2>4. /\ InCall /\ InCall' /\ lc'.sid = lc.sid /\ lc'.tok = lc.tok
        /\ Undialled' = Undialled
    BY <1>3 DEF Toggled, Keeps, Undialled
  <2> QED BY <1>0, <2>3, <2>4 DEF Media1, Open, Calm, Stops, Learns
<1>4. CASE Redialled /\ UNCHANGED <<lc, cmds>>
  <2>1. (InCall' <=> InCall) /\ Undialled' = Undialled
    BY <1>4 DEF InCall, Undialled
  <2> QED BY <1>0, <1>4, <2>1 DEF Media1, Open, Calm, Stops, Learns
<1>5. CASE Redialled /\ InCall /\ Dials("idle")
  <2>1. InCall' /\ lc'.sid = lc.sid /\ lc'.tok = lc.tok
    BY <1>5 DEF Redialled, Keeps
  <2>2. CASE cmds' = cmds /\ lc'.media = "idle"
    <3>1. Undialled'
      BY <2>2 DEF Undialled
    <3>2. ASSUME After(evs, Answered, Dialings, Undialled)
          PROVE  After(evs, Answered, Dialings, Undialled')
      BY <3>1, <3>2, AfterMore, Truths
    <3> QED BY <1>0, <1>5, <2>1, <2>2, <3>2 DEF Media1, Open, Calm, Stops, Learns
  <2>3. CASE /\ lc'.media = "connecting" /\ (NeedToken => lc'.tok # 0)
             /\ \E m \in Commands : /\ m.k = "dial" /\ m.sid = lc'.sid
                                    /\ cmds' = Append(cmds, m)
    <3>1. PICK m \in Commands : m.k = "dial" /\ m.sid = lc'.sid /\ cmds' = Append(cmds, m)
      BY <2>3
    <3>2. AppendFacts(cmds, m, cmds') /\ m \in DialCmds /\ m \notin Silence
          /\ m \notin Strays(lc.sid)
      BY <1>0, <2>1, <3>1, Appended, CmdKinds, StrayKinds
    <3>3. ~Open' /\ Lacks(evs', Signals)
      BY <2>1, <2>3 DEF Asks, Untok
    <3> QED BY <1>0, <1>5, <2>1, <2>3, <3>2, <3>3
            DEF Media1, Stops, Learns, AppendFacts
  <2> QED BY <1>5, <2>2, <2>3 DEF Dials
<1>6. CASE Reconnecting
  <2>1. PICK m \in Connects : m \in Commands /\ cmds' = Append(cmds, m)
    BY <1>6, OfKind DEF Reconnecting, Connects
  <2>2. AppendFacts(cmds, m, cmds') /\ m.k = "connect"
    BY <1>0, <2>1, Appended, CmdKinds
  <2>3. /\ m \notin Claims /\ m \notin DialCmds /\ m \notin Silence /\ m \notin Strays(lc.sid)
    BY <2>1, <2>2, CmdKinds, StrayKinds
  <2>4. /\ \A T : m \notin T => (Lacks(cmds', T) <=> Lacks(cmds, T))
        /\ InOrder(cmds, DialCmds, Silence) => InOrder(cmds', DialCmds, Silence)
        /\ InOrder(cmds, Connects, DialCmds) => InOrder(cmds', Connects, DialCmds)
        /\ After(cmds, Silence, DialCmds, Silent) => After(cmds', Silence, DialCmds, Silent)
    BY <2>2, <2>3, Truths DEF AppendFacts
  <2>5. lc' = lc /\ (InCall' <=> InCall) /\ Undialled' = Undialled
    BY <1>6 DEF Reconnecting, InCall, Undialled
  <2> QED BY <1>0, <2>3, <2>4, <2>5 DEF Media1, Open, Calm, Stops, Learns
<1> QED BY <1>1, <1>2, <1>3, <1>4, <1>5, <1>6 DEF Clicked, Redialled

LEMMA MediaEvent ==
    ASSUME NeedToken, Typed, Typed', Conn, Asks, Asks', Media1, EventRead PROVE Media1'
<1>0. /\ cmds \in Seq(Commands) /\ evs \in Seq(Events) /\ evs # <<>> /\ evs' = Tail(evs)
      /\ UNCHANGED <<ses, handle, down>> /\ Silent' = Silent
      /\ (InDial' <=> InDial) /\ (Running' <=> Running)
      /\ lc \in Call \cup {NoCall}
  BY DEF Typed, EventRead, netVars, Silent, InDial, Running
<1>1. PICK e \in Events : e = Head(evs) /\ Read(e)
  BY DEF EventRead
<1>2. TailFacts(evs, e, evs')
  BY <1>0, <1>1, Shortened
<1>3. /\ Lacks(evs', Dialings) \/ ~Lacks(evs, Dialings)
      /\ Lacks(evs', Cuts) \/ ~Lacks(evs, Cuts)
      /\ Lacks(evs', Signals) \/ ~Lacks(evs, Signals)
      /\ Lacks(evs', Replies) \/ ~Lacks(evs, Replies)
      /\ e \notin Cuts => (Lacks(evs', Cuts) <=> Lacks(evs, Cuts))
  BY <1>2 DEF TailFacts
\* An answer and a signal find nothing running.
<1>4. e \in Replies \/ e \in Signals => Calm
  BY <1>2 DEF TailFacts, Media1, Open
<1>5. Calm' /\ Learns' => Media1'
  BY CalmMedia, PTL
\* The call may learn what it is to learn from what is left of the events.
<1>6. ASSUME After(evs, Answered, Dialings, Undialled), Undialled => Undialled',
             e \notin Answered
      PROVE  After(evs', Answered, Dialings, Undialled')
  <2>1. Undialled \in BOOLEAN /\ Undialled' \in BOOLEAN
    BY DEF Undialled
  <2> QED BY <1>2, <1>6, <2>1 DEF TailFacts
<1>7. ASSUME Lacks(evs', Dialings), Undialled'
      PROVE  After(evs', Answered, Dialings, Undialled')
  <2>1. Undialled' \in BOOLEAN
    BY DEF Undialled
  <2> QED BY <1>7, <2>1, AfterLacks
<1>8. ASSUME Calm, cmds' = cmds, e \notin Answered, e \notin Cuts,
             InCall' => lc'.media = "idle" \/ (InCall /\ lc'.media = lc.media)
      PROVE  Media1'
  <2>1. Calm'
    BY <1>0, <1>3, <1>8 DEF Calm
  <2>2. Learns'
    <3>1. CASE InCall' /\ lc'.media = "idle"
      BY <1>7, <2>1, <3>1 DEF Learns, Undialled, Calm
    <3>2. CASE InCall' /\ InCall /\ lc'.media = lc.media
      <4>1. Undialled => Undialled'
        BY <3>2 DEF Undialled
      <4> QED BY <1>0, <1>3, <1>6, <1>8, <3>2, <4>1 DEF Learns, Media1
    <3> QED BY <1>8, <3>1, <3>2 DEF Learns
  <2> QED BY <1>5, <2>1, <2>2
<1>9. ASSUME cmds' = cmds, e \notin Answered, e \notin Cuts,
             InCall /\ InCall' /\ lc'.media = lc.media /\ lc'.tok = lc.tok,
             lc.tok = 0 \/ lc'.sid = lc.sid
      PROVE  Media1'
  <2>1. Undialled => Undialled'
    BY <1>9 DEF Undialled
  <2>2. Learns'
    BY <1>0, <1>3, <1>6, <1>9, <2>1 DEF Learns, Media1
  <2>3. Open' \/ ~Lacks(evs', Signals) => Calm'
    BY <1>0, <1>3, <1>9 DEF Open, Calm, Media1
  <2>4. Lacks(cmds, Strays(lc'.sid)) /\ (Running => ses.sid = lc'.sid)
    <3>1. CASE lc.tok = 0
      BY <1>9, <3>1, StrayKinds DEF Media1
    <3>2. CASE lc'.sid = lc.sid
      BY <1>9, <3>2 DEF Media1
    <3> QED BY <1>9, <3>1, <3>2
  <2> QED BY <1>0, <1>3, <1>9, <2>2, <2>3, <2>4 DEF Media1, Stops
<1>10. ASSUME lc' = lc, cmds' = cmds, e \notin Answered, e \notin Cuts PROVE Media1'
  <2>1. InCall' <=> InCall
    BY <1>10 DEF InCall
  <2>2. CASE InCall
    BY <1>9, <1>10, <2>1, <2>2
  <2>3. CASE ~InCall
    BY <1>0, <1>3, <1>10, <2>1, <2>3 DEF Media1, Open, Calm, Stops, Learns
  <2> QED BY <2>2, <2>3
<1>11. CASE SignalRead(e)
  <2>1. e.k = "signal" /\ e \in Signals /\ e \notin Cuts /\ e \notin Answered
    BY <1>11, EvKinds, AnswerKinds DEF SignalRead, EvOf
  <2>2. Calm /\ Untok
    BY <1>2, <1>4, <2>1 DEF TailFacts, Asks
  <2>3. lc'.tok = 0
    BY <1>11, <2>2 DEF SignalRead, Untok
  <2>4. cmds' = cmds /\ lc'.media = IF InCall THEN lc.media ELSE "idle"
    BY <1>11, <2>3 DEF SignalRead, Dials
  <2> QED BY <1>8, <2>1, <2>2, <2>4
<1>12. CASE StatusRead(e)
  <2>1. e.k = "status" /\ e \notin Cuts /\ Keeps
    BY <1>12, EvKinds DEF StatusRead, EvOf
  <2>2. /\ \A T : T \in {Claims, Connects, DialCmds, Silence} =>
                 (Lacks(cmds', T) <=> Lacks(cmds, T))
        /\ \A s : Lacks(cmds', Strays(s)) <=> Lacks(cmds, Strays(s))
        /\ \A A, B : /\ B \in {DialCmds, Silence} /\ InOrder(cmds, A, B)
                     => InOrder(cmds', A, B)
        /\ After(cmds, Silence, DialCmds, Silent) => After(cmds', Silence, DialCmds, Silent)
    <3>1. CASE cmds' = cmds
      BY <3>1
    <3>2. CASE \E m \in CmdOf({"camera"}) : cmds' = Append(cmds, m)
      <4>1. PICK m \in CmdOf({"camera"}) : m \in Commands /\ cmds' = Append(cmds, m)
        BY <3>2, OfKind
      <4>2. AppendFacts(cmds, m, cmds') /\ m.k = "camera"
        BY <1>0, <4>1, Appended, CmdKinds
      <4>3. \A s : m \notin Strays(s)
        BY <4>1, <4>2, StrayKinds
      <4> QED BY <4>1, <4>2, <4>3, CmdKinds, Truths DEF AppendFacts
    <3> QED BY <1>12, <3>1, <3>2 DEF StatusRead
  <2>3. Learns'
    <3> SUFFICES ASSUME InCall', ~InDial', Lacks(cmds', DialCmds), Lacks(evs', Cuts)
                 PROVE  After(evs', Answered, Dialings, Undialled')
      BY DEF Learns
    <3>1. InCall /\ After(evs, Answered, Dialings, Undialled)
      BY <1>0, <1>3, <2>1, <2>2 DEF Media1, Learns, Keeps
    <3>2. /\ e \in Answered => Undialled'
          /\ Undialled /\ e \notin Dialings => Undialled'
      BY <1>12, <2>1, <3>1, EvKinds, AnswerKinds DEF StatusRead, Undialled
    <3>3. Undialled \in BOOLEAN /\ Undialled' \in BOOLEAN
      BY DEF Undialled
    <3> QED BY <1>2, <3>1, <3>2, <3>3 DEF TailFacts
  <2>4. Open' \/ ~Lacks(evs', Signals) => Calm'
    BY <1>0, <1>3, <2>2 DEF Open, Calm, Media1
  <2>5. Stops' /\ (~Lacks(evs', Cuts) => Silent')
    BY <1>0, <1>3, <2>1, <2>2 DEF Media1, Stops, Keeps
  <2> QED BY <1>0, <2>1, <2>2, <2>3, <2>4, <2>5 DEF Media1, Keeps
<1>13. CASE TokenRead(e)
  <2>1. e.k = "token" /\ e \in Replies /\ e \notin Cuts /\ e \notin Answered /\ e.sid # 0
    BY <1>13, EvKinds, AnswerKinds, EventFields DEF TokenRead, EvOf
  <2>2. Calm
    BY <1>4, <2>1
  <2>3. CASE lc' = lc /\ cmds' = cmds
    BY <1>10, <2>1, <2>3
  <2>4. CASE /\ InCall /\ InCall' /\ lc'.sid = e.sid /\ lc'.tok = e.sid /\ Dials(lc.media)
    <3>1. CASE cmds' = cmds /\ lc'.media = lc.media
      BY <1>8, <2>1, <2>2, <2>4, <3>1
    <3>2. CASE \E m \in Commands : m.k = "dial" /\ m.sid = lc'.sid /\ cmds' = Append(cmds, m)
      <4>1. PICK m \in Commands : m.k = "dial" /\ m.sid = lc'.sid /\ cmds' = Append(cmds, m)
        BY <3>2
      <4>2. AppendFacts(cmds, m, cmds') /\ m \in DialCmds /\ m \notin Silence
            /\ m \notin Strays(lc'.sid)
        BY <1>0, <4>1, Appended, CmdKinds, StrayKinds
      <4>3. ~Open' /\ Lacks(evs', Signals)
        BY <2>1, <2>4 DEF Asks, Untok
      <4>4. Lacks(cmds', Strays(lc'.sid)) /\ InOrder(cmds', DialCmds, Silence)
        BY <2>2, <4>2, StrayKinds, InOrderLacks DEF AppendFacts, Calm
      <4>5. ~Lacks(cmds', DialCmds) /\ Silent' /\ ~Running'
        BY <1>0, <2>2, <4>2 DEF AppendFacts, Calm, Silent
      <4> QED BY <2>1, <2>4, <4>3, <4>4, <4>5 DEF Media1, Stops, Learns
    <3> QED BY <2>4, <3>1, <3>2 DEF Dials
  <2> QED BY <1>13, <2>3, <2>4 DEF TokenRead
<1>14. CASE CollisionRead(e)
  <2>1. e \in Replies
    BY <1>14, EvKinds DEF CollisionRead, EvOf
  <2>2. PICK m \in CmdOf({"join"}) : m \in Commands /\ cmds' = Append(cmds, m)
    BY <1>14, OfKind DEF CollisionRead
  <2>3. AppendFacts(cmds, m, cmds') /\ m \notin DialCmds
    BY <1>0, <2>2, Appended, CmdKinds
  <2>4. Calm'
    BY <1>0, <1>3, <1>4, <2>1, <2>3 DEF Calm, AppendFacts
  <2>5. Learns'
    BY <1>7, <1>14, <2>4 DEF CollisionRead, Learns, Calm, Undialled
  <2> QED BY <1>5, <2>4, <2>5
<1>15. CASE StateRead(e)
  <2>1. e \notin Cuts /\ e \notin Answered /\ e.sid # 0
    BY <1>15, EvKinds, AnswerKinds, EventFields DEF StateRead, EvOf
  <2>2. CASE Started(e)
    <3>1. lc.tok = 0 /\ lc'.tok = 0
      BY <2>2 DEF Started, Asks
    <3>2. cmds' = cmds /\ lc'.media = lc.media
      BY <2>2, <3>1 DEF Started, Dials
    <3> QED BY <1>9, <2>1, <2>2, <3>1, <3>2 DEF Started
  <2>3. CASE Ended(e)
    <3>1. PICK m \in CmdOf({"stop"}) : m \in Commands /\ cmds' = Append(cmds, m)
      BY <2>3, OfKind DEF Ended
    <3>2. AppendFacts(cmds, m, cmds') /\ m \in Silence /\ m \notin DialCmds /\ m \notin Claims
      BY <1>0, <3>1, Appended, CmdKinds
    <3>3. After(cmds', Silence, DialCmds, Silent')
      BY <1>0, <3>2, Truths DEF AppendFacts
    <3>4. Open' \/ ~Lacks(evs', Signals) => Calm'
      BY <1>0, <1>3, <3>2 DEF Open, Calm, Media1, AppendFacts
    <3> QED BY <1>0, <1>3, <2>3, <3>3, <3>4 DEF Ended, Media1, Stops, Learns
  <2>4. CASE Heard(e)
    <3>1. lc.tok = 0 \/ lc'.sid = lc.sid
      BY <2>4 DEF Heard, Asks
    <3> QED BY <1>9, <2>1, <2>4, <3>1 DEF Heard
  <2>5. CASE lc' = lc /\ cmds' = cmds
    BY <1>10, <2>1, <2>5
  <2> QED BY <1>15, <2>2, <2>3, <2>4, <2>5 DEF StateRead
<1>16. CASE JoinRefused(e) \/ ClaimDropped(e)
  <2>1. e \in Replies /\ e \notin Cuts /\ e \notin Answered
    BY <1>16, EvKinds, AnswerKinds DEF JoinRefused, ClaimDropped, EvOf
  <2>2. cmds' = cmds /\ (lc' = lc \/ ~InCall')
    BY <1>16 DEF JoinRefused, ClaimDropped, InCall
  <2> QED BY <1>4, <1>8, <1>10, <2>1, <2>2
<1>17. CASE Cut(e)
  <2>1. e \in Cuts /\ cmds' = cmds /\ ~InCall'
    BY <1>17, EvKinds DEF Cut, EvOf
  <2>2. ~Lacks(evs, Cuts)
    BY <1>2, <2>1 DEF TailFacts
  <2>3. ~handle /\ Silent /\ InOrder(cmds, Connects, DialCmds)
    BY <2>2, InOrderLacks DEF Conn, Media1
  <2>4. Open' \/ ~Lacks(evs', Signals) => Calm'
    BY <1>0, <1>3, <2>1 DEF Open, Calm, Media1
  <2> QED BY <1>0, <2>1, <2>3, <2>4 DEF Media1, Stops, Learns
<1>18. CASE CameOnline(e) \/ Passed(e)
  BY <1>10, <1>18, EvKinds, AnswerKinds DEF CameOnline, Passed, EvOf
<1> QED BY <1>1, <1>11, <1>12, <1>13, <1>14, <1>15, <1>16, <1>17, <1>18 DEF Read

LEMMA MediaApply ==
    ASSUME Typed, Typed', Conn, Asks, Media1, Fair', Applied PROVE Media1'
<1>0. /\ cmds \in Seq(Commands) /\ evs \in Seq(Events) /\ cmds # <<>> /\ cmds' = Tail(cmds)
      /\ lc' = lc /\ (InCall' <=> InCall) /\ Undialled' = Undialled /\ down \in Seq(Lines)
  BY DEF Typed, Applied, InCall, Undialled
<1>1. PICK m \in Commands : m = Head(cmds) /\ Does(m)
  BY DEF Applied
<1>2. TailFacts(cmds, m, cmds')
  BY <1>0, <1>1, Shortened
<1>3. /\ \A T : Lacks(cmds, T) => Lacks(cmds', T)
      /\ \A T : m \notin T => (Lacks(cmds', T) <=> Lacks(cmds, T))
      /\ \A A, B : InOrder(cmds, A, B) => InOrder(cmds', A, B)
  BY <1>2 DEF TailFacts
\* What the step adds to the events.
<1>4. ASSUME NEW e \in Events, evs' = Append(evs, e) PROVE PassFacts(evs, e, evs')
  BY <1>0, <1>4, Appended DEF PassFacts, AppendFacts
<1>5. ASSUME NEW e \in Events, PassFacts(evs, e, evs'), e \notin Cuts, e \notin Dialings
      PROVE  /\ Lacks(evs', Dialings) <=> Lacks(evs, Dialings)
             /\ Lacks(evs', Cuts) <=> Lacks(evs, Cuts)
             /\ After(evs, Answered, Dialings, Undialled)
                   => After(evs', Answered, Dialings, Undialled)
             /\ e \notin Signals => (Lacks(evs', Signals) <=> Lacks(evs, Signals))
             /\ e \notin Replies => (Lacks(evs', Replies) <=> Lacks(evs, Replies))
  BY <1>5, ClearKinds, Truths DEF PassFacts
<1>6. ASSUME NEW n \in Lines, n \in EvOf({"state"}) PROVE n \notin Replies
  BY <1>6, EvKinds DEF EvOf, Replies
<1>7. Calm' /\ Learns' => Media1'
  BY CalmMedia, PTL
<1>8. CASE Asked(m)
  <2>1. m \in Claims /\ ses' = ses /\ Silent' = Silent /\ (InDial' <=> InDial)
    BY <1>8 DEF Asked, Claims, Silent, InDial, Running
  <2>2. Calm /\ m \notin DialCmds
    BY <1>2, <2>1, CmdKinds DEF TailFacts, Media1, Open
  <2>3. PICK e \in Events : /\ e.k \in {"signal", "claimfailed", "notconnected"}
                            /\ evs' = Append(evs, e)
    BY <1>8 DEF Asked, EvOf
  <2>4. PassFacts(evs, e, evs') /\ e \notin Cuts /\ e \notin Dialings
    BY <1>4, <2>3, EvKinds
  <2>5. Calm'
    BY <1>3, <1>5, <2>1, <2>2, <2>4 DEF Calm
  <2>6. Learns'
    BY <1>0, <1>3, <1>5, <2>1, <2>2, <2>4 DEF Learns, Media1
  <2> QED BY <1>7, <2>5, <2>6
<1>9. ASSUME Stopped(m) \/ Dialled(m)
      PROVE  \E e \in Events : /\ e.k = "status" /\ StopSays(e) /\ PassFacts(evs, e, evs')
                               /\ Stopped(m) => e.st = "idle"
                               /\ Dialled(m) => e.st = "connecting"
  <2>1. PICK e \in Events : /\ e.k = "status" /\ StopSays(e)
                            /\ Stopped(m) => e.st = "idle"
                            /\ Dialled(m) => e.st = "connecting"
    <3>1. ~(Stopped(m) /\ Dialled(m))
      BY DEF Stopped, Dialled, CmdOf
    <3> QED BY <1>9, <3>1 DEF Stopped, Dialled, Says
  <2> QED BY <1>0, <2>1, Said
<1>10. ASSUME Stopped(m) \/ Dialled(m) PROVE Lacks(down', Replies) <=> Lacks(down, Replies)
  <2>1. CASE Quiescent
    BY <2>1 DEF Quiescent
  <2>2. CASE TakenOut(m.chan)
    <3>1. PICK n \in Lines : n \in EvOf({"state"}) /\ down' = Append(down, n)
      BY <2>2 DEF TakenOut
    <3>2. AppendFacts(down, n, down')
      BY <1>0, <3>1, Appended
    <3> QED BY <1>6, <3>1, <3>2 DEF AppendFacts
  <2> QED BY <1>10, <2>1, <2>2 DEF Stopped, Dialled
<1>11. CASE Stopped(m)
  <2>1. PICK e \in Events : e.k = "status" /\ e.st = "idle" /\ PassFacts(evs, e, evs')
    BY <1>9, <1>11
  <2>2. /\ e \notin Cuts /\ e \notin Dialings /\ e \notin Signals /\ e \notin Replies
    BY <2>1, EvKinds
  <2>3. /\ m \in Silence /\ m \notin DialCmds /\ ~Running' /\ Silent' /\ handle' = handle
    BY <1>11, CmdKinds DEF Stopped, CmdOf, Silent
  <2>4. Open' \/ ~Lacks(evs', Signals) => Calm'
    BY <1>3, <1>5, <1>10, <1>11, <2>1, <2>2, <2>3 DEF Open, Calm, Media1
  <2>5. Stops'
    <3>1. ASSUME After(cmds, Silence, DialCmds, Silent)
          PROVE  After(cmds', Silence, DialCmds, Silent')
      BY <1>2, <2>3, <3>1, Truths DEF TailFacts, Silent
    <3> QED BY <1>0, <1>3, <2>3, <3>1 DEF Stops, Media1
  <2>6. Learns'
    <3>1. InCall => ~Running
      BY <1>2, <2>3 DEF TailFacts, Media1, Silent
    <3> QED BY <1>0, <1>3, <1>5, <2>1, <2>2, <2>3, <3>1 DEF Learns, Media1, InDial
  <2>7. InCall => /\ Lacks(cmds', Strays(lc.sid))
                  /\ ~Lacks(cmds', DialCmds) => lc.tok # 0
                  /\ InOrder(cmds', DialCmds, Silence)
    BY <1>2, <1>3, <2>3 DEF Media1, TailFacts
  <2> QED BY <1>0, <2>3, <2>4, <2>5, <2>6, <2>7 DEF Media1
<1>12. CASE Dialled(m)
  <2>1. PICK e \in Events : e.k = "status" /\ e.st = "connecting" /\ PassFacts(evs, e, evs')
    BY <1>9, <1>12
  <2>2. e \notin Cuts /\ e \notin Signals /\ e \notin Replies
    BY <2>1, EvKinds
  <2>3. /\ m \in DialCmds /\ m \notin Silence /\ handle' = handle
        /\ InDial' /\ ses'.sid = m.sid
    BY <1>12, CmdKinds DEF Dialled, CmdOf, InDial
  <2>4. handle
    BY <1>12 DEF Dialled, Fair
  <2>5. ~Lacks(cmds, DialCmds)
    BY <1>2, <2>3 DEF TailFacts
  <2>6. /\ Lacks(evs', Cuts) <=> Lacks(evs, Cuts)
        /\ Lacks(evs', Signals) <=> Lacks(evs, Signals)
        /\ Lacks(evs', Replies) <=> Lacks(evs, Replies)
    BY <2>1, <2>2, ClearKinds DEF PassFacts
  <2>7. ~Open' /\ Lacks(evs', Signals)
    <3>1. ~Open /\ Lacks(evs, Signals)
      BY <2>5 DEF Media1, Calm
    <3> QED BY <1>3, <1>10, <1>12, <2>6, <3>1 DEF Open
  <2>8. Lacks(evs', Cuts)
    BY <2>4, <2>6 DEF Conn
  <2>9. Stops'
    <3>1. ~InCall => After(cmds, Silence, DialCmds, Silent)
      BY <2>4 DEF Stops, Media1
    <3>2. ASSUME After(cmds, Silence, DialCmds, Silent)
          PROVE  After(cmds', Silence, DialCmds, Silent')
      <4>1. Silent' \in BOOLEAN
        BY DEF Silent
      <4> QED BY <1>2, <2>3, <3>2, <4>1, Truths DEF TailFacts
    <3> QED BY <1>0, <3>1, <3>2 DEF Stops
  <2>10. InCall => /\ Lacks(cmds', Strays(lc.sid)) /\ lc.tok # 0 /\ m.sid = lc.sid
                   /\ Lacks(cmds', Silence)
    BY <1>2, <2>3, <2>5, StrayKinds, CmdKinds DEF Media1, TailFacts
  <2> QED BY <1>0, <2>3, <2>7, <2>8, <2>9, <2>10 DEF Media1, Learns
<1>13. ASSUME m \notin DialCmds, m \notin Silence, Silent' = Silent, InDial' <=> InDial,
              Running' <=> Running, Running => ses'.sid = ses.sid,
              \/ m \notin Connects /\ handle' = handle
              \/ m \in Connects /\ handle',
              Lacks(down', Replies) <=> Lacks(down, Replies),
              \/ evs' = evs
              \/ \E e \in Events : /\ e \notin Cuts /\ e \notin Dialings /\ e \notin Signals
                                   /\ e \notin Replies /\ PassFacts(evs, e, evs')
       PROVE  Media1'
  <2>1. /\ Lacks(evs', Dialings) <=> Lacks(evs, Dialings)
        /\ Lacks(evs', Cuts) <=> Lacks(evs, Cuts)
        /\ Lacks(evs', Signals) <=> Lacks(evs, Signals)
        /\ Lacks(evs', Replies) <=> Lacks(evs, Replies)
        /\ After(evs, Answered, Dialings, Undialled)
              => After(evs', Answered, Dialings, Undialled)
    BY <1>5, <1>13
  <2>2. Open' \/ ~Lacks(evs', Signals) => Calm'
    BY <1>3, <1>13, <2>1 DEF Open, Calm, Media1
  <2>3. After(cmds, Silence, DialCmds, Silent) => After(cmds', Silence, DialCmds, Silent)
    BY <1>2, <1>13, Truths DEF TailFacts
  <2>4. Stops'
    <3>1. CASE m \notin Connects
      BY <1>0, <1>3, <1>13, <2>3, <3>1 DEF Stops, Media1
    <3>2. CASE m \in Connects
      <4>1. ASSUME InOrder(cmds, Connects, DialCmds), Silent
            PROVE  After(cmds', Silence, DialCmds, Silent)
        BY <1>2, <3>2, <4>1, AfterLacks, Truths DEF TailFacts
      <4> QED BY <1>0, <1>13, <2>3, <3>2, <4>1 DEF Stops, Media1
    <3> QED BY <3>1, <3>2
  <2>5. Learns'
    BY <1>0, <1>3, <1>13, <2>1 DEF Learns, Media1
  <2> QED BY <1>0, <1>3, <1>13, <2>1, <2>2, <2>4, <2>5 DEF Media1
<1>14. CASE Tuned(m)
  <2>1. /\ m \notin DialCmds /\ m \notin Silence /\ m \notin Connects
        /\ Silent' = Silent /\ (InDial' <=> InDial)
    BY <1>14, CmdKinds DEF Tuned, CmdOf, Silent, InDial
  <2> QED BY <1>13, <1>14, <2>1 DEF Tuned, Quiescent
<1>15. CASE Connected(m)
  <2>1. /\ m \notin DialCmds /\ m \notin Silence /\ m \in Connects
        /\ Silent' = Silent /\ (InDial' <=> InDial) /\ (Running' <=> Running)
    BY <1>15, CmdKinds DEF Connected, CmdOf, Silent, InDial, Running
  <2>2. PICK e \in Events : e.k = "online" /\ evs' = Append(evs, e)
    BY <1>15 DEF Connected, EvOf
  <2>3. e \notin Cuts /\ e \notin Dialings /\ e \notin Signals /\ e \notin Replies
    BY <2>2, EvKinds
  <2> QED BY <1>4, <1>13, <1>15, <2>1, <2>2, <2>3 DEF Connected, Quiescent
<1> QED BY <1>1, <1>8, <1>11, <1>12, <1>14, <1>15 DEF Does

LEMMA MediaLine == ASSUME Typed, Typed', Media1, LineRead PROVE Media1'
<1>0. /\ evs \in Seq(Events) /\ down \in Seq(Lines) /\ down # <<>> /\ down' = Tail(down)
      /\ lc' = lc /\ cmds' = cmds /\ (InCall' <=> InCall) /\ Undialled' = Undialled
  BY DEF Typed, LineRead, InCall, Undialled
<1>1. PICK m \in Lines : m = Head(down) /\ Forwarded(m)
  BY DEF LineRead
<1>2. TailFacts(down, m, down')
  BY <1>0, <1>1, Shortened
<1>3. CASE m.k # "gone" /\ m \in Events /\ evs' = Append(evs, m) /\ UNCHANGED netVars
  <2>1. m \notin Signals /\ m \notin Cuts /\ m \notin Dialings
    BY <1>3, LineKinds, EvKinds
  <2>2. AppendFacts(evs, m, evs') /\ handle' = handle /\ ses' = ses
    BY <1>0, <1>3, Appended DEF netVars
  <2>3. Silent' = Silent /\ (InDial' <=> InDial) /\ (Running' <=> Running)
    BY <2>2 DEF Silent, InDial, Running
  <2>4. /\ Lacks(evs', Dialings) <=> Lacks(evs, Dialings)
        /\ Lacks(evs', Cuts) <=> Lacks(evs, Cuts)
        /\ Lacks(evs', Signals) <=> Lacks(evs, Signals)
        /\ After(evs, Answered, Dialings, Undialled)
              => After(evs', Answered, Dialings, Undialled)
    BY <2>1, <2>2, Truths DEF AppendFacts
  <2>5. Open' => Open
    BY <1>0, <1>2, <2>2 DEF Open, AppendFacts, TailFacts
  <2>6. Learns'
    BY <1>0, <2>2, <2>3, <2>4 DEF Learns, Media1
  <2> QED BY <1>0, <2>2, <2>3, <2>4, <2>5, <2>6 DEF Media1, Calm, Stops
<1>4. CASE /\ m \in LineOf({"gone"}) /\ ~handle' /\ ~Running'
           /\ \E s \in EvOf({"disconnected"}) : StopSays(s)
  <2>1. PICK e \in Cuts : e \in Events /\ StopSays(e)
    BY <1>4, OfKind DEF Cuts
  <2>2. /\ PassFacts(evs, e, evs') /\ e \notin Signals /\ e \notin Replies
        /\ e \notin Dialings
    BY <1>0, <2>1, Said, EvKinds
  <2>3. /\ Lacks(evs', Replies) <=> Lacks(evs, Replies)
        /\ Lacks(evs', Signals) <=> Lacks(evs, Signals)
        /\ Lacks(evs', Dialings) <=> Lacks(evs, Dialings)
        /\ ~Lacks(evs', Cuts)
    BY <2>1, <2>2, ClearKinds DEF PassFacts
  <2>4. Silent' /\ ~Running'
    BY <1>4 DEF Silent
  <2>5. Open' \/ ~Lacks(evs', Signals) => Calm'
    BY <1>0, <1>2, <2>3, <2>4 DEF Open, Calm, Media1, TailFacts
  <2>6. Stops'
    <3>1. ASSUME After(cmds, Silence, DialCmds, Silent)
          PROVE  After(cmds, Silence, DialCmds, Silent')
      <4>1. Silent' \in BOOLEAN
        BY DEF Silent
      <4> QED BY <2>4, <3>1, <4>1, AfterMore, Truths
    <3> QED BY <1>0, <1>4, <2>4, <3>1 DEF Stops, Media1
  <2> QED BY <1>0, <2>3, <2>4, <2>5, <2>6 DEF Media1, Learns
<1> QED BY <1>1, <1>3, <1>4 DEF Forwarded

LEMMA MediaStep ==
    NeedToken /\ Types /\ Types' /\ Conn /\ AskInv /\ AskInv' /\ MediaInv /\ [Next]_vars
        => MediaInv'
<1> SUFFICES ASSUME NeedToken, Types, Types', Conn, AskInv, AskInv', MediaInv, [Next]_vars,
                    Fair'
             PROVE  Media1'
  BY DEF MediaInv
<1>1. Typed /\ Typed' /\ Effect
  BY TypesTyped, StepDoes, PTL
<1>2. Asks /\ Asks' /\ Media1 /\ down \in Seq(Lines) /\ evs \in Seq(Events)
  BY <1>1, FairBefore DEF Typed, AskInv, MediaInv
<1>3. CASE PeerDoes \/ Broken
  <2>1. UNCHANGED <<lc, cmds, evs, ses, handle>>
    BY <1>3 DEF PeerDoes, Broken, netVars
  <2>2. Lacks(down', Replies) <=> Lacks(down, Replies)
    <3>1. ASSUME NEW n \in Lines, n \notin Replies, down' = Append(down, n)
          PROVE  Lacks(down', Replies) <=> Lacks(down, Replies)
      <4>1. AppendFacts(down, n, down')
        BY <1>2, <3>1, Appended
      <4> QED BY <3>1, <4>1 DEF AppendFacts
    <3>2. \A n \in Lines : n \in EvOf({"state"}) \/ n \in LineOf({"gone"}) => n \notin Replies
      BY EvKinds, LineKinds DEF EvOf, LineOf
    <3> QED BY <1>3, <3>1, <3>2 DEF PeerDoes, Broken
  <2>3. /\ (InCall' <=> InCall) /\ Undialled' = Undialled /\ Silent' = Silent
        /\ (InDial' <=> InDial) /\ (Running' <=> Running)
    BY <2>1 DEF InCall, Undialled, Silent, InDial, Running
  <2> QED BY <1>2, <2>1, <2>2, <2>3 DEF Media1, Open, Calm, Stops, Learns
<1>4. CASE TaskDoes
  <2>1. UNCHANGED <<lc, cmds, down, handle>> /\ Running /\ ~Silent
        /\ (InCall' <=> InCall) /\ Undialled' = Undialled
        /\ (Running' => ses'.sid = ses.sid)
    BY <1>4 DEF TaskDoes, InCall, Undialled, Silent
  <2>2. ~Open /\ Lacks(evs, Signals) /\ Lacks(evs, Cuts)
    BY <1>2, <2>1 DEF Media1, Calm
  <2>3. PICK e \in Events :
           /\ e.k = "status" /\ e.st # "connecting" /\ evs' \in {evs, Append(evs, e)}
           /\ InDial => evs' = Append(evs, e) /\ e.st \in {"live", "failed"}
           /\ ~InDial'
    <3>1. CASE evs' = evs
      <4>1. "live" \in Media
        BY DEF Media
      <4>2. PICK e \in Events : e = [k |-> "status", st |-> "live", cam |-> TRUE, mic |-> TRUE]
        BY <4>1, EventNames
      <4>3. ~InDial /\ ~InDial'
        BY <1>4, <3>1 DEF TaskDoes, InDial, Says
      <4> QED BY <3>1, <4>2, <4>3
    <3>2. CASE evs' # evs
      BY <1>4, <3>2 DEF TaskDoes, InDial, Says
    <3> QED BY <3>1, <3>2
  <2>4. /\ e \notin Replies /\ e \notin Signals /\ e \notin Cuts /\ e \notin Dialings
        /\ InDial => e \in Answered
    BY <2>3, EvKinds, AnswerKinds
  <2>5. AppendFacts(evs, e, Append(evs, e))
    BY <1>2, Appended
  <2>6. /\ Lacks(evs', Replies) <=> Lacks(evs, Replies)
        /\ Lacks(evs', Signals) /\ Lacks(evs', Cuts)
        /\ InDial => After(evs', Answered, Dialings, Undialled)
        /\ After(evs, Answered, Dialings, Undialled)
              => After(evs', Answered, Dialings, Undialled)
    BY <2>2, <2>3, <2>4, <2>5, Truths DEF AppendFacts
  <2>7. ~Open'
    BY <2>1, <2>2, <2>6 DEF Open
  <2>8. Stops'
    <3>1. Silent' \in BOOLEAN
      BY DEF Silent
    <3> QED BY <1>2, <2>1, <3>1, AfterMore, Truths DEF Stops, Media1
  <2>9. Learns'
    BY <1>2, <2>1, <2>2, <2>6 DEF Learns, Media1
  <2> QED BY <1>2, <2>1, <2>6, <2>7, <2>8, <2>9 DEF Media1
<1>5. CASE UNCHANGED vars
  <2>1. UNCHANGED <<lc, cmds, evs, ses, handle, down>>
    BY <1>5 DEF vars, uiVars, netVars
  <2>2. /\ (InCall' <=> InCall) /\ Undialled' = Undialled /\ Silent' = Silent
        /\ (InDial' <=> InDial) /\ (Running' <=> Running)
    BY <2>1 DEF InCall, Undialled, Silent, InDial, Running
  <2> QED BY <1>2, <2>1, <2>2 DEF Media1, Open, Calm, Stops, Learns
<1> QED BY <1>1, <1>2, <1>3, <1>4, <1>5, MediaClick, MediaEvent, MediaApply, MediaLine
        DEF Effect

---------------------------------------------------------------------------
(* Live on the screen is live: the end of a session is told after whatever *)
(* it said before.                                                         *)

Lives   == Says({"live"})
Unlives == Says({"idle", "failed", "connecting"})
Unlive  == InCall => lc.media # "live"
InLive  == Running /\ ses.phase = "live"
LiveInv == ~InLive => After(evs, Unlives, Lives, Unlive)

LEMMA LiveKinds ==
    /\ \A m \in Events : /\ m \in Lives <=> m.k = "status" /\ m.st = "live"
                         /\ m \in Unlives <=> /\ m.k = "status"
                                              /\ m.st \in {"idle", "failed", "connecting"}
    /\ Unlive \in BOOLEAN
  BY EvKinds DEF Lives, Unlives, Unlive

LEMMA DialsUnlive == ASSUME NEW med, Dials(med), med # "live" PROVE Unlive'
  BY DEF Dials, Unlive

LEMMA LiveClick == ASSUME Typed, LiveInv, Clicked PROVE LiveInv'
<1>1. evs' = evs /\ (InLive' <=> InLive) /\ Unlive \in BOOLEAN /\ Unlive' \in BOOLEAN
  BY DEF Clicked, netVars, InLive, Running, Unlive
<1>2. Unlive => Unlive'
  <2>1. CASE Redialled
    <3>1. CASE Dials("idle")
      BY <3>1, DialsUnlive
    <3>2. CASE lc' = lc
      BY <3>2 DEF Unlive, InCall
    <3> QED BY <2>1, <3>1, <3>2 DEF Redialled
  <2>2. CASE ~Redialled
    BY <2>2 DEF Clicked, Claimed, HungUp, Toggled, Reconnecting, Keeps, Unlive, InCall
  <2> QED BY <2>1, <2>2
<1> QED BY <1>1, <1>2, AfterMore DEF LiveInv

LEMMA LiveEvent == ASSUME Typed, LiveInv, EventRead PROVE LiveInv'
<1>1. /\ evs \in Seq(Events) /\ evs # <<>> /\ evs' = Tail(evs) /\ (InLive' <=> InLive)
      /\ Unlive \in BOOLEAN /\ Unlive' \in BOOLEAN
  BY DEF Typed, EventRead, netVars, InLive, Running, Unlive
<1>2. PICK e \in Events : e = Head(evs) /\ Read(e)
  BY DEF EventRead
<1>3. TailFacts(evs, e, evs')
  BY <1>1, <1>2, Shortened
<1>4. (e \in Unlives => Unlive') /\ (Unlive /\ e \notin Lives => Unlive')
  <2>1. CASE StatusRead(e)
    BY <2>1, LiveKinds DEF StatusRead, EvOf, Keeps, Unlive
  <2>2. CASE ~StatusRead(e)
    <3>1. e \notin Unlives
      BY <1>2, <2>2, LiveKinds
         DEF Read, SignalRead, TokenRead, CollisionRead, JoinRefused, StateRead,
             ClaimDropped, Cut, CameOnline, Passed, EvOf
    <3>2. ASSUME Unlive PROVE Unlive'
      <4>1. CASE SignalRead(e)
        <5>1. (IF InCall THEN lc.media ELSE "idle") # "live"
          BY <3>2 DEF Unlive
        <5> QED BY <4>1, <5>1, DialsUnlive DEF SignalRead
      <4>2. CASE TokenRead(e)
        <5>1. CASE InCall /\ Dials(lc.media)
          BY <3>2, <5>1, DialsUnlive DEF Unlive
        <5>2. CASE lc' = lc
          BY <3>2, <5>2 DEF Unlive, InCall
        <5> QED BY <4>2, <5>1, <5>2 DEF TokenRead
      <4>3. CASE StateRead(e)
        <5>1. CASE Started(e)
          BY <3>2, <5>1, DialsUnlive DEF Started, Unlive
        <5>2. CASE Ended(e) \/ Heard(e)
          BY <3>2, <5>2 DEF Ended, Heard, Unlive
        <5>3. CASE lc' = lc
          BY <3>2, <5>3 DEF Unlive, InCall
        <5> QED BY <4>3, <5>1, <5>2, <5>3 DEF StateRead
      <4>4. CASE \/ CollisionRead(e) \/ JoinRefused(e) \/ ClaimDropped(e)
                 \/ Cut(e) \/ CameOnline(e) \/ Passed(e)
        BY <3>2, <4>4 DEF CollisionRead, JoinRefused, ClaimDropped, Cut, CameOnline, Passed,
                          Unlive, InCall
      <4> QED BY <1>2, <2>2, <4>1, <4>2, <4>3, <4>4 DEF Read
    <3> QED BY <3>1, <3>2
  <2> QED BY <2>1, <2>2
<1> QED BY <1>1, <1>3, <1>4 DEF LiveInv, TailFacts

\* A session that stopped has told its end.
LEMMA LiveStops ==
    ASSUME Typed, LiveInv, NEW e \in Events, e \notin Lives, StopSays(e)
    PROVE  After(evs', Unlives, Lives, Unlive)
<1>1. PICK q \in Seq(Events) :
         /\ evs' = Append(q, e)
         /\ \/ q = evs /\ ~InLive
            \/ \E p \in Seq(Events), m \in Says({"idle", "failed"}) : q = Append(p, m)
  BY DEF StopSays, InLive
<1>2. After(q, Unlives, Lives, Unlive)
  <2>1. CASE \E p \in Seq(Events), m \in Says({"idle", "failed"}) : q = Append(p, m)
    <3>1. PICK p \in Seq(Events), m \in Says({"idle", "failed"}) : q = Append(p, m)
      BY <2>1
    <3>2. m \in Events /\ m \in Unlives
      BY LiveKinds DEF Says
    <3> QED BY <3>1, <3>2, LiveKinds, AfterHit
  <2> QED BY <1>1, <2>1 DEF LiveInv
<1> QED BY <1>1, <1>2, LiveKinds, AfterKept

LEMMA LiveStep == Types /\ LiveInv /\ [Next]_vars => LiveInv'
<1> SUFFICES ASSUME Types, LiveInv, [Next]_vars PROVE LiveInv'
  OBVIOUS
<1>1. Typed /\ Effect
  BY TypesTyped, StepDoes
<1>2. evs \in Seq(Events)
  BY <1>1 DEF Typed
\* Outside the UI only the session and the events change.
<1>3. ASSUME lc' = lc PROVE Unlive' = Unlive
  BY <1>3 DEF Unlive, InCall
<1>4. ASSUME lc' = lc, InLive' <=> InLive,
             \/ evs' = evs
             \/ \E e \in Events : e \notin Lives /\ evs' = Append(evs, e)
      PROVE  LiveInv'
  <2>1. ASSUME NEW e \in Events, e \notin Lives, evs' = Append(evs, e),
               After(evs, Unlives, Lives, Unlive)
        PROVE  After(evs', Unlives, Lives, Unlive)
    BY <1>2, <2>1, AfterKept, LiveKinds
  <2> QED BY <1>3, <1>4, <2>1 DEF LiveInv
<1>5. ASSUME lc' = lc, NEW e \in Events, e \notin Lives, StopSays(e) PROVE LiveInv'
  BY <1>1, <1>3, <1>5, LiveStops DEF LiveInv
<1>6. CASE Applied
  <2>1. PICK m \in Commands : m = Head(cmds) /\ Does(m)
    BY <1>6 DEF Applied
  <2>2. lc' = lc
    BY <1>6 DEF Applied
  <2>3. CASE Asked(m)
    <3>1. PICK e \in Events : /\ e.k \in {"signal", "claimfailed", "notconnected"}
                              /\ evs' = Append(evs, e)
      BY <2>3 DEF Asked, EvOf
    <3>2. e \notin Lives /\ (InLive' <=> InLive)
      BY <2>3, <3>1, LiveKinds DEF Asked, InLive, Running
    <3> QED BY <1>4, <2>2, <3>1, <3>2
  <2>4. CASE Stopped(m) \/ Dialled(m)
    <3>1. PICK e \in Events : e.k = "status" /\ e.st \in {"idle", "connecting"} /\ StopSays(e)
      BY <2>4 DEF Stopped, Dialled, Says
    <3> QED BY <1>5, <2>2, <3>1, LiveKinds
  <2>5. CASE Tuned(m)
    <3>1. evs' = evs /\ (InLive' <=> InLive)
      BY <2>5 DEF Tuned, InLive
    <3> QED BY <1>4, <2>2, <3>1
  <2>6. CASE Connected(m)
    <3>1. PICK e \in Events : e.k = "online" /\ evs' = Append(evs, e)
      BY <2>6 DEF Connected, EvOf
    <3>2. e \notin Lives /\ (InLive' <=> InLive)
      BY <2>6, <3>1, LiveKinds DEF Connected, InLive, Running
    <3> QED BY <1>4, <2>2, <3>1, <3>2
  <2> QED BY <2>1, <2>3, <2>4, <2>5, <2>6 DEF Does
<1>7. CASE LineRead
  <2>1. PICK m \in Lines : m = Head(down) /\ Forwarded(m)
    BY <1>7 DEF LineRead
  <2>2. lc' = lc
    BY <1>7 DEF LineRead
  <2>3. CASE m.k # "gone" /\ m \in Events /\ evs' = Append(evs, m) /\ UNCHANGED netVars
    <3>1. m \notin Lives /\ (InLive' <=> InLive)
      BY <2>3, LineKinds, LiveKinds DEF netVars, InLive, Running
    <3> QED BY <1>4, <2>2, <2>3, <3>1
  <2>4. CASE \E s \in EvOf({"disconnected"}) : StopSays(s)
    <3>1. PICK e \in Events : e.k = "disconnected" /\ StopSays(e)
      BY <2>4 DEF EvOf
    <3> QED BY <1>5, <2>2, <3>1, LiveKinds
  <2> QED BY <2>1, <2>3, <2>4 DEF Forwarded
<1>8. CASE TaskDoes
  <2>1. lc' = lc
    BY <1>8 DEF TaskDoes
  <2>2. CASE InLive'
    BY <2>2 DEF LiveInv
  <2>3. CASE ~InLive'
    <3>1. PICK e \in Events : /\ e.k = "status" /\ e.st \in {"failed", "idle"}
                              /\ evs' = Append(evs, e)
      BY <1>8, <2>3 DEF TaskDoes, InLive, Says
    <3>2. After(evs', Unlives, Lives, Unlive)
      BY <1>2, <3>1, LiveKinds, AfterHit
    <3> QED BY <1>3, <2>1, <3>2 DEF LiveInv
  <2> QED BY <2>2, <2>3
<1>9. CASE PeerDoes \/ Broken \/ UNCHANGED vars
  <2>1. UNCHANGED <<lc, evs, ses>>
    BY <1>9 DEF PeerDoes, Broken, netVars, vars, uiVars
  <2>2. InLive' <=> InLive
    BY <2>1 DEF InLive, Running
  <2> QED BY <1>4, <2>1, <2>2
<1> QED BY <1>1, <1>6, <1>7, <1>8, <1>9, LiveClick, LiveEvent DEF Effect

---------------------------------------------------------------------------

MediaOrder == Conn /\ AskInv /\ MediaInv /\ LiveInv

\* Nothing is under way at the start.
LEMMA StartsCalm ==
    ASSUME Init
    PROVE  /\ ~InCall /\ shown /\ handle /\ link /\ ~Running
           /\ cmds = <<>> /\ evs = <<>> /\ down = <<>>
           /\ \A T : Lacks(cmds, T) /\ Lacks(evs, T) /\ Lacks(down, T)
           /\ \A T : Single(cmds, T) /\ Single(evs, T) /\ Single(down, T)
           /\ \A hits, ends : \A P \in BOOLEAN : P => After(cmds, hits, ends, P)
           /\ \A hits, ends : \A P \in BOOLEAN : P => After(evs, hits, ends, P)
           /\ InOrder(evs, Enders, Signals)
<1>1. /\ ~InCall /\ shown /\ handle /\ link /\ ~Running
      /\ cmds = <<>> /\ evs = <<>> /\ down = <<>>
  BY DEF Init, InCall, Running
<1>2. \A T : Lacks(cmds, T) /\ Lacks(evs, T) /\ Lacks(down, T)
  BY <1>1, LacksEmpty
<1> QED BY <1>1, <1>2, SingleLacks, AfterLacks, InOrderLacks

LEMMA ConnInit == Init => Conn
<1> SUFFICES ASSUME Init PROVE Conn
  OBVIOUS
<1>1. PICK s \in BOOLEAN : s = shown
  BY DEF Init
<1> QED BY <1>1, StartsCalm DEF Conn

LEMMA AskInit == Init => AskInv
  BY StartsCalm DEF AskInv, Asks, Open, Untok

LEMMA MediaInit == Init => MediaOrder
<1> SUFFICES ASSUME Init PROVE MediaOrder
  OBVIOUS
<1>1. MediaInv
  <2>1. Calm /\ Learns
    BY StartsCalm DEF Calm, Silent, Learns
  <2> QED BY <2>1, CalmMedia DEF MediaInv
<1>2. LiveInv
  <2>1. Unlive /\ Unlive \in BOOLEAN
    BY StartsCalm DEF Unlive
  <2> QED BY <2>1, StartsCalm DEF LiveInv
<1> QED BY <1>1, <1>2, ConnInit, AskInit DEF MediaOrder

LEMMA MediaOrdered == ASSUME NeedToken PROVE Spec => [](Types /\ MediaOrder)
<1>1. Types /\ MediaOrder /\ [Next]_vars => (Types /\ MediaOrder)'
  <2> SUFFICES ASSUME Types, MediaOrder, [Next]_vars PROVE Types' /\ MediaOrder'
    OBVIOUS
  <2>1. Types'
    BY TypesStep
  <2>2. Conn' /\ AskInv' /\ LiveInv'
    BY <2>1, ConnStep, AskStep, LiveStep DEF MediaOrder
  <2>3. MediaInv'
    BY <2>1, <2>2, MediaStep DEF MediaOrder
  <2> QED BY <2>1, <2>2, <2>3 DEF MediaOrder
<1> QED BY <1>1, TypesInit, MediaInit, PTL DEF Spec

\* No session, hence no open microphone, outlives the call on the screen,
\* whoever ended it, wherever the SFU wants a token.
THEOREM NoMediaHidden == ASSUME NeedToken PROVE Spec => []NoHiddenMedia
<1>1. MediaOrder => NoHiddenMedia
  <2> SUFFICES ASSUME MediaOrder, AtRest, Running, odd \subseteq {"early"}, ~InCall
               PROVE  FALSE
    BY DEF NoHiddenMedia
  <2>1. Stops /\ cmds = <<>> /\ ~Silent
    BY DEF MediaOrder, MediaInv, Fair, Media1, AtRest, Silent
  <2>2. After(cmds, Silence, DialCmds, Silent)
    BY <2>1 DEF Stops
  <2> QED BY <2>1, <2>2, LacksEmpty, AfterSome, Truths
<1> QED BY <1>1, MediaOrdered, PTL

\* Media that are shown as connecting or live are being dialled or are up, and
\* for the call that is shown, wherever the SFU wants a token.
THEOREM ShownMediaCorrect == ASSUME NeedToken PROVE Spec => []ShownMediaIsReal
<1>1. MediaOrder => ShownMediaIsReal
  <2> SUFFICES ASSUME MediaOrder, AtRest, InCall, odd \subseteq {"early"}
               PROVE  /\ lc.media = "connecting" => InDial /\ ses.sid = lc.sid
                      /\ lc.media = "live" => InLive /\ ses.sid = lc.sid
    BY DEF ShownMediaIsReal, InDial, InLive
  <2>1. /\ Learns /\ LiveInv /\ cmds = <<>> /\ evs = <<>>
        /\ Running => ses.sid = lc.sid
    BY DEF MediaOrder, MediaInv, Fair, Media1, AtRest
  <2>2. ASSUME lc.media = "connecting" PROVE InDial
    <3>1. After(evs, Answered, Dialings, Undialled) => Undialled
      BY <2>1, LacksEmpty, AfterSome, Truths
    <3> QED BY <2>1, <2>2, <3>1, LacksEmpty DEF Learns, Undialled
  <2>3. ASSUME lc.media = "live" PROVE InLive
    <3>1. After(evs, Unlives, Lives, Unlive) => Unlive
      BY <2>1, LacksEmpty, AfterSome, LiveKinds
    <3> QED BY <2>1, <2>3, <3>1 DEF LiveInv, Unlive
  <2> QED BY <2>1, <2>2, <2>3 DEF InDial, InLive
<1> QED BY <1>1, MediaOrdered, PTL

---------------------------------------------------------------------------
(* The user's places in the calls of the server                            *)

Turned   == EvOf({"collision", "joinfailed"})
Refusals == EvOf({"collision", "joinfailed", "claimfailed"})
Denials  == EvOf({"joinfailed"})
Toks     == EvOf({"token"})
Joins    == CmdOf({"join"})
Leavings  == CmdOf({"leave"})

\* Those of another room or another call.
ClaimsBut(c)   == {m \in Claims : m.chan # c}
JoinsBut(s)    == {m \in Joins : m.sid # s}
SignalsBut(c)  == {m \in Signals : m.chan # c}
SignalsNot(s)  == {m \in Signals : m.sid # s}
DenialsBut(s)  == {m \in Denials : m.sid # s}
TokensBut(s)   == {m \in Toks : m.sid # s}
LeavesOf(c, s) == {m \in Leavings : m.chan = c /\ m.sid = s}
EndsOf(c)      == {m \in Events : m.k = "state" /\ m.act = "ended" /\ m.chan = c}

\* A call of room c that ended is told before the token for the one there is.
Told(c) == After(evs, Toks, EndsOf(c), TRUE)

\* The user is in the call of room c: he claimed it and was let in, and he has
\* it on the screen or is about to leave it.
Home(c) ==
  /\ Lacks(cmds, Claims) /\ Lacks(down, Refusals) /\ Lacks(evs, Refusals)
  /\ (InCall /\ lc.chan = c) \/ ~Lacks(cmds, LeavesOf(c, live[c]))
  /\ Lacks(down, TokensBut(live[c])) /\ Lacks(evs, TokensBut(live[c]))
  /\ After(down, Toks, EndsOf(c), Told(c))
  /\ InCall /\ lc.chan = c /\ lc.tok # 0 => lc.sid = live[c]

\* What a call on the screen stands on: a claim on its way, its refusal, a place
\* at the server, or a connection that is lost.
Reason == \/ ~Lacks(cmds, Claims) \/ ~Lacks(down, Turned) \/ ~Lacks(evs, Turned)
          \/ "me" \in inside[lc.chan] \/ ~Lacks(down, Gone) \/ ~Lacks(evs, Cuts)

Joining == ~Lacks(cmds, Joins) =>
              lc.sid # 0 /\ ~lc.await /\ Lacks(cmds, JoinsBut(lc.sid))
Denied  == ~Lacks(down, Denials) \/ ~Lacks(evs, Denials) =>
              /\ lc.sid # 0 /\ ~lc.await /\ Lacks(evs, SignalsNot(lc.sid))
              /\ Lacks(down, DenialsBut(lc.sid)) /\ Lacks(evs, DenialsBut(lc.sid))

Slot ==
  /\ ~Lacks(evs, Signals) => InCall
  /\ ~InCall /\ ~Lacks(cmds, Claims) => ~handle /\ InOrder(cmds, Connects, Claims)
  /\ InCall => /\ shown /\ Lacks(cmds, Leavings)
               /\ Lacks(evs, SignalsBut(lc.chan)) /\ Lacks(cmds, ClaimsBut(lc.chan))
               /\ Joining /\ Denied /\ Reason

Linked   == \A c \in Rooms : "me" \in inside[c] => link
Homes    == \A c \in Rooms : "me" \in inside[c] => Home(c)
PlaceInv == Linked /\ (odd = {} => Slot /\ Homes)

LEMMA PlaceCmds ==
    \A m \in Commands :
       /\ m \in Joins <=> m.k = "join"
       /\ m \in Leavings <=> m.k = "leave"
       /\ \A c : m \in ClaimsBut(c) <=> m.k \in {"start", "join"} /\ m.chan # c
       /\ \A s : m \in JoinsBut(s) <=> m.k = "join" /\ m.sid # s
       /\ \A c, s : m \in LeavesOf(c, s) <=> m.k = "leave" /\ m.chan = c /\ m.sid = s
       /\ m.k = "join" => m.sid # 0
<1>1. \A m \in Commands : m.k = "join" => m.sid # 0
  BY DEF Commands
<1> QED BY <1>1, CmdKinds DEF Joins, Leavings, ClaimsBut, JoinsBut, LeavesOf

LEMMA PlaceEvents ==
    \A m \in Events :
       /\ m \in Turned <=> m.k \in {"collision", "joinfailed"}
       /\ m \in Refusals <=> m.k \in {"collision", "joinfailed", "claimfailed"}
       /\ m \in Denials <=> m.k = "joinfailed"
       /\ m \in Toks <=> m.k = "token"
       /\ \A c : m \in SignalsBut(c) <=> m.k = "signal" /\ m.chan # c
       /\ \A s : m \in SignalsNot(s) <=> m.k = "signal" /\ m.sid # s
       /\ \A s : m \in DenialsBut(s) <=> m.k = "joinfailed" /\ m.sid # s
       /\ \A s : m \in TokensBut(s) <=> m.k = "token" /\ m.sid # s
       /\ \A c : m \in EndsOf(c) <=> m.k = "state" /\ m.act = "ended" /\ m.chan = c
  BY EvKinds DEF Turned, Refusals, Denials, Toks, SignalsBut, SignalsNot, DenialsBut, TokensBut,
                 EndsOf

LEMMA PlaceLacks ==
    \A q : /\ Lacks(q, Claims) => Lacks(q, Joins) /\ \A c : Lacks(q, ClaimsBut(c))
           /\ Lacks(q, Joins) => \A s : Lacks(q, JoinsBut(s))
           /\ Lacks(q, Leavings) => \A c, s : Lacks(q, LeavesOf(c, s))
           /\ Lacks(q, Signals) => \A x : Lacks(q, SignalsBut(x)) /\ Lacks(q, SignalsNot(x))
           /\ Lacks(q, Replies) => Lacks(q, Refusals) /\ Lacks(q, Toks)
           /\ Lacks(q, Refusals) => Lacks(q, Turned) /\ Lacks(q, Denials)
           /\ Lacks(q, Turned) => Lacks(q, Denials)
           /\ Lacks(q, Denials) => \A s : Lacks(q, DenialsBut(s))
           /\ Lacks(q, Toks) => \A s : Lacks(q, TokensBut(s))
<1>1. /\ Joins \subseteq Claims /\ \A c : ClaimsBut(c) \subseteq Claims
      /\ \A s : JoinsBut(s) \subseteq Joins
      /\ \A c, s : LeavesOf(c, s) \subseteq Leavings
      /\ \A x : SignalsBut(x) \subseteq Signals /\ SignalsNot(x) \subseteq Signals
      /\ Refusals \subseteq Replies /\ Toks \subseteq Replies
      /\ Turned \subseteq Refusals /\ Denials \subseteq Turned /\ Denials \subseteq Refusals
      /\ \A s : DenialsBut(s) \subseteq Denials /\ TokensBut(s) \subseteq Toks
  BY DEF Joins, Claims, CmdOf, ClaimsBut, JoinsBut, LeavesOf, SignalsBut, SignalsNot, Refusals,
         Replies, Toks, Turned, Denials, EvOf, DenialsBut, TokensBut
<1> QED BY <1>1, LacksMore

\* The commands but for claims and leaves are none of the server's business.
CmdsAside ==
    /\ Lacks(cmds', Claims) <=> Lacks(cmds, Claims)
    /\ Lacks(cmds', Joins) <=> Lacks(cmds, Joins)
    /\ Lacks(cmds', Leavings) <=> Lacks(cmds, Leavings)
    /\ \A c : Lacks(cmds', ClaimsBut(c)) <=> Lacks(cmds, ClaimsBut(c))
    /\ \A s : Lacks(cmds', JoinsBut(s)) <=> Lacks(cmds, JoinsBut(s))
    /\ \A c, s : Lacks(cmds', LeavesOf(c, s)) <=> Lacks(cmds, LeavesOf(c, s))
    /\ InOrder(cmds, Connects, Claims) => InOrder(cmds', Connects, Claims)

Aside == {m \in Commands : m.k \notin {"start", "join", "leave"}}

LEMMA SentAside ==
    ASSUME cmds \in Seq(Commands), cmds' = cmds \/ \E m \in Aside : cmds' = Append(cmds, m)
    PROVE  CmdsAside
<1>1. CASE cmds' = cmds
  BY <1>1 DEF CmdsAside
<1>2. ASSUME NEW m \in Aside, cmds' = Append(cmds, m) PROVE CmdsAside
  <2>1. m \in Commands /\ m.k \notin {"start", "join", "leave"}
    BY DEF Aside
  <2>2. AppendFacts(cmds, m, cmds')
    BY <1>2, <2>1, Appended
  <2>3. /\ m \notin Claims /\ m \notin Joins /\ m \notin Leavings
        /\ \A c : m \notin ClaimsBut(c)
        /\ \A s : m \notin JoinsBut(s)
        /\ \A c, s : m \notin LeavesOf(c, s)
    BY <2>1, CmdKinds, PlaceCmds
  <2> QED BY <2>2, <2>3 DEF AppendFacts, CmdsAside
<1> QED BY <1>1, <1>2

LEMMA DialAside ==
    ASSUME NEW med, Dials(med)
    PROVE  cmds' = cmds \/ \E m \in Aside : cmds' = Append(cmds, m)
  BY DEF Dials, Aside

LEMMA ToldMore ==
    ASSUME \A c : Told(c) => Told(c)', down' = down
    PROVE  \A c : After(down, Toks, EndsOf(c), Told(c)) => After(down', Toks, EndsOf(c), Told(c)')
<1>1. \A c : Told(c) \in BOOLEAN /\ Told(c)' \in BOOLEAN
  BY DEF Told, After
<1> QED BY <1>1, AfterMore

LEMMA PlaceClick ==
    ASSUME Typed, Asks, Slot, Homes, odd' = {}, Clicked PROVE Slot' /\ Homes'
<1>0. /\ cmds \in Seq(Commands) /\ lc \in Call \cup {NoCall}
      /\ UNCHANGED <<evs, down, handle, link, inside, live>>
  BY DEF Typed, Clicked, netVars, serverVars
<1>1. ASSUME NEW c \in Rooms, Claimed(c) PROVE Slot' /\ Homes'
  <2>1. cmds = <<>> /\ evs = <<>> /\ down = <<>> /\ ~InCall
    <3>1. Fair'
      BY DEF Fair
    <3> QED BY <1>1, <3>1, ClaimedQuietly DEF Claimed
  <2>2. \A T : Lacks(cmds, T) /\ Lacks(evs, T) /\ Lacks(down, T)
    BY <2>1, LacksEmpty
  <2>3. \A d \in Rooms : "me" \notin inside[d]
    BY <2>1, <2>2 DEF Homes, Home
  <2>4. Homes'
    BY <1>0, <2>3 DEF Homes
  <2>5. PICK m \in Claims : /\ m \in Commands /\ cmds' = Append(cmds, m) /\ m.chan = c
                            /\ m.k = "join" => lc'.sid = m.sid /\ ~lc'.await
    <3>1. PICK m \in Claims : /\ cmds' = Append(cmds, m) /\ m.chan = c
                              /\ m.k = "join" => lc'.sid = m.sid /\ ~lc'.await
      BY <1>1 DEF Claimed, Claims
    <3> QED BY <3>1, OfKind DEF Claims
  <2>6. AppendFacts(cmds, m, cmds')
    BY <1>0, <2>5, Appended
  <2>7. /\ InCall' /\ shown' /\ lc'.chan = c
    BY <1>1 DEF Claimed
  <2>8. /\ Lacks(cmds', Leavings) /\ Lacks(cmds', ClaimsBut(c)) /\ ~Lacks(cmds', Claims)
        /\ ~Lacks(cmds', Joins) => /\ m.k = "join"
        /\ m.k = "join" => Lacks(cmds', JoinsBut(m.sid)) /\ m.sid # 0
    BY <2>2, <2>5, <2>6, CmdKinds, PlaceCmds DEF AppendFacts
  <2>9. Joining' /\ Denied' /\ Reason'
    BY <1>0, <2>2, <2>5, <2>8 DEF Joining, Denied, Reason
  <2> QED BY <1>0, <2>2, <2>4, <2>7, <2>8, <2>9 DEF Slot
<1>2. CASE HungUp
  <2>1. lc.tok # 0 /\ InCall /\ ~InCall'
    BY <1>2 DEF HungUp, Early
  <2>2. ~Open /\ Lacks(evs, Signals)
    BY <2>1 DEF Asks, Untok
  <2>3. PICK m \in CmdOf({"leave"}), n \in CmdOf({"stop"}) :
           /\ m.chan = lc.chan /\ m.sid = lc.sid /\ cmds' = Append(Append(cmds, m), n)
    BY <1>2 DEF HungUp
  <2>4. m \in Commands /\ n \in Commands /\ m.k = "leave" /\ n.k = "stop"
    BY <2>3 DEF CmdOf
  <2>5. PICK q : q = Append(cmds, m)
    OBVIOUS
  <2>6. AppendFacts(cmds, m, q) /\ q \in Seq(Commands) /\ AppendFacts(q, n, cmds')
    BY <1>0, <2>3, <2>4, <2>5, Appended, AppendProperties
  <2>7. /\ Lacks(cmds', Claims) <=> Lacks(cmds, Claims)
        /\ \A c, s : ~Lacks(cmds, LeavesOf(c, s)) => ~Lacks(cmds', LeavesOf(c, s))
        /\ ~Lacks(cmds', LeavesOf(lc.chan, lc.sid))
    BY <2>3, <2>4, <2>6, CmdKinds, PlaceCmds DEF AppendFacts
  <2>8. ASSUME NEW c \in Rooms, "me" \in inside[c] PROVE Home(c)'
    <3>1. Home(c)
      BY <2>8 DEF Homes
    <3>2. ~Lacks(cmds', LeavesOf(c, live[c]))
      BY <2>1, <2>7, <3>1 DEF Home
    <3>3. Told(c)' = Told(c)
      BY <1>0 DEF Told
    <3> QED BY <1>0, <2>1, <2>7, <3>1, <3>2, <3>3 DEF Home
  <2>9. Homes'
    BY <1>0, <2>8 DEF Homes
  <2> QED BY <1>0, <2>1, <2>2, <2>7, <2>9 DEF Slot, Open
<1>3. CASE Toggled \/ Redialled \/ Reconnecting
  <2>1. Keeps /\ shown' = shown
    BY <1>3 DEF Toggled, Redialled, Reconnecting, Keeps, InCall
  <2>2. CmdsAside
    <3>1. CASE Toggled \/ Reconnecting
      <4>1. PICK m \in CmdOf({"mute", "camera", "connect"}) : cmds' = Append(cmds, m)
        BY <1>3, <3>1 DEF Toggled, Reconnecting, CmdOf
      <4>2. m \in Aside
        BY DEF CmdOf, Aside
      <4> QED BY <1>0, <4>1, <4>2, SentAside
    <3>2. CASE Redialled
      BY <1>0, <3>2, DialAside, SentAside DEF Redialled
    <3> QED BY <1>3, <3>1, <3>2
  <2>3. Slot'
    <3>1. InCall => (Reason' <=> Reason) /\ (Joining' <=> Joining) /\ (Denied' <=> Denied)
      BY <1>0, <2>1, <2>2 DEF Keeps, Reason, Joining, Denied, CmdsAside
    <3> QED BY <1>0, <2>1, <2>2, <3>1 DEF Keeps, CmdsAside, Slot
  <2>4. ASSUME NEW c \in Rooms, "me" \in inside[c] PROVE Home(c)'
    <3>1. Home(c) /\ Told(c)' = Told(c)
      BY <1>0, <2>4 DEF Homes, Told
    <3> QED BY <1>0, <2>1, <2>2, <3>1 DEF Home, Keeps, CmdsAside
  <2> QED BY <1>0, <2>3, <2>4 DEF Homes
<1> QED BY <1>1, <1>2, <1>3 DEF Clicked

LEMMA PlaceEvent ==
    ASSUME Typed, Conn, Asks, Linked, Slot, Homes, odd' = {}, EventRead PROVE Slot' /\ Homes'
<1>0. /\ cmds \in Seq(Commands) /\ evs \in Seq(Events) /\ evs # <<>> /\ evs' = Tail(evs)
      /\ lc \in Call \cup {NoCall}
      /\ UNCHANGED <<down, handle, link, inside, live>>
  BY DEF Typed, EventRead, netVars, serverVars
<1>1. PICK e \in Events : e = Head(evs) /\ Read(e)
  BY DEF EventRead
<1>2. TailFacts(evs, e, evs')
  BY <1>0, <1>1, Shortened
<1>3. /\ \A T : Lacks(evs, T) => Lacks(evs', T)
      /\ \A T : e \notin T => (Lacks(evs', T) <=> Lacks(evs, T))
      /\ \A T : e \in T => ~Lacks(evs, T)
  BY <1>2 DEF TailFacts
<1>4. \A c : Told(c) => Told(c)'
  <2>1. PICK t \in BOOLEAN : t = TRUE
    OBVIOUS
  <2>2. \A c : After(evs, Toks, EndsOf(c), t) => After(evs', Toks, EndsOf(c), t)
    BY <1>2, <2>1 DEF TailFacts
  <2> QED BY <2>1, <2>2 DEF Told
<1>5. \A c : After(down, Toks, EndsOf(c), Told(c)) => After(down', Toks, EndsOf(c), Told(c)')
  BY <1>0, <1>4, ToldMore
\* An answer is the last there is.
<1>6. e \in Replies \/ e \in Cuts => Lacks(evs', Signals)
  BY <1>2, EnderKinds DEF TailFacts, Asks
<1>7. e \in Replies => Lacks(cmds, Claims) /\ Lacks(down, Replies) /\ Lacks(evs', Replies)
  BY <1>2, <1>3 DEF TailFacts, Asks
<1>8. e \in Refusals => \A c \in Rooms : "me" \notin inside[c]
  BY <1>3 DEF Homes, Home
\* The call goes on in its room.
<1>9. ASSUME CmdsAside, InCall, InCall', lc'.chan = lc.chan, e \notin Turned, e \notin Cuts,
             shown => shown', Joining', Denied',
             \A c \in Rooms : "me" \in inside[c] /\ lc.chan = c /\ lc'.tok # 0
                                 => lc'.sid = live[c]
      PROVE  Slot' /\ Homes'
  <2>1. Reason'
    BY <1>0, <1>3, <1>9 DEF Slot, Reason, CmdsAside
  <2>2. Slot'
    BY <1>0, <1>3, <1>9, <2>1 DEF Slot, CmdsAside
  <2>3. ASSUME NEW c \in Rooms, "me" \in inside[c] PROVE Home(c)'
    <3>1. Home(c)
      BY <2>3 DEF Homes
    <3> QED BY <1>0, <1>3, <1>5, <1>9, <2>3, <3>1 DEF Home, CmdsAside
  <2> QED BY <1>0, <2>2, <2>3 DEF Homes
\* It stays as it is, be there one or none.
<1>10. ASSUME CmdsAside, lc' = lc, e \notin Turned, e \notin Cuts, shown => shown'
       PROVE  Slot' /\ Homes'
  <2>1. CASE InCall
    <3>1. InCall' /\ lc'.chan = lc.chan
      BY <1>10, <2>1 DEF InCall
    <3>2. Joining' /\ Denied'
      BY <1>0, <1>3, <1>10, <2>1 DEF Slot, Joining, Denied, CmdsAside
    <3>3. \A c \in Rooms : "me" \in inside[c] /\ lc.chan = c /\ lc'.tok # 0
                              => lc'.sid = live[c]
      BY <1>10, <2>1 DEF Homes, Home
    <3> QED BY <1>9, <1>10, <2>1, <3>1, <3>2, <3>3
  <2>2. CASE ~InCall
    <3>1. ~InCall'
      BY <1>10, <2>2 DEF InCall
    <3>2. Slot'
      BY <1>0, <1>3, <1>10, <2>2, <3>1 DEF Slot, CmdsAside
    <3>3. ASSUME NEW c \in Rooms, "me" \in inside[c] PROVE Home(c)'
      <4>1. Home(c)
        BY <3>3 DEF Homes
      <4> QED BY <1>0, <1>3, <1>5, <1>10, <2>2, <3>1, <4>1 DEF Home, CmdsAside
    <3> QED BY <1>0, <3>2, <3>3 DEF Homes
  <2> QED BY <2>1, <2>2
\* It goes, and with it whatever it claimed.
<1>11. ASSUME CmdsAside, ~InCall', Lacks(evs', Signals),
              Lacks(cmds, Claims) \/ (~handle /\ Lacks(cmds, Connects)),
              \A c \in Rooms : "me" \in inside[c] => ~(InCall /\ lc.chan = c)
       PROVE  Slot' /\ Homes'
  <2>1. InOrder(cmds, Connects, Claims) \/ Lacks(cmds, Claims)
    BY <1>11, InOrderLacks
  <2>2. Slot'
    BY <1>0, <1>11, <2>1 DEF Slot, CmdsAside
  <2>3. ASSUME NEW c \in Rooms, "me" \in inside[c] PROVE Home(c)'
    <3>1. Home(c) /\ ~(InCall /\ lc.chan = c)
      BY <1>11, <2>3 DEF Homes
    <3> QED BY <1>0, <1>3, <1>5, <1>11, <3>1 DEF Home, CmdsAside
  <2> QED BY <1>0, <2>2, <2>3 DEF Homes
<1>12. cmds' = cmds => CmdsAside
  BY <1>0, SentAside
<1>13. CASE SignalRead(e)
  <2>1. e.k = "signal" /\ e \in Signals /\ e \notin Turned /\ e \notin Cuts
    BY <1>13, EvKinds, PlaceEvents DEF SignalRead, EvOf
  <2>2. InCall /\ Untok /\ Lacks(cmds, Claims)
    BY <1>3, <2>1 DEF Slot, Asks
  <2>3. e.chan = lc.chan
    BY <1>3, <2>1, <2>2, PlaceEvents DEF Slot
  <2>4. CmdsAside
    BY <1>0, <1>13, DialAside, SentAside DEF SignalRead
  <2>5. /\ InCall' /\ lc'.chan = lc.chan /\ lc'.tok = 0 /\ shown' = shown
        /\ lc'.sid = (IF e.sid # 0 THEN e.sid ELSE lc.sid) /\ lc'.await = (e.sid = 0)
    BY <1>13, <2>2, <2>3 DEF SignalRead, Untok
  <2>6. Joining'
    BY <2>2, <2>4, PlaceLacks DEF Joining, CmdsAside
  <2>7. Denied'
    <3> SUFFICES ASSUME ~Lacks(down, Denials) \/ ~Lacks(evs', Denials) PROVE Denied'
      BY <1>0 DEF Denied
    <3>1. /\ lc.sid # 0 /\ Lacks(evs, SignalsNot(lc.sid))
          /\ Lacks(down, DenialsBut(lc.sid)) /\ Lacks(evs, DenialsBut(lc.sid))
      BY <1>3, <2>2 DEF Slot, Denied
    <3>2. e.sid = lc.sid
      BY <1>3, <2>1, <3>1, PlaceEvents
    <3> QED BY <1>0, <1>3, <2>5, <3>1, <3>2 DEF Denied
  <2> QED BY <1>9, <2>1, <2>2, <2>4, <2>5, <2>6, <2>7
<1>14. CASE StatusRead(e)
  <2>1. e.k = "status" /\ e \notin Turned /\ e \notin Cuts /\ Keeps /\ shown' = shown
    BY <1>14, EvKinds, PlaceEvents DEF StatusRead, EvOf
  <2>2. CmdsAside
    <3>1. CmdOf({"camera"}) \subseteq Aside
      BY DEF CmdOf, Aside
    <3> QED BY <1>0, <1>14, <3>1, SentAside DEF StatusRead
  <2>3. CASE InCall
    <3>1. Joining' /\ Denied'
      BY <1>0, <1>3, <2>1, <2>2, <2>3 DEF Slot, Joining, Denied, CmdsAside, Keeps
    <3>2. \A c \in Rooms : "me" \in inside[c] /\ lc.chan = c /\ lc'.tok # 0
                              => lc'.sid = live[c]
      BY <2>1, <2>3 DEF Homes, Home, Keeps
    <3> QED BY <1>9, <2>1, <2>2, <2>3, <3>1, <3>2 DEF Keeps
  <2>4. CASE ~InCall
    <3>1. lc' = lc
      BY <2>1, <2>4 DEF Keeps, InCall
    <3> QED BY <1>10, <2>1, <2>2, <3>1
  <2> QED BY <2>3, <2>4
<1>15. CASE TokenRead(e)
  <2>1. e.k = "token" /\ e \in Replies /\ e \notin Turned /\ e \notin Cuts /\ shown' = shown
    BY <1>15, EvKinds, PlaceEvents DEF TokenRead, EvOf
  <2>2. CASE lc' = lc /\ cmds' = cmds
    BY <1>10, <1>12, <2>1, <2>2
  <2>3. CASE /\ InCall /\ InCall' /\ lc'.chan = lc.chan /\ lc'.sid = e.sid
             /\ lc'.tok = e.sid /\ Dials(lc.media)
    <3>1. CmdsAside
      BY <1>0, <2>3, DialAside, SentAside
    <3>2. Joining' /\ Denied'
      BY <1>0, <1>7, <2>1, <3>1, PlaceLacks DEF Joining, Denied, CmdsAside
    <3>3. \A c \in Rooms : "me" \in inside[c] => e.sid = live[c]
      BY <1>3, <2>1, PlaceEvents DEF Homes, Home
    <3> QED BY <1>9, <2>1, <2>3, <3>1, <3>2, <3>3
  <2> QED BY <1>15, <2>2, <2>3 DEF TokenRead
<1>16. CASE CollisionRead(e)
  <2>1. e.k = "collision" /\ e \in Replies /\ e \in Refusals
    BY <1>16, EvKinds, PlaceEvents DEF CollisionRead, EvOf
  <2>2. /\ InCall /\ InCall' /\ lc'.chan = lc.chan /\ lc'.sid = e.sid /\ ~lc'.await
        /\ shown' = shown
    BY <1>16 DEF CollisionRead
  <2>3. PICK m \in Commands : /\ m.k = "join" /\ m.chan = lc'.chan /\ m.sid = e.sid
                              /\ cmds' = Append(cmds, m)
    BY <1>16 DEF CollisionRead, CmdOf
  <2>4. AppendFacts(cmds, m, cmds')
    BY <1>0, <2>3, Appended
  <2>5. Lacks(cmds, Claims)
    BY <1>7, <2>1
  <2>6. /\ ~Lacks(cmds', Claims) /\ Lacks(cmds', ClaimsBut(lc'.chan))
        /\ Lacks(cmds', JoinsBut(lc'.sid)) /\ lc'.sid # 0
        /\ Lacks(cmds, Leavings) => Lacks(cmds', Leavings)
    BY <2>2, <2>3, <2>4, <2>5, CmdKinds, PlaceCmds, PlaceLacks DEF AppendFacts
  <2>7. Joining' /\ Denied' /\ Reason'
    BY <1>0, <1>7, <2>1, <2>2, <2>6, PlaceLacks DEF Joining, Denied, Reason
  <2>8. Slot'
    BY <1>0, <1>6, <2>1, <2>2, <2>6, <2>7, PlaceLacks DEF Slot
  <2> QED BY <1>0, <1>8, <2>1, <2>8 DEF Homes
<1>17. CASE JoinRefused(e)
  <2>1. e.k = "joinfailed" /\ e \in Replies /\ e \in Refusals /\ e \in Denials /\ cmds' = cmds
    BY <1>17, EvKinds, PlaceEvents DEF JoinRefused, EvOf
  <2>2. ~InCall'
    <3>1. InCall => e.sid = lc.sid
      BY <1>3, <2>1, PlaceEvents DEF Slot, Denied
    <3> QED BY <1>17, <3>1 DEF JoinRefused, InCall
  <2> QED BY <1>6, <1>7, <1>8, <1>11, <1>12, <2>1, <2>2
<1>18. CASE StateRead(e)
  <2>1. e.k = "state" /\ e \notin Turned /\ e \notin Cuts /\ shown' = shown /\ e.sid # 0
    BY <1>18, EvKinds, PlaceEvents, EventFields DEF StateRead, EvOf
  <2>2. CASE Started(e)
    <3>1. /\ InCall /\ InCall' /\ lc'.chan = lc.chan /\ lc.await /\ lc'.tok = lc.tok
      BY <2>2 DEF Started
    <3>2. CmdsAside
      BY <1>0, <2>2, DialAside, SentAside DEF Started
    <3>3. lc'.tok = 0
      BY <3>1 DEF Asks
    <3>4. Joining' /\ Denied'
      BY <1>0, <1>3, <3>1, <3>2 DEF Slot, Joining, Denied, CmdsAside
    <3> QED BY <1>9, <2>1, <3>1, <3>2, <3>3, <3>4
  <2>3. CASE Ended(e)
    <3>1. InCall /\ ~InCall' /\ lc.tok # 0 /\ lc.chan = e.chan /\ e.act = "ended"
      BY <2>3 DEF Ended, Early
    <3>2. ~Open /\ Lacks(evs, Signals)
      BY <3>1 DEF Asks, Untok
    <3>3. ASSUME NEW c \in Rooms, "me" \in inside[c], lc.chan = c PROVE FALSE
      <4>1. After(down, Toks, EndsOf(c), Told(c)) /\ Told(c) \in BOOLEAN
        BY <3>3 DEF Homes, Home, Told, After
      <4>2. Lacks(down, Toks) /\ Lacks(evs, Toks)
        BY <3>2, PlaceLacks DEF Open
      <4>3. Told(c)
        BY <4>1, <4>2, AfterSome
      <4>4. PICK t \in BOOLEAN : t = TRUE
        OBVIOUS
      <4>5. Lacks(evs, EndsOf(c))
        BY <4>2, <4>3, <4>4, AfterSome DEF Told
      <4>6. e \in EndsOf(c)
        BY <2>1, <3>1, <3>3, PlaceEvents
      <4> QED BY <1>3, <4>5, <4>6
    <3>4. CmdsAside
      <4>1. CmdOf({"stop"}) \subseteq Aside
        BY DEF CmdOf, Aside
      <4> QED BY <1>0, <2>3, <4>1, SentAside DEF Ended
    <3>5. Lacks(evs', Signals) /\ Lacks(cmds, Claims)
      BY <1>3, <3>2 DEF Open
    <3> QED BY <1>11, <3>1, <3>3, <3>4, <3>5
  <2>4. CASE Heard(e)
    <3>1. /\ InCall /\ InCall' /\ lc'.chan = lc.chan /\ lc'.tok = lc.tok
          /\ lc'.await = lc.await /\ cmds' = cmds
          /\ lc.sid # 0 => lc'.sid = lc.sid
      BY <2>4 DEF Heard
    <3>2. CASE lc.sid = 0
      <4>1. lc'.tok = 0
        BY <3>1, <3>2 DEF Asks
      <4>2. Joining' /\ Denied'
        BY <1>0, <1>3, <3>1, <3>2 DEF Slot, Joining, Denied
      <4> QED BY <1>9, <1>12, <2>1, <3>1, <4>1, <4>2
    <3>3. CASE lc.sid # 0
      <4>1. Joining' /\ Denied'
        BY <1>0, <1>3, <3>1, <3>3 DEF Slot, Joining, Denied
      <4>2. \A c \in Rooms : "me" \in inside[c] /\ lc.chan = c /\ lc'.tok # 0
                                => lc'.sid = live[c]
        BY <3>1, <3>3 DEF Homes, Home
      <4> QED BY <1>9, <1>12, <2>1, <3>1, <4>1, <4>2
    <3> QED BY <3>2, <3>3
  <2>5. CASE lc' = lc /\ cmds' = cmds
    BY <1>10, <1>12, <2>1, <2>5
  <2> QED BY <1>18, <2>2, <2>3, <2>4, <2>5 DEF StateRead
<1>19. CASE ClaimDropped(e)
  <2>1. /\ e.k = "claimfailed" /\ e \in Replies /\ e \in Refusals /\ e \notin Turned
        /\ e \notin Cuts /\ cmds' = cmds /\ shown' = shown
    BY <1>19, EvKinds, PlaceEvents DEF ClaimDropped, EvOf
  <2>2. CASE lc' = lc
    BY <1>10, <1>12, <2>1, <2>2
  <2>3. CASE lc' = NoCall
    <3>1. ~InCall'
      BY <2>3 DEF InCall
    <3> QED BY <1>6, <1>7, <1>8, <1>11, <1>12, <2>1, <3>1
  <2> QED BY <1>19, <2>2, <2>3 DEF ClaimDropped
<1>20. CASE Cut(e)
  <2>1. e \in Cuts /\ cmds' = cmds /\ ~InCall'
    BY <1>20, EvKinds DEF Cut, EvOf
  <2>2. ~handle /\ ~link /\ Lacks(cmds, Connects)
    BY <1>3, <2>1 DEF Conn
  <2>3. \A c \in Rooms : "me" \notin inside[c]
    BY <2>2 DEF Linked
  <2> QED BY <1>6, <1>11, <1>12, <2>1, <2>2, <2>3
<1>21. CASE CameOnline(e) \/ Passed(e)
  <2>1. e \notin Turned /\ e \notin Cuts /\ cmds' = cmds /\ lc' = lc /\ (shown => shown')
    BY <1>21, EvKinds, PlaceEvents DEF CameOnline, Passed, EvOf
  <2> QED BY <1>10, <1>12, <2>1
<1> QED BY <1>1, <1>13, <1>14, <1>15, <1>16, <1>17, <1>18, <1>19, <1>20, <1>21 DEF Read

LEMMA PlaceClear ==
    /\ Clear(Turned) /\ Clear(Refusals) /\ Clear(Denials) /\ Clear(Toks)
    /\ \A x : /\ Clear(SignalsBut(x)) /\ Clear(SignalsNot(x)) /\ Clear(DenialsBut(x))
              /\ Clear(TokensBut(x)) /\ Clear(EndsOf(x))
<1>1. \A m \in Says({"live", "idle", "failed"}) : m \in Events /\ m.k = "status"
  BY DEF Says
<1> QED BY <1>1, PlaceEvents DEF Clear

LEMMA ToldPassed ==
    ASSUME NEW e \in Events, e.k # "state", PassFacts(evs, e, evs')
    PROVE  \A c : Told(c) => Told(c)'
<1>1. PICK t \in BOOLEAN : t = TRUE
  OBVIOUS
<1>2. \A c : After(evs, Toks, EndsOf(c), t) => After(evs', Toks, EndsOf(c), t)
  BY PlaceClear, PlaceEvents DEF PassFacts
<1> QED BY <1>1, <1>2 DEF Told

\* What a session says, and what the network thread says of the connection, is
\* none of the server's business.
EvsAside ==
    /\ Lacks(evs', Signals) <=> Lacks(evs, Signals)
    /\ Lacks(evs', Turned) <=> Lacks(evs, Turned)
    /\ Lacks(evs', Refusals) <=> Lacks(evs, Refusals)
    /\ Lacks(evs', Denials) <=> Lacks(evs, Denials)
    /\ Lacks(evs', Cuts) <=> Lacks(evs, Cuts)
    /\ \A x : /\ Lacks(evs', SignalsBut(x)) <=> Lacks(evs, SignalsBut(x))
              /\ Lacks(evs', SignalsNot(x)) <=> Lacks(evs, SignalsNot(x))
              /\ Lacks(evs', DenialsBut(x)) <=> Lacks(evs, DenialsBut(x))
              /\ Lacks(evs', TokensBut(x)) <=> Lacks(evs, TokensBut(x))
              /\ Told(x) => Told(x)'

LEMMA PassedAside ==
    ASSUME \/ evs' = evs
           \/ \E e \in Events : e.k \in {"status", "online"} /\ PassFacts(evs, e, evs')
    PROVE  EvsAside
<1>1. CASE evs' = evs
  BY <1>1 DEF EvsAside, Told
<1>2. ASSUME NEW e \in Events, e.k \in {"status", "online"}, PassFacts(evs, e, evs')
      PROVE  EvsAside
  <2>1. /\ e \notin Signals /\ e \notin Turned /\ e \notin Refusals /\ e \notin Denials
        /\ e \notin Cuts
        /\ \A x : /\ e \notin SignalsBut(x) /\ e \notin SignalsNot(x)
                  /\ e \notin DenialsBut(x) /\ e \notin TokensBut(x)
    BY <1>2, EvKinds, PlaceEvents
  <2>2. \A x : Told(x) => Told(x)'
    BY <1>2, ToldPassed
  <2> QED BY <1>2, <2>1, <2>2, PlaceClear, ClearKinds DEF PassFacts, EvsAside
<1> QED BY <1>1, <1>2

LEMMA PlaceApply ==
    ASSUME Typed, Calls, Conn, Asks, Linked, Slot, Homes, Applied PROVE Slot' /\ Homes'
<1>0. /\ cmds \in Seq(Commands) /\ evs \in Seq(Events) /\ cmds # <<>> /\ cmds' = Tail(cmds)
      /\ lc' = lc /\ (InCall' <=> InCall) /\ down \in Seq(Lines) /\ shown' = shown
      /\ shown \in BOOLEAN
  BY DEF Typed, Applied, InCall
<1>1. PICK m \in Commands : m = Head(cmds) /\ Does(m)
  BY DEF Applied
<1>2. TailFacts(cmds, m, cmds')
  BY <1>0, <1>1, Shortened
<1>3. /\ \A T : Lacks(cmds, T) => Lacks(cmds', T)
      /\ \A T : m \notin T => (Lacks(cmds', T) <=> Lacks(cmds, T))
      /\ \A T : m \in T => ~Lacks(cmds, T)
      /\ \A A, B : InOrder(cmds, A, B) => InOrder(cmds', A, B)
  BY <1>2 DEF TailFacts
<1>4. ASSUME NEW e \in Events, evs' = Append(evs, e) PROVE PassFacts(evs, e, evs')
  BY <1>0, <1>4, Appended DEF PassFacts, AppendFacts
<1>5. \A c : Told(c) \in BOOLEAN /\ Told(c)' \in BOOLEAN
  BY DEF Told, After
<1>6. ASSUME \/ evs' = evs
             \/ \E e \in Events : e.k \in {"status", "online"} /\ PassFacts(evs, e, evs')
      PROVE  EvsAside
  BY <1>6, PassedAside
<1>7. ASSUME m \notin Claims, Quiescent, handle' = handle \/ m \in Connects,
             \A c \in Rooms : "me" \in inside[c] => m \notin LeavesOf(c, live[c]),
             \/ evs' = evs
             \/ \E e \in Events : e.k \in {"status", "online"} /\ PassFacts(evs, e, evs')
      PROVE  Slot' /\ Homes'
  <2>1. UNCHANGED <<live, inside, down>>
    BY <1>7 DEF Quiescent
  <2>2. ~InCall' /\ ~Lacks(cmds', Claims) => ~handle' /\ InOrder(cmds', Connects, Claims)
    BY <1>0, <1>2, <1>3, <1>7 DEF Slot, TailFacts
  <2>3. InCall => Joining' /\ Denied' /\ Reason'
    <3>1. InCall => Joining'
      BY <1>0, <1>3 DEF Slot, Joining
    <3>2. InCall => Denied'
      BY <1>0, <1>6, <1>7, <2>1 DEF Slot, Denied, EvsAside
    <3>3. InCall => Reason'
      BY <1>0, <1>3, <1>6, <1>7, <2>1 DEF Slot, Reason, EvsAside
    <3> QED BY <3>1, <3>2, <3>3
  <2>4. Slot'
    BY <1>0, <1>3, <1>6, <1>7, <2>2, <2>3 DEF Slot, EvsAside
  <2>5. ASSUME NEW c \in Rooms, "me" \in inside[c] PROVE Home(c)'
    <3>1. Home(c)
      BY <2>5 DEF Homes
    <3>2. After(down, Toks, EndsOf(c), Told(c)')
      BY <1>5, <1>6, <1>7, <3>1, AfterMore DEF Home, EvsAside
    <3> QED BY <1>0, <1>3, <1>6, <1>7, <2>1, <2>5, <3>1, <3>2 DEF Home, EvsAside
  <2> QED BY <2>1, <2>4, <2>5 DEF Homes
<1>8. ASSUME NEW c \in Rooms, "me" \in inside[c] PROVE live[c] # 0 /\ handle /\ link
  BY <1>8 DEF Calls, Linked, Conn
<1>9. CASE Asked(m)
  <2>1. m \in Claims /\ m \in CmdOf({"start", "join"})
    BY <1>9 DEF Asked, Claims
  <2>2. /\ ~Lacks(cmds, Claims) /\ Lacks(cmds', Claims) /\ Lacks(down, Replies)
        /\ Lacks(evs, Replies) /\ Lacks(evs, Signals) /\ Untok
    BY <1>2, <1>3, <2>1 DEF TailFacts, Asks, Open
  <2>3. \A c \in Rooms : "me" \notin inside[c]
    BY <2>2 DEF Homes, Home
  <2>4. handle => InCall /\ m.chan = lc.chan
    BY <1>3, <2>1, <2>2, CmdKinds, PlaceCmds DEF Slot, CmdOf
  <2>5. Joining'
    BY <2>2, PlaceLacks DEF Joining
  <2>6. /\ Lacks(down, Refusals) /\ Lacks(down, Denials) /\ Lacks(down, Toks)
        /\ Lacks(evs, Refusals) /\ Lacks(evs, Denials) /\ Lacks(evs, Toks)
        /\ \A x : Lacks(evs, SignalsNot(x)) /\ Lacks(evs, SignalsBut(x))
    BY <2>2, PlaceLacks
  <2>7. CASE /\ handle /\ link /\ (Granted(m) \/ Refused(m))
             /\ \E s \in EvOf({"signal"}) :
                   /\ s.chan = m.chan /\ (m.k = "join" => s.sid = m.sid)
                   /\ evs' = Append(evs, s)
    <3>1. PICK s \in Events : /\ s.k = "signal" /\ s.chan = m.chan
                              /\ m.k = "join" => s.sid = m.sid
                              /\ evs' = Append(evs, s)
      BY <2>7 DEF EvOf
    <3>2. AppendFacts(evs, s, evs') /\ InCall /\ m.chan = lc.chan /\ lc.tok = 0
      BY <1>0, <2>2, <2>4, <2>7, <3>1, Appended DEF Untok
    <3>3. /\ Lacks(evs', Refusals) /\ Lacks(evs', Denials) /\ Lacks(evs', Toks)
          /\ Lacks(evs', SignalsBut(lc.chan))
          /\ m.k = "join" => Lacks(evs', SignalsNot(m.sid))
      BY <2>6, <3>1, <3>2, PlaceEvents DEF AppendFacts
    <3>4. ASSUME Denied', Reason' PROVE Slot'
      BY <1>0, <1>3, <2>2, <2>5, <3>2, <3>3, <3>4 DEF Slot
    <3>5. CASE Granted(m)
      <4>1. PICK n \in Lines, t \in Lines :
               /\ n \in EvOf({"state"}) /\ t \in EvOf({"token"}) /\ t.sid = live'[m.chan]
               /\ down' = Append(Append(down, n), t) /\ "me" \in inside'[m.chan]
               /\ \A c \in Rooms \ {m.chan} : inside'[c] = inside[c]
        BY <3>5 DEF Granted
      <4>2. PICK q : q = Append(down, n)
        OBVIOUS
      <4>3. AppendFacts(down, n, q) /\ q \in Seq(Lines) /\ AppendFacts(q, t, down')
        BY <1>0, <4>1, <4>2, Appended, AppendProperties
      <4>4. n \in Events /\ n.k = "state" /\ t \in Events /\ t.k = "token"
        BY <4>1 DEF EvOf
      <4>5. /\ Lacks(down', Refusals) /\ Lacks(down', Denials)
            /\ Lacks(down', TokensBut(live'[m.chan]))
            /\ \A c : After(down', Toks, EndsOf(c), Told(c)')
        BY <1>5, <2>6, <4>1, <4>3, <4>4, PlaceEvents, PlaceLacks DEF AppendFacts
      <4>6. Denied' /\ Reason'
        BY <1>0, <3>2, <3>3, <4>1, <4>5 DEF Denied, Reason
      <4>7. ASSUME NEW c \in Rooms, "me" \in inside'[c] PROVE Home(c)'
        <5>1. c = m.chan
          BY <2>3, <4>1, <4>7
        <5>2. Lacks(evs', TokensBut(live'[c]))
          BY <3>3, PlaceLacks
        <5> QED BY <1>0, <2>2, <3>2, <3>3, <4>5, <5>1, <5>2 DEF Home
      <4> QED BY <3>4, <4>6, <4>7 DEF Homes
    <3>6. CASE Refused(m)
      <4>1. PICK n \in Lines : /\ n \in EvOf({"collision", "joinfailed"})
                               /\ down' = Append(down, n)
                               /\ n.k = "joinfailed" => m.k = "join" /\ n.sid = m.sid
        BY <3>6 DEF Refused
      <4>2. AppendFacts(down, n, down') /\ n \in Events
        BY <1>0, <4>1, Appended DEF EvOf
      <4>3. ~Lacks(down', Turned)
        BY <4>1, <4>2 DEF AppendFacts, Turned
      <4>4. Denied'
        <5> SUFFICES ASSUME ~Lacks(down', Denials) PROVE Denied'
          BY <3>3 DEF Denied
        <5>1. n.k = "joinfailed"
          BY <2>6, <4>2, PlaceEvents DEF AppendFacts
        <5>2. m \in Joins /\ ~Lacks(cmds, Joins)
          BY <1>3, <4>1, <5>1, PlaceCmds
        <5>3. lc.sid # 0 /\ ~lc.await /\ m.sid = lc.sid
          BY <1>3, <3>2, <5>2, PlaceCmds DEF Slot, Joining
        <5>4. Lacks(down', DenialsBut(lc.sid)) /\ Lacks(evs', DenialsBut(lc.sid))
          BY <2>6, <3>3, <4>1, <4>2, <5>1, <5>3, PlaceEvents, PlaceLacks DEF AppendFacts
        <5> QED BY <1>0, <3>3, <4>1, <5>1, <5>3, <5>4 DEF Denied
      <4>5. Homes'
        BY <2>3, <3>6 DEF Refused, Homes
      <4> QED BY <1>0, <3>4, <4>3, <4>4, <4>5 DEF Reason
    <3> QED BY <2>7, <3>5, <3>6
  <2>8. CASE Quiescent /\ (~handle \/ ~link)
             /\ \E s \in EvOf({"claimfailed", "notconnected"}) : evs' = Append(evs, s)
    <3>1. PICK s \in Events : s.k \in {"claimfailed", "notconnected"} /\ evs' = Append(evs, s)
      BY <2>8 DEF EvOf
    <3>2. AppendFacts(evs, s, evs')
      BY <1>0, <3>1, Appended
    <3>3. /\ Lacks(evs', Denials) /\ Lacks(evs', Signals)
          /\ Lacks(evs', Cuts) <=> Lacks(evs, Cuts)
      BY <2>2, <2>6, <3>1, <3>2, EvKinds, PlaceEvents DEF AppendFacts
    <3>4. UNCHANGED <<live, inside, down>>
      BY <2>8 DEF Quiescent
    <3>5. Denied'
      BY <2>6, <3>3, <3>4 DEF Denied
    <3>6. InCall => Reason'
      <4>1. CASE handle
        BY <2>8, <3>4, <4>1 DEF Conn, Reason
      <4>2. CASE ~handle
        <5>1. Hidden \in BOOLEAN /\ After(evs, Cuts, Onlines, Hidden)
          BY <4>2 DEF Conn, Hidden
        <5>2. InCall => ~Lacks(evs, Cuts)
          BY <5>1, AfterSome DEF Slot, Hidden
        <5> QED BY <3>3, <5>2 DEF Reason
      <4> QED BY <4>1, <4>2
    <3>7. Slot'
      BY <1>0, <1>3, <2>2, <2>5, <3>3, <3>5, <3>6, PlaceLacks DEF Slot
    <3> QED BY <2>3, <3>4, <3>7 DEF Homes
  <2> QED BY <1>9, <2>7, <2>8 DEF Asked, EvOf
<1>10. CASE Stopped(m)
  <2>1. m \notin Claims /\ m.k \in {"leave", "stop"} /\ handle' = handle
    BY <1>10, CmdKinds DEF Stopped, CmdOf
  <2>2. PICK e \in Events : e.k = "status" /\ PassFacts(evs, e, evs')
    <3>1. PICK e \in Events : e.k = "status" /\ StopSays(e)
      BY <1>10 DEF Stopped, Says
    <3> QED BY <1>0, <3>1, Said
  <2>3. CASE /\ Quiescent
             /\ ~(m.k = "leave" /\ handle /\ link /\ m.sid # 0 /\ m.sid = live[m.chan]
                  /\ "me" \in inside[m.chan])
    <3>1. \A c \in Rooms : "me" \in inside[c] => m \notin LeavesOf(c, live[c])
      BY <1>8, <2>3, PlaceCmds
    <3> QED BY <1>7, <2>1, <2>2, <2>3, <3>1
  <2>4. CASE m.k = "leave" /\ TakenOut(m.chan)
    <3>1. m \in Leavings /\ ~InCall
      BY <1>3, <2>4, PlaceCmds DEF Slot
    <3>2. Slot'
      BY <1>0, <1>3, <1>6, <2>1, <2>2, <3>1 DEF Slot, EvsAside
    <3>3. PICK n \in Lines : /\ n \in EvOf({"state"}) /\ n.chan = m.chan
                             /\ down' = Append(down, n)
      BY <2>4 DEF TakenOut
    <3>4. AppendFacts(down, n, down') /\ n \in Events /\ n.k = "state"
      BY <1>0, <3>3, Appended DEF EvOf
    <3>5. ASSUME NEW c \in Rooms, "me" \in inside'[c] PROVE Home(c)'
      <4>1. c # m.chan
        BY <2>4, <3>5 DEF TakenOut
      <4>2. live'[c] = live[c] /\ "me" \in inside[c] /\ Home(c)
        BY <2>4, <3>5, <4>1 DEF TakenOut, Homes
      <4>3. m \notin LeavesOf(c, live[c]) /\ n \notin EndsOf(c)
        BY <3>3, <3>4, <4>1, PlaceCmds, PlaceEvents
      <4>4. After(down, Toks, EndsOf(c), Told(c)')
        BY <1>5, <1>6, <2>2, <4>2, AfterMore DEF Home, EvsAside
      <4>5. /\ After(down', Toks, EndsOf(c), Told(c)')
            /\ Lacks(down', Refusals) /\ Lacks(down', TokensBut(live[c]))
        BY <1>5, <3>4, <4>2, <4>3, <4>4, PlaceEvents DEF AppendFacts, Home
      <4> QED BY <1>0, <1>3, <1>6, <2>1, <2>2, <3>1, <4>2, <4>3, <4>5 DEF Home, EvsAside
    <3> QED BY <3>2, <3>5 DEF Homes
  <2> QED BY <1>10, <2>3, <2>4 DEF Stopped
<1>11. CASE Dialled(m)
  <2>1. /\ m \notin Claims /\ Quiescent /\ handle' = handle
        /\ \A c, s : m \notin LeavesOf(c, s)
    BY <1>11, CmdKinds, PlaceCmds DEF Dialled, CmdOf
  <2>2. PICK e \in Events : e.k = "status" /\ PassFacts(evs, e, evs')
    <3>1. PICK e \in Events : e.k = "status" /\ StopSays(e)
      BY <1>11 DEF Dialled, Says
    <3> QED BY <1>0, <3>1, Said
  <2> QED BY <1>7, <2>1, <2>2
<1>12. CASE Tuned(m)
  <2>1. /\ m \notin Claims /\ Quiescent /\ handle' = handle /\ evs' = evs
        /\ \A c, s : m \notin LeavesOf(c, s)
    BY <1>12, CmdKinds, PlaceCmds DEF Tuned, CmdOf
  <2> QED BY <1>7, <2>1
<1>13. CASE Connected(m)
  <2>1. /\ m \notin Claims /\ Quiescent /\ m \in Connects
        /\ \A c, s : m \notin LeavesOf(c, s)
    BY <1>13, CmdKinds, PlaceCmds DEF Connected, CmdOf
  <2>2. PICK e \in Events : e.k = "online" /\ PassFacts(evs, e, evs')
    <3>1. PICK e \in Events : e.k = "online" /\ evs' = Append(evs, e)
      BY <1>13 DEF Connected, EvOf
    <3> QED BY <1>4, <3>1
  <2> QED BY <1>7, <2>1, <2>2
<1> QED BY <1>1, <1>9, <1>10, <1>11, <1>12, <1>13 DEF Does

LEMMA PlaceLine ==
    ASSUME Typed, Conn, Asks, Linked, Slot, Homes, LineRead PROVE Slot' /\ Homes'
<1>0. /\ evs \in Seq(Events) /\ down \in Seq(Lines) /\ down # <<>> /\ down' = Tail(down)
      /\ lc' = lc /\ (InCall' <=> InCall) /\ shown \in BOOLEAN
      /\ UNCHANGED <<shown, cmds, inside, live, link>>
  BY DEF Typed, LineRead, serverVars, InCall
<1>1. PICK m \in Lines : m = Head(down) /\ Forwarded(m)
  BY DEF LineRead
<1>2. TailFacts(down, m, down')
  BY <1>0, <1>1, Shortened
<1>3. /\ \A T : Lacks(down, T) => Lacks(down', T) /\ m \notin T
      /\ \A T : m \notin T => (Lacks(down', T) <=> Lacks(down, T))
  BY <1>2 DEF TailFacts
<1>4. CASE m.k # "gone" /\ m \in Events /\ evs' = Append(evs, m) /\ UNCHANGED netVars
  <2>1. /\ m \notin Signals /\ m \notin Cuts /\ m \notin Gone
        /\ \A x : m \notin SignalsBut(x) /\ m \notin SignalsNot(x)
    BY <1>4, LineKinds, EvKinds, PlaceEvents
  <2>2. AppendFacts(evs, m, evs') /\ handle' = handle
    BY <1>0, <1>4, Appended DEF netVars
  <2>3. \A T : Lacks(evs', T) <=> Lacks(evs, T) /\ m \notin T
    BY <2>2 DEF AppendFacts
  <2>4. InCall => Joining' /\ Denied' /\ Reason'
    <3>1. Joining => Joining'
      BY <1>0 DEF Joining
    <3>2. Denied => Denied'
      BY <1>0, <1>3, <2>1, <2>3 DEF Denied
    <3>3. Reason => Reason'
      BY <1>0, <1>3, <2>1, <2>3 DEF Reason
    <3> QED BY <3>1, <3>2, <3>3 DEF Slot
  <2>5. Slot'
    BY <1>0, <2>1, <2>2, <2>3, <2>4 DEF Slot
  <2>6. ASSUME NEW c \in Rooms, "me" \in inside[c] PROVE Home(c)'
    <3>1. Home(c) /\ Told(c) \in BOOLEAN /\ Told(c)' \in BOOLEAN
      BY <2>6 DEF Homes, Told, After
    <3>2. (m \in Toks => Told(c)') /\ (Told(c) /\ m \notin EndsOf(c) => Told(c)')
      <4>1. PICK t \in BOOLEAN : t = TRUE
        OBVIOUS
      <4>2. /\ m \in Toks => After(evs', Toks, EndsOf(c), t)
            /\ After(evs, Toks, EndsOf(c), t) /\ m \notin EndsOf(c)
                  => After(evs', Toks, EndsOf(c), t)
        BY <2>2, <4>1 DEF AppendFacts
      <4> QED BY <4>1, <4>2 DEF Told
    <3>3. After(down', Toks, EndsOf(c), Told(c)')
      BY <1>2, <3>1, <3>2 DEF TailFacts, Home
    <3> QED BY <1>0, <1>3, <2>3, <3>1, <3>3 DEF Home
  <2> QED BY <1>0, <2>5, <2>6 DEF Homes
<1>5. CASE /\ m \in LineOf({"gone"}) /\ ~handle'
           /\ \E s \in EvOf({"disconnected"}) : StopSays(s)
  <2>1. m \in Gone
    BY <1>5 DEF Gone
  <2>2. PICK e \in Cuts : e \in Events /\ StopSays(e)
    BY <1>5, OfKind DEF Cuts
  <2>3. PassFacts(evs, e, evs') /\ e.k = "disconnected"
    BY <1>0, <2>2, Said, EvKinds
  <2>4. /\ e \notin Signals /\ e \notin Denials
        /\ \A x : /\ e \notin SignalsBut(x) /\ e \notin SignalsNot(x)
                  /\ e \notin DenialsBut(x)
    BY <2>2, <2>3, EvKinds, PlaceEvents
  <2>5. /\ Lacks(evs', Signals) <=> Lacks(evs, Signals)
        /\ Lacks(evs', Denials) <=> Lacks(evs, Denials)
        /\ \A x : /\ Lacks(evs', SignalsBut(x)) <=> Lacks(evs, SignalsBut(x))
                  /\ Lacks(evs', SignalsNot(x)) <=> Lacks(evs, SignalsNot(x))
                  /\ Lacks(evs', DenialsBut(x)) <=> Lacks(evs, DenialsBut(x))
        /\ ~Lacks(evs', Cuts)
    BY <2>2, <2>3, <2>4, PlaceClear, ClearKinds DEF PassFacts
  <2>6. handle /\ ~link
    BY <1>2, <2>1 DEF TailFacts, Conn
  <2>7. Homes'
    BY <1>0, <2>6 DEF Linked, Homes
  <2>8. InCall => Joining' /\ Denied' /\ Reason'
    <3>1. Joining => Joining'
      BY <1>0 DEF Joining
    <3>2. Denied => Denied'
      BY <1>0, <1>3, <2>5 DEF Denied
    <3> QED BY <2>5, <3>1, <3>2 DEF Slot, Reason
  <2>9. Slot'
    BY <1>0, <1>5, <2>5, <2>6, <2>8 DEF Slot
  <2> QED BY <2>7, <2>9
<1> QED BY <1>1, <1>4, <1>5 DEF Forwarded

LEMMA PlacePeer ==
    ASSUME Typed, Linked, Slot, Homes, PeerDoes PROVE Slot' /\ Homes'
<1>0. /\ down \in Seq(Lines) /\ (InCall' <=> InCall)
      /\ UNCHANGED <<lc, shown, cmds, evs, handle, link>>
      /\ \A c \in Rooms : "me" \in inside'[c] <=> "me" \in inside[c]
  BY DEF Typed, PeerDoes, netVars, InCall
<1>1. \A c : Told(c)' = Told(c) /\ Told(c) \in BOOLEAN
  BY <1>0 DEF Told, After
\* The state of a call is no refusal and no token, and it is no end of a call the
\* user is in.
<1>2. /\ Lacks(down', Turned) <=> Lacks(down, Turned)
      /\ Lacks(down', Gone) <=> Lacks(down, Gone)
      /\ Lacks(down', Denials) <=> Lacks(down, Denials)
      /\ Lacks(down', Refusals) <=> Lacks(down, Refusals)
      /\ \A x : /\ Lacks(down', DenialsBut(x)) <=> Lacks(down, DenialsBut(x))
                /\ Lacks(down', TokensBut(x)) <=> Lacks(down, TokensBut(x))
      /\ \A c \in Rooms : "me" \in inside[c] =>
            (After(down, Toks, EndsOf(c), Told(c)) => After(down', Toks, EndsOf(c), Told(c)))
  <2>1. CASE down' = down
    BY <2>1
  <2>2. ASSUME NEW n \in Lines, n \in EvOf({"state"}), down' = Append(down, n),
               n.act = "ended" => "me" \notin inside[n.chan]
        PROVE  <1>2!:
    <3>1. AppendFacts(down, n, down') /\ n \in Events /\ n.k = "state" /\ n \notin Gone
      BY <1>0, <2>2, Appended, LineKinds DEF EvOf
    <3>2. /\ n \notin Turned /\ n \notin Denials /\ n \notin Refusals
          /\ \A x : n \notin DenialsBut(x) /\ n \notin TokensBut(x)
          /\ \A c \in Rooms : "me" \in inside[c] => n \notin EndsOf(c)
      BY <2>2, <3>1, PlaceEvents
    <3> QED BY <1>1, <3>1, <3>2 DEF AppendFacts
  <2> QED BY <2>1, <2>2 DEF PeerDoes
<1>3. InCall => (Reason => Reason') /\ (Joining' <=> Joining) /\ (Denied' <=> Denied)
  <2>1. InCall => lc.chan \in Rooms
    BY DEF Typed, InCall, Call
  <2> QED BY <1>0, <1>2, <2>1 DEF Reason, Joining, Denied
<1>4. Slot'
  BY <1>0, <1>3 DEF Slot
<1>5. ASSUME NEW c \in Rooms, "me" \in inside'[c] PROVE Home(c)'
  <2>1. "me" \in inside[c] /\ Home(c) /\ live'[c] = live[c]
    BY <1>0, <1>5 DEF Homes, PeerDoes
  <2> QED BY <1>0, <1>1, <1>2, <2>1 DEF Home
<1> QED BY <1>4, <1>5 DEF Homes

LEMMA PlaceBroken ==
    ASSUME Typed, Slot, Broken PROVE Slot' /\ Homes'
<1>1. /\ (InCall' <=> InCall) /\ UNCHANGED <<lc, shown, cmds, evs, handle>>
      /\ down \in Seq(Lines) /\ \A c \in Rooms : "me" \notin inside'[c]
  BY DEF Typed, Broken, netVars, InCall
<1>2. PICK n \in Lines : n \in LineOf({"gone"}) /\ down' = Append(down, n)
  BY DEF Broken
<1>3. AppendFacts(down, n, down') /\ n \in Gone /\ n.k = "gone"
  BY <1>1, <1>2, Appended DEF LineOf, Gone
<1>4. n \notin Denials /\ \A x : n \notin DenialsBut(x)
  BY <1>3, EventNames DEF Denials, DenialsBut, EvOf
<1>5. /\ ~Lacks(down', Gone) /\ (Lacks(down', Denials) <=> Lacks(down, Denials))
      /\ \A x : Lacks(down', DenialsBut(x)) <=> Lacks(down, DenialsBut(x))
  BY <1>3, <1>4 DEF AppendFacts
<1>6. InCall => Reason' /\ (Joining' <=> Joining) /\ (Denied' <=> Denied)
  BY <1>1, <1>5 DEF Reason, Joining, Denied
<1> QED BY <1>1, <1>6 DEF Slot, Homes

LEMMA PlaceTask ==
    ASSUME Typed, Slot, Homes, TaskDoes PROVE Slot' /\ Homes'
<1>1. /\ (InCall' <=> InCall) /\ UNCHANGED <<lc, shown, cmds, handle, down, live, inside>>
      /\ evs \in Seq(Events)
  BY DEF Typed, TaskDoes, serverVars, InCall
<1>2. EvsAside
  <2>1. ASSUME NEW e \in Events, e.k = "status", evs' = Append(evs, e) PROVE EvsAside
    <3>1. PassFacts(evs, e, evs')
      BY <1>1, <2>1, Appended DEF PassFacts, AppendFacts
    <3> QED BY <2>1, <3>1, PassedAside
  <2>2. evs' = evs \/ \E e \in Events : e.k = "status" /\ evs' = Append(evs, e)
    BY DEF TaskDoes, Says
  <2> QED BY <2>1, <2>2, PassedAside
<1>3. InCall => (Reason' <=> Reason) /\ (Joining' <=> Joining) /\ (Denied => Denied')
  BY <1>1, <1>2 DEF Reason, Joining, Denied, EvsAside
<1>4. Slot'
  BY <1>1, <1>2, <1>3 DEF Slot, EvsAside
<1>5. ASSUME NEW c \in Rooms, "me" \in inside[c] PROVE Home(c)'
  <2>1. Home(c) /\ Told(c) \in BOOLEAN /\ Told(c)' \in BOOLEAN /\ (Told(c) => Told(c)')
    BY <1>2, <1>5 DEF Homes, Told, After, EvsAside
  <2>2. After(down, Toks, EndsOf(c), Told(c)')
    BY <2>1, AfterMore DEF Home
  <2> QED BY <1>1, <1>2, <1>5, <2>1, <2>2 DEF Home, EvsAside
<1> QED BY <1>1, <1>4, <1>5 DEF Homes

LEMMA LinkedStep == ASSUME Linked, Effect PROVE Linked'
<1>1. CASE UNCHANGED <<inside, link>>
  BY <1>1 DEF Linked
<1>2. CASE Applied
  <2>1. PICK m \in Commands : Does(m)
    BY <1>2 DEF Applied
  <2>2. CASE Asked(m)
    BY <2>2 DEF Asked, Granted, Refused, Quiescent, Linked
  <2>3. CASE Stopped(m)
    BY <2>3 DEF Stopped, TakenOut, Quiescent, Linked
  <2>4. CASE Dialled(m) \/ Tuned(m) \/ Connected(m)
    BY <2>4 DEF Dialled, Tuned, Connected, Quiescent, Linked
  <2> QED BY <2>1, <2>2, <2>3, <2>4 DEF Does
<1>3. CASE PeerDoes \/ Broken
  BY <1>3 DEF PeerDoes, Broken, Linked
<1>4. Clicked \/ EventRead \/ LineRead \/ TaskDoes \/ UNCHANGED vars => UNCHANGED <<inside, link>>
  BY DEF Clicked, EventRead, LineRead, TaskDoes, serverVars, vars
<1> QED BY <1>1, <1>2, <1>3, <1>4 DEF Effect

LEMMA PlaceStep ==
    Types /\ Conn /\ AskInv /\ PlaceInv /\ [Next]_vars => PlaceInv'
<1> SUFFICES ASSUME Types, Conn, AskInv, PlaceInv, [Next]_vars PROVE PlaceInv'
  OBVIOUS
<1>1. Typed /\ Effect /\ Calls
  BY TypesTyped, StepDoes DEF Types
<1>2. Linked'
  BY <1>1, LinkedStep DEF PlaceInv
<1>3. ASSUME odd' = {} PROVE Slot' /\ Homes'
  <2>1. odd = {} /\ Asks /\ Linked /\ Slot /\ Homes
    BY <1>1, <1>3, OddGrows DEF AskInv, Fair, PlaceInv
  <2>2. CASE UNCHANGED vars
    <3>1. UNCHANGED <<lc, shown, cmds, evs, down, handle, link, live, inside>>
      BY <2>2 DEF vars, uiVars, netVars, serverVars
    <3> QED BY <2>1, <3>1
            DEF Slot, Homes, Home, Told, Reason, Joining, Denied, InCall
  <2> QED BY <1>1, <1>3, <2>1, <2>2, PlaceClick, PlaceEvent, PlaceApply, PlaceLine, PlacePeer,
             PlaceBroken, PlaceTask DEF Effect
<1> QED BY <1>2, <1>3 DEF PlaceInv

LEMMA PlaceInit == Init => PlaceInv
<1> SUFFICES ASSUME Init PROVE PlaceInv
  OBVIOUS
<1>1. /\ ~InCall /\ cmds = <<>> /\ evs = <<>> /\ \A c \in Rooms : "me" \notin inside[c]
  BY DEF Init, InCall
<1>2. Lacks(cmds, Claims) /\ Lacks(evs, Signals)
  BY <1>1, LacksEmpty
<1> QED BY <1>1, <1>2 DEF PlaceInv, Linked, Slot, Homes

\* Once all is settled the server has the user in exactly the calls the UI shows
\* him in: the answers to claims, the refusals, the ends of calls and the losses
\* of the connection all reach the screen, in an order that leaves nobody behind.
THEOREM PlacesAgree == Spec => []ServerAgrees
<1> DEFINE All == Types /\ Conn /\ AskInv /\ PlaceInv
<1>1. Init => All
  <2>1. Init => Conn /\ AskInv
    BY ConnInit, AskInit
  <2> QED BY <2>1, TypesInit, PlaceInit
<1>2. All /\ [Next]_vars => All'
  <2> SUFFICES ASSUME Types, Conn, AskInv, PlaceInv, [Next]_vars
               PROVE  Types' /\ Conn' /\ AskInv' /\ PlaceInv'
    OBVIOUS
  <2>1. Types'
    BY TypesStep
  <2> QED BY <2>1, ConnStep, AskStep, PlaceStep
<1>3. All => ServerAgrees
  <2> SUFFICES ASSUME PlaceInv, AtRest, link, shown, odd = {}, NEW c \in Rooms
               PROVE  "me" \in inside[c] <=> InCall /\ lc.chan = c
    BY DEF ServerAgrees
  <2>1. \A T : Lacks(cmds, T) /\ Lacks(evs, T) /\ Lacks(down, T)
    BY LacksEmpty DEF AtRest
  <2> QED BY <2>1 DEF PlaceInv, Slot, Reason, Homes, Home
<1> QED BY <1>1, <1>2, <1>3, PTL DEF Spec
=============================================================================
