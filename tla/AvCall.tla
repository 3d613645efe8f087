------------------------------- MODULE AvCall -------------------------------
(***************************************************************************)
(* Voice and video calls of the egui client: one call slot in the UI, the  *)
(* signalling over IRC, and the media session (MoQ) that the net thread    *)
(* runs as a task of its own.                                              *)
(*                                                                         *)
(*   UI thread    local_call, media_reconnect_at     : lc, redial          *)
(*   to and fro   NetCmd, NetEvent channels          : cmds, evs           *)
(*   net thread   handle, NetMedia                   : handle, ses         *)
(*   connection   lines of the server                : link, down          *)
(*   server       external, the calls of the rooms   : live, inside        *)
(*                                                                         *)
(* A request of the user reaches the server at once, its answer takes its  *)
(* time.  Desktop build: CAMERA permission dialogs of Android are left out.*)
(* The length of the redial delay is left out: a deadline passes some time.*)
(***************************************************************************)
EXTENDS Naturals, Sequences, SequencesExt, FiniteSets

CONSTANTS
    Rooms,      \* the channels
    NeedToken,  \* can_dial_sfu: the SFU asks for a token (all but local ones)
    MaxSid,     \* bound: calls the server ever opens; the budgets allow no more
    Budgets     \* what may happen: user clicks, peers, losses, and the devices

ASSUME RoomsAssumption == Rooms # {} /\ NeedToken \in BOOLEAN /\ MaxSid \in Nat \ {0}
Budget == [calls : Nat, toggles : Nat, peers : Nat, fails : Nat, ends : Nat, drops : Nat,
           camera : {"works", "busy", "none"}, on : BOOLEAN, mic : BOOLEAN]
ASSUME BudgetsAssumption == /\ Budgets \subseteq Budget
                            /\ \A b \in Budgets : b.calls + b.peers <= MaxSid

VARIABLES
    lc,      \* AppState.local_call, or NoCall
    redial,  \* media_reconnect_at is set
    pref,    \* av_pref_muted, av_pref_camera
    shown,   \* the UI shows a session (rooms joined, call buttons there)
    roster,  \* Buffer.call of each room: the session id, 0 for none
    cmds,    \* UI thread -> net thread
    evs,     \* net thread -> UI thread
    handle,  \* the net thread holds a ClientHandle
    ses,     \* NetMedia.session, or NoSession
    link,    \* the connection is up
    down,    \* lines of the server on their way to the net thread
    live,    \* server: the call of each room, 0 for none
    inside,  \* server: who is in the call of each room
    minted,  \* server: how many calls it opened
    left,    \* what is left of the budget
    odd      \* history: what crossed on the way, see below

uiVars     == <<lc, redial, pref, shown, roster>>
netVars    == <<handle, ses>>
serverVars == <<link, live, inside, minted>>
vars == <<uiVars, cmds, evs, netVars, serverVars, down, left, odd>>

NoCall    == [chan |-> "none"]
NoSession == [phase |-> "none"]
Sids      == 0..MaxSid
Media     == {"idle", "connecting", "live", "failed"}

Call == [chan : Rooms, sid : Sids, inst : BOOLEAN, tok : Sids, await : BOOLEAN,
         media : Media, muted : BOOLEAN, camera : BOOLEAN, hascam : BOOLEAN]
Session == [phase : {"dial", "live", "over"}, sid : Sids, muted : BOOLEAN,
            open : BOOLEAN, ctl : Seq(BOOLEAN)]

TypeOK ==
    /\ lc \in Call \cup {NoCall} /\ redial \in BOOLEAN
    /\ pref \in [muted : BOOLEAN, camera : BOOLEAN] /\ shown \in BOOLEAN
    /\ roster \in [Rooms -> Sids] /\ live \in [Rooms -> Sids]
    /\ inside \in [Rooms -> SUBSET {"me", "peer"}]
    /\ minted \in Sids /\ odd \subseteq {"hurried", "offline", "early"}
    /\ \A c \in Rooms : live[c] = 0 <=> inside[c] = {}
    /\ handle \in BOOLEAN /\ link \in BOOLEAN
    /\ ses \in Session \cup {NoSession}
    /\ left \in Budget

InCall  == lc # NoCall
Running == ses # NoSession /\ ses.phase # "over"
\* The user goes on to a call while something of the one before is under way.
Pending == Running \/ cmds # <<>> \/ evs # <<>> \/ down # <<>>
Hurry == odd' = IF Pending THEN odd \cup {"hurried"} ELSE odd
\* The call goes before the server has answered its claim with a token.
Early == odd' = IF lc.tok = 0 THEN odd \cup {"early"} ELSE odd

Spend(what) == left[what] > 0 /\ left' = [left EXCEPT ![what] = @ - 1]

---------------------------------------------------------------------------
(* UI thread: dialling                                                     *)

NewCall(c, sid, inst, await) ==
    [chan |-> c, sid |-> sid, inst |-> inst, tok |-> 0, await |-> await,
     media |-> "idle", muted |-> pref.muted, camera |-> pref.camera, hascam |-> FALSE]

\* try_start_av_media: nothing without a session id or the token the SFU wants,
\* and nothing that is up or being dialled already.
CanDial(call) == /\ call.sid # 0
                 /\ NeedToken => call.tok # 0
                 /\ call.media \notin {"live", "connecting"}

\* The call after try_start_av_media, and the commands it sends.
Tried(call) == IF CanDial(call) THEN [call EXCEPT !.media = "connecting"] ELSE call
Dialling(call) ==
    IF CanDial(call)
    THEN <<[k |-> "dial", sid |-> call.sid, muted |-> call.muted, camera |-> call.camera]>>
    ELSE <<>>

Dial(call) == lc' = Tried(call) /\ cmds' = cmds \o Dialling(call)

---------------------------------------------------------------------------
(* UI thread: clicks                                                       *)

\* The banner of a joined room: start, or join the call it shows.
AvStart(c) ==
    /\ shown /\ ~InCall /\ roster[c] = 0 /\ Spend("calls")
    /\ lc' = NewCall(c, 0, FALSE, TRUE)
    /\ cmds' = Append(cmds, [k |-> "start", chan |-> c]) /\ Hurry
    /\ UNCHANGED <<redial, pref, shown, roster, evs, netVars, serverVars, down>>

AvJoin(c) ==
    /\ shown /\ ~InCall /\ roster[c] # 0 /\ Spend("calls")
    /\ lc' = NewCall(c, roster[c], FALSE, FALSE)
    /\ cmds' = Append(cmds, [k |-> "join", chan |-> c, sid |-> roster[c]])
    /\ Hurry
    /\ UNCHANGED <<redial, pref, shown, roster, evs, netVars, serverVars, down>>

\* Slip: the media stops and the server is not told.
AvLeaveMediaOnly ==
    /\ InCall /\ lc' = NoCall /\ redial' = FALSE
    /\ cmds' = Append(cmds, [k |-> "stop"])
    /\ Early
    /\ UNCHANGED <<pref, shown, roster, evs, netVars, serverVars, down, left>>

\* do_av_leave
AvLeave ==
    /\ InCall /\ lc' = NoCall /\ redial' = FALSE
    /\ pref' = [muted |-> lc.muted,
                camera |-> IF lc.hascam THEN lc.camera ELSE pref.camera]
    /\ cmds' = cmds \o <<[k |-> "leave", chan |-> lc.chan, sid |-> lc.sid],
                         [k |-> "stop"]>>
    /\ Early
    /\ UNCHANGED <<shown, roster, evs, netVars, serverVars, down, left>>

AvToggleMute ==
    /\ InCall /\ Spend("toggles")
    /\ lc' = [lc EXCEPT !.muted = ~@] /\ pref' = [pref EXCEPT !.muted = ~lc.muted]
    /\ cmds' = Append(cmds, [k |-> "mute", on |-> ~lc.muted])
    /\ UNCHANGED <<redial, shown, roster, evs, netVars, serverVars, down, odd>>

AvToggleCamera ==
    /\ InCall /\ lc.hascam /\ Spend("toggles")
    /\ lc' = [lc EXCEPT !.camera = ~@] /\ pref' = [pref EXCEPT !.camera = ~lc.camera]
    /\ cmds' = Append(cmds, [k |-> "camera", on |-> ~lc.camera])
    /\ UNCHANGED <<redial, shown, roster, evs, netVars, serverVars, down, odd>>

\* poll_media_reconnect, once the deadline has passed.
PollRedial ==
    /\ redial /\ redial' = FALSE
    /\ IF InCall /\ lc.sid # 0
       THEN Dial([lc EXCEPT !.media = "idle"])
       ELSE UNCHANGED <<lc, cmds>>
    /\ UNCHANGED <<pref, shown, roster, evs, netVars, serverVars, down, left, odd>>

\* poll_auto_reconnect; the backoff and its failures are in SleekSession.
Reconnect ==
    /\ ~shown /\ [k |-> "connect"] \notin ToSet(cmds) /\ [k |-> "online"] \notin ToSet(evs)
    /\ cmds' = Append(cmds, [k |-> "connect"])
    /\ UNCHANGED <<uiVars, evs, netVars, serverVars, down, left, odd>>

---------------------------------------------------------------------------
(* UI thread: events                                                       *)

\* NetEvent::AvSignalingSent fills the slot, or makes one.
Signalled(e) ==
    LET had == IF InCall THEN lc ELSE NewCall(e.chan, e.sid, TRUE, e.sid = 0)
        call == [had EXCEPT !.chan = e.chan, !.inst = TRUE, !.await = (e.sid = 0),
                            !.sid = IF e.sid = 0 THEN @ ELSE e.sid]
    IN /\ IF e.sid # 0 THEN Dial(call) ELSE lc' = call /\ UNCHANGED cmds
       /\ UNCHANGED <<redial, pref, shown, roster>>

\* Slip: only a failure schedules a redial.
MediaStatusFailedOnly(e) ==
    LET dialling == InCall /\ lc.media = "connecting"
    IN /\ lc' = IF InCall /\ ~(e.st = "idle" /\ dialling) THEN [lc EXCEPT !.media = e.st] ELSE lc
       /\ redial' = (InCall /\ ~dialling /\ e.st = "failed")
       /\ UNCHANGED <<pref, shown, roster, cmds>>

\* NetEvent::AvMediaStatus.  While the UI waits for a dial, the end of the
\* session before it changes nothing, and a failure schedules no redial, whether
\* it is that of the session before or of the dial itself.
MediaStatus(e) ==
    LET dialling == InCall /\ lc.media = "connecting"
        fell == e.st \in {"idle", "failed"} /\ InCall /\ ~dialling
        isLive == e.st = "live"
    IN /\ IF InCall
          THEN lc' = [lc EXCEPT
                 !.media  = IF e.st = "idle" /\ dialling THEN @ ELSE e.st,
                 !.hascam = IF isLive THEN e.cam ELSE @,
                 !.muted  = @ \/ (isLive /\ ~e.mic)]
          ELSE UNCHANGED lc
       /\ pref' = [pref EXCEPT !.muted = @ \/ (InCall /\ isLive /\ ~e.mic)]
       /\ redial' = (fell \/ (redial /\ ~isLive))
       /\ cmds' = IF InCall /\ isLive /\ e.cam /\ lc.camera
                  THEN Append(cmds, [k |-> "camera", on |-> TRUE]) ELSE cmds
       /\ UNCHANGED <<shown, roster>>

\* handle_av_tags: a token for this call, or for a call without an id yet.
Token(e) ==
    /\ IF InCall /\ lc.sid \in {0, e.sid}
       THEN Dial([lc EXCEPT !.sid = e.sid, !.tok = e.sid, !.await = FALSE])
       ELSE UNCHANGED <<lc, cmds>>
    /\ UNCHANGED <<redial, pref, shown, roster>>

\* start-collision: the call of the room is joined instead.
Collision(e) ==
    LET c == IF InCall /\ (lc.await \/ lc.sid = 0) THEN lc.chan ELSE e.chan
    IN /\ roster' = [roster EXCEPT ![c] = e.sid]
       /\ lc' = NewCall(c, e.sid, FALSE, FALSE)
       /\ cmds' = Append(cmds, [k |-> "join", chan |-> c, sid |-> e.sid])
       /\ odd' = IF ~InCall \/ lc.chan # c \/ lc.media # "idle"
                 THEN odd \cup {"hurried"} ELSE odd
       /\ UNCHANGED <<redial, pref, shown>>

\* join-failed
JoinFailed(e) ==
    /\ lc' = IF InCall /\ lc.sid \in {0, e.sid} THEN NoCall ELSE lc
    /\ UNCHANGED <<redial, pref, shown, roster, cmds, odd>>

\* av-state of a room: the roster, then the own call.
AvState(e) ==
    /\ roster' = [roster EXCEPT ![e.chan] = IF e.act = "ended" THEN 0 ELSE e.sid]
    /\ \/ /\ InCall /\ lc.chan = e.chan /\ e.act = "started" /\ lc.await
          /\ Dial([lc EXCEPT !.sid = e.sid, !.await = FALSE])
          /\ UNCHANGED <<redial, odd>>
       \/ /\ InCall /\ lc.chan = e.chan /\ e.act = "ended"
          /\ lc' = NoCall /\ redial' = FALSE /\ Early
          /\ cmds' = Append(cmds, [k |-> "stop"])
       \/ /\ InCall /\ lc.chan = e.chan /\ e.act # "ended"
          /\ ~(e.act = "started" /\ lc.await)
          /\ lc' = [lc EXCEPT !.sid = IF @ = 0 THEN e.sid ELSE @]
          /\ UNCHANGED <<redial, cmds, odd>>
       \/ /\ ~InCall \/ lc.chan # e.chan
          /\ UNCHANGED <<lc, redial, cmds, odd>>
    /\ UNCHANGED <<pref, shown>>

\* NetEvent::Failed("av-start..." or "av-join...") drops a claim that is not
\* through yet.
ClaimFailed ==
    /\ lc' = IF InCall /\ (lc.await \/ ~lc.inst \/ lc.sid = 0) THEN NoCall ELSE lc
    /\ UNCHANGED <<redial, pref, shown, roster, cmds>>

\* mark_disconnected_for_reconnect
Disconnected ==
    /\ lc' = NoCall /\ redial' = FALSE /\ shown' = FALSE
    /\ UNCHANGED <<pref, roster, cmds>>

HandleEvent ==
    /\ evs # <<>> /\ evs' = Tail(evs)
    /\ LET e == Head(evs) IN
       \/ e.k = "collision" /\ Collision(e)
       \/ e.k = "joinfailed" /\ JoinFailed(e)
       \/ e.k = "state" /\ AvState(e)
       \/ /\ UNCHANGED odd
          /\ \/ e.k = "signal" /\ Signalled(e)
             \/ e.k = "status" /\ MediaStatus(e)
             \/ e.k = "token" /\ Token(e)
             \/ e.k = "claimfailed" /\ ClaimFailed
             \/ e.k = "disconnected" /\ Disconnected
             \/ e.k = "online" /\ shown' = TRUE
                /\ UNCHANGED <<lc, redial, pref, roster, cmds>>
             \* Failed("Not connected") only shows an error.
             \/ e.k = "notconnected" /\ UNCHANGED <<uiVars, cmds>>
    /\ UNCHANGED <<netVars, serverVars, down, left>>

---------------------------------------------------------------------------
(* The server, external: what a request does to the calls, and the lines   *)
(* that come back to the client.                                           *)

State(c, act, sid) == [k |-> "state", chan |-> c, act |-> act, sid |-> sid]
TokenFor(sid)      == [k |-> "token", sid |-> sid]
Tell(lines) == down' = IF link THEN down \o lines ELSE down

Opens(c, who, more) ==
    /\ live' = [live EXCEPT ![c] = minted + 1] /\ minted' = minted + 1
    /\ inside' = [inside EXCEPT ![c] = {who}]
    /\ Tell(<<State(c, "started", minted + 1)>> \o more)

Enters(c, who, more) ==
    /\ inside' = [inside EXCEPT ![c] = @ \cup {who}]
    /\ Tell(<<State(c, "joined", live[c])>> \o more)
    /\ UNCHANGED <<live, minted>>

\* The call of a room ends with its last participant.
Leaves(c, who) ==
    LET stay == inside[c] \ {who}
    IN /\ inside' = [inside EXCEPT ![c] = stay]
       /\ live' = [live EXCEPT ![c] = IF stay = {} THEN 0 ELSE @]
       /\ Tell(<<State(c, IF stay = {} THEN "ended" ELSE "left", live[c])>>)
       /\ UNCHANGED minted

NothingServed == UNCHANGED <<live, inside, minted, down>>

ServeStart(c) ==
    \/ /\ live[c] = 0 /\ Opens(c, "me", <<TokenFor(minted + 1)>>)
    \/ /\ live[c] # 0 /\ UNCHANGED <<live, inside, minted>>
       /\ Tell(<<[k |-> "collision", chan |-> c, sid |-> live[c]]>>)

ServeJoin(c, sid) ==
    \/ /\ live[c] = sid /\ Enters(c, "me", <<TokenFor(sid)>>)
    \/ /\ live[c] # sid /\ UNCHANGED <<live, inside, minted>>
       /\ Tell(<<[k |-> "joinfailed", sid |-> sid]>>)

ServeLeave(c, sid) ==
    \/ /\ sid # 0 /\ live[c] = sid /\ "me" \in inside[c] /\ Leaves(c, "me")
    \/ /\ ~(sid # 0 /\ live[c] = sid /\ "me" \in inside[c]) /\ NothingServed

\* Someone else starts, joins or leaves.
Peer(c) ==
    /\ Spend("peers")
    /\ \/ live[c] = 0 /\ Opens(c, "peer", <<>>)
       \/ live[c] # 0 /\ "peer" \notin inside[c] /\ Enters(c, "peer", <<>>)
       \/ "peer" \in inside[c] /\ Leaves(c, "peer")
    /\ UNCHANGED <<uiVars, cmds, evs, netVars, link, odd>>

---------------------------------------------------------------------------
(* Net thread                                                              *)

\* Slip: the end of a session is passed on under its own name.
StatusUnmapped(st) ==
    [k |-> "status", st |-> IF st = "idle" THEN "ended" ELSE st,
     cam |-> st = "live" /\ left.camera # "none", mic |-> left.mic]

\* What the net thread makes of an AvMediaUpdate.
Status(st) == [k |-> "status", st |-> st,
               cam |-> st = "live" /\ left.camera # "none", mic |-> left.mic]

\* NetMedia::stop waits for the media task.  A live session says that it ended;
\* one that is still dialling may get through first, may fail, or is aborted
\* after 1.5 s and says nothing.
Stopping ==
    IF ses = NoSession \/ ses.phase = "over" THEN {<<>>}
    ELSE IF ses.phase = "live" THEN {<<Status("idle")>>}
    ELSE {<<>>, <<Status("live"), Status("idle")>>, <<Status("failed")>>}

\* Slip: every session starts with the microphone open.
NewSessionUnmuted(e) ==
    [phase |-> "dial", sid |-> e.sid, muted |-> FALSE,
     open |-> e.camera /\ left.camera = "works", ctl |-> <<>>]

\* run_media opens the camera before it dials, if the user wants it.
NewSession(e) ==
    [phase |-> "dial", sid |-> e.sid, muted |-> e.muted \/ ~left.mic,
     open |-> e.camera /\ left.camera = "works", ctl |-> <<>>]

\* apply_cmd.  A claim the client task cannot send any more fails; without a
\* handle it is answered as "Not connected" and the slot stays claimed.
Claim(serve, signal) ==
    /\ UNCHANGED ses
    /\ \/ handle /\ link /\ serve /\ evs' = Append(evs, signal)
       \/ handle /\ ~link /\ NothingServed
          /\ evs' = Append(evs, [k |-> "claimfailed"])
       \/ ~handle /\ NothingServed
          /\ evs' = Append(evs, [k |-> "notconnected"])

Signal(c, sid) == [k |-> "signal", chan |-> c, sid |-> sid]

Apply ==
    /\ cmds # <<>> /\ cmds' = Tail(cmds)
    /\ LET e == Head(cmds) IN
       \/ /\ e.k = "start" /\ Claim(ServeStart(e.chan), Signal(e.chan, 0))
          /\ UNCHANGED odd
       \/ /\ e.k = "join" /\ Claim(ServeJoin(e.chan, e.sid), Signal(e.chan, e.sid))
          /\ UNCHANGED odd
       \/ /\ e.k = "leave" /\ ses' = NoSession
          /\ \E said \in Stopping : evs' = evs \o said \o <<Status("idle")>>
          /\ IF handle /\ link THEN ServeLeave(e.chan, e.sid) ELSE NothingServed
          /\ UNCHANGED odd
       \/ /\ e.k = "stop" /\ ses' = NoSession
          /\ \E said \in Stopping : evs' = evs \o said \o <<Status("idle")>>
          /\ NothingServed /\ UNCHANGED odd
       \/ /\ e.k = "dial" /\ ses' = NewSession(e)
          /\ \E said \in Stopping : evs' = evs \o said \o <<Status("connecting")>>
          /\ odd' = IF handle /\ link THEN odd ELSE odd \cup {"offline"}
          /\ NothingServed
       \/ /\ e.k = "mute"
          /\ ses' = IF Running THEN [ses EXCEPT !.muted = e.on] ELSE ses
          /\ NothingServed /\ UNCHANGED <<evs, odd>>
       \/ /\ e.k = "camera"
          /\ ses' = IF Running THEN [ses EXCEPT !.ctl = Append(@, e.on)] ELSE ses
          /\ NothingServed /\ UNCHANGED <<evs, odd>>
       \/ /\ e.k = "connect" /\ handle' = TRUE /\ link' = TRUE
          /\ evs' = Append(evs, [k |-> "online"])
          /\ NothingServed /\ UNCHANGED <<ses, odd>>
    /\ Head(cmds).k # "connect" => UNCHANGED <<handle, link>>
    /\ UNCHANGED <<uiVars, left>>

\* Slip: the media outlives the session.
ForwardKeepsMedia ==
    /\ down # <<>> /\ down' = Tail(down)
    /\ \/ Head(down).k # "gone" /\ evs' = Append(evs, Head(down)) /\ UNCHANGED handle
       \/ Head(down).k = "gone" /\ handle' = FALSE
          /\ evs' = Append(evs, [k |-> "disconnected"])
    /\ UNCHANGED <<uiVars, cmds, ses, serverVars, left, odd>>

\* A line of the server; the end of the session stops the media as well.
Forward ==
    /\ down # <<>> /\ down' = Tail(down)
    /\ \/ /\ Head(down).k # "gone" /\ evs' = Append(evs, Head(down))
          /\ UNCHANGED netVars
       \/ /\ Head(down).k = "gone" /\ handle' = FALSE /\ ses' = NoSession
          /\ \E said \in Stopping : evs' = evs \o said \o <<[k |-> "disconnected"]>>
    /\ UNCHANGED <<uiVars, cmds, serverVars, left, odd>>

\* The connection breaks: the server takes the client out of its calls.
Drop ==
    /\ link /\ Spend("drops") /\ link' = FALSE
    /\ down' = Append(down, [k |-> "gone"])
    /\ inside' = [c \in Rooms |-> inside[c] \ {"me"}]
    /\ live' = [c \in Rooms |-> IF inside'[c] = {} THEN 0 ELSE live[c]]
    /\ UNCHANGED <<uiVars, cmds, evs, netVars, minted, odd>>

---------------------------------------------------------------------------
(* Media task                                                              *)

InTask == UNCHANGED <<uiVars, cmds, handle, serverVars, down, odd>>

DialSucceeds ==
    /\ ses # NoSession /\ ses.phase = "dial"
    /\ ses' = [ses EXCEPT !.phase = "live"]
    /\ evs' = Append(evs, Status("live"))
    /\ InTask /\ UNCHANGED left

DialFails ==
    /\ ses # NoSession /\ ses.phase = "dial" /\ Spend("fails")
    /\ ses' = [ses EXCEPT !.phase = "over", !.open = FALSE, !.ctl = <<>>]
    /\ evs' = Append(evs, Status("failed"))
    /\ InTask

\* Slip: a session ends without a word.
EndsSilently ==
    /\ ses # NoSession /\ ses.phase = "live" /\ Spend("ends")
    /\ ses' = [ses EXCEPT !.phase = "over", !.open = FALSE, !.ctl = <<>>]
    /\ UNCHANGED evs /\ InTask

\* The transport closes.
Ends ==
    /\ ses # NoSession /\ ses.phase = "live" /\ Spend("ends")
    /\ ses' = [ses EXCEPT !.phase = "over", !.open = FALSE, !.ctl = <<>>]
    /\ evs' = Append(evs, Status("idle"))
    /\ InTask

\* MediaControl::SetCameraEnabled: the device is held only while it is on.
Control ==
    /\ ses # NoSession /\ ses.phase = "live" /\ ses.ctl # <<>>
    /\ LET on == Head(ses.ctl)
           now == on /\ (ses.open \/ left.camera = "works")
       IN /\ ses' = [ses EXCEPT !.ctl = Tail(@), !.open = now]
          /\ evs' = IF on # ses.open THEN Append(evs, Status("live")) ELSE evs
    /\ InTask /\ UNCHANGED left

---------------------------------------------------------------------------

Init ==
    /\ lc = NoCall /\ redial = FALSE /\ shown = TRUE
    /\ roster = [c \in Rooms |-> 0] /\ live = roster
    /\ inside = [c \in Rooms |-> {}] /\ minted = 0
    /\ cmds = <<>> /\ evs = <<>> /\ down = <<>>
    /\ handle = TRUE /\ link = TRUE /\ ses = NoSession /\ odd = {}
    /\ left \in Budgets /\ pref = [muted |-> FALSE, camera |-> left.on]

Clicks == \/ \E c \in Rooms : AvStart(c) \/ AvJoin(c)
          \/ AvLeave \/ AvToggleMute \/ AvToggleCamera
Next == \/ Clicks \/ PollRedial \/ Reconnect \/ HandleEvent
        \/ \E c \in Rooms : Peer(c)
        \/ Apply \/ Forward \/ Drop
        \/ DialSucceeds \/ DialFails \/ Ends \/ Control

Spec == Init /\ [][Next]_vars

---------------------------------------------------------------------------
(* Properties                                                              *)
(*                                                                         *)
(* odd remembers how what was meant for one call can miss it or reach      *)
(* another: the call was gone before its request was answered, since the   *)
(* user left or since a call of a peer in that room ended meanwhile        *)
(* ("early"), or the user went on to a next call before the former was torn*)
(* down ("hurried"), or a dial ran after the session was gone ("offline"). *)

AtRest == /\ cmds = <<>> /\ evs = <<>> /\ down = <<>>
          /\ ses = NoSession \/ ses.ctl = <<>>

\* The UI shows media as connecting or live only while a session for that very
\* call is being dialled or is up: every end of one is told, and the end of the
\* session before does not pass for it (AvMediaStatus, NetMedia::stop).
ShownMediaIsReal ==
    AtRest /\ InCall /\ odd \subseteq {"early"} =>
        /\ lc.media = "connecting" => Running /\ ses.phase = "dial" /\ ses.sid = lc.sid
        /\ lc.media = "live" => Running /\ ses.phase = "live" /\ ses.sid = lc.sid

\* No session, hence no open microphone, outlives the call on the screen, whoever
\* ended it: the user, the server or a broken connection.
NoHiddenMedia ==
    AtRest /\ Running /\ odd \subseteq {"early"} => InCall

\* Once all is settled the server has the user in the calls the UI shows him in:
\* nobody stays behind as a silent participant (do_av_leave, start-collision).
ServerAgrees ==
    AtRest /\ link /\ shown /\ odd = {} =>
        \A c \in Rooms : "me" \in inside[c] <=> InCall /\ lc.chan = c

\* Muted on the screen is muted and camera off is a closed camera, after any
\* sequence of toggles, redials and late reports of devices.
PrivacyKept ==
    AtRest /\ InCall /\ Running =>
        /\ lc.muted /\ left.mic => ses.muted
        /\ ~lc.camera => ~ses.open

\* A call whose media session ended has a redial coming, unless it cannot dial
\* yet, and none is pending over a session that is shown as live: each end is
\* redialled, once (schedule_media_reconnect, on_media_live).  Nothing is said of
\* a call whose dial failed: the code schedules no redial then, since a Failed
\* that comes while the call waits for its dial counts as the end of the session
\* before (app.rs:600-614).
RedialComes ==
    /\ AtRest /\ InCall /\ lc.media = "idle" =>
        redial \/ lc.sid = 0 \/ (NeedToken /\ lc.tok = 0)
    /\ InCall /\ lc.media = "live" => ~redial
=============================================================================
