--------------------------- MODULE SleekSession ---------------------------
(***************************************************************************)
(* The session layer of Sleek: how the egui thread, the network thread and *)
(* the SDK task of one connection agree on whether the user is online.     *)
(*                                                                         *)
(*   UI thread   android/src/app.rs, state.rs : conn ... inChat            *)
(*     | cmdq      unbounded tokio channel of NetCmd                       *)
(*   net thread  android/src/net.rs           : busy, sdk handle           *)
(*     | evq       unbounded std channel of NetEvent, drained every frame  *)
(*   SDK task    freeq-sdk/src/client.rs      : sdk, sasl                  *)
(*       sdkq      the SDK's own event channel, read by the net thread     *)
(*                                                                         *)
(* A UI frame drains the whole of evq before it looks at a click; here the *)
(* events are handled one by one, which adds nothing: a click between two  *)
(* events is the frame in which the second had not been sent yet.          *)
(*                                                                         *)
(* Time is abstracted: a backoff deadline is armed or not and, once armed, *)
(* may expire at any moment.  Nicknames and the form are never blank.      *)
(***************************************************************************)
EXTENDS Naturals, Sequences, SequencesExt

CONSTANTS
    Mobile,       \* TRUE: Android, where sign-in returns as a freeq:// deep link
    MaxAttempts,  \* where reconnect_attempts saturates (u32::MAX in the code)
    MaxCmds,      \* bound: the user stops clicking while this many commands wait
    MaxEvents,    \* bound: net and SDK pause while this many events wait
    SdkAhead      \* bound: events the SDK may send before the net thread reads

ASSUME MobileAssumption == Mobile \in BOOLEAN
ASSUME MaxAttemptsAssumption == MaxAttempts \in Nat \ {0}
ASSUME BoundsAssumption == /\ MaxCmds \in Nat \ {0}
                           /\ MaxEvents \in Nat \ {0}
                           /\ SdkAhead \in Nat \ {0}

VARIABLES
    conn,         \* AppState.connection
    intentional,  \* AppState.intentional_disconnect
    attempts,     \* AppState.reconnect_attempts
    timer,        \* AppState.reconnect_at is Some
    oauth,        \* AppState.awaiting_oauth
    ident,        \* broker_token / did in memory
    disk,         \* what session.json holds
    inChat,       \* Route::Chat, the full-screen chat of the phone layout
    cmdq, busy, evq,
    sdk,          \* the SDK task behind the net thread's current handle
    sasl,         \* whether that task was given a web-token
    sdkq,
    signedOut     \* history: the user signed out and has not signed in since

uiVars  == <<conn, intentional, attempts, timer, oauth, ident, disk, inChat>>
netVars == <<busy, sdk, sasl, sdkq>>
vars    == <<uiVars, netVars, cmdq, evq, signedOut>>

ConnStates == {"Disconnected", "Connecting", "Connected", "Registered"}

\* "did": a DID without a broker token (an Authenticated event after sign-out).
Idents == {"none", "did", "account"}
Disks  == {"none", "guest", "account"}

\* NetCmd, reduced to the variants whose handling touches the session.  "Send"
\* stands for Privmsg, Reply, Raw, React: they need the handle and nothing else.
Attempts == {"ConnectGuest", "ConnectToken", "Refresh", "Login"}
Commands == Attempts \cup {"Send", "Quit"}

\* What the net thread is awaiting inside apply_cmd; it reads no channel then.
Busy == {"idle", "refresh", "login", "dialGuest", "dialToken"}

\* "new": spawned, Event::Connected not sent; "dead": the task has sent its
\* Disconnected and returned; "none": the net thread holds no handle.
\* "answered": the server has accepted or refused the web-token.
SdkStates == {"none", "new", "open", "answered", "reg", "dead"}
Unregistered == {"open", "answered"}

SdkEvents == {"Connected", "Authenticated", "AuthFailed",
              "Registered", "RegisteredGuest", "EOF"}
\* NetEvent::Failed is told apart by the command that failed, for the
\* properties only: the UI handles both alike.
Events == SdkEvents \cup {"QuitDone", "AuthReady", "FailedAttempt", "FailedSend"}

TypeOK ==
    /\ conn \in ConnStates
    /\ intentional \in BOOLEAN /\ timer \in BOOLEAN
    /\ oauth \in BOOLEAN /\ inChat \in BOOLEAN /\ sasl \in BOOLEAN
    /\ attempts \in 0..MaxAttempts
    /\ ident \in Idents /\ disk \in Disks
    /\ cmdq \in Seq(Commands) /\ evq \in Seq(Events) /\ sdkq \in Seq(SdkEvents)
    /\ busy \in Busy /\ sdk \in SdkStates
    /\ signedOut \in BOOLEAN

---------------------------------------------------------------------------
(* Helpers that several handlers call                                      *)

\* SleekApp::new: a saved account is refreshed, a saved guest connects,
\* otherwise the connect form is shown.
SavedBoot(d) == [conn  |-> IF d = "none" THEN "Disconnected" ELSE "Connecting",
                 ident |-> IF d = "account" THEN "account" ELSE "none",
                 disk  |-> d,
                 cmdq  |-> CASE d = "account" -> <<"Refresh">>
                             [] d = "guest"   -> <<"ConnectGuest">>
                             [] OTHER         -> <<>>]
\* Launched by a deep link: its tokens are applied, a malformed link is dropped
\* and in both cases nothing is restored from disk.
LinkBoot == [conn |-> "Connecting", ident |-> "account", disk |-> "account",
             cmdq |-> <<"ConnectToken">>]
BadLinkBoot(d) == [SavedBoot(d) EXCEPT !.conn = "Disconnected", !.cmdq = <<>>]
Boots(d) == {SavedBoot(d)} \cup IF Mobile THEN {LinkBoot, BadLinkBoot(d)} ELSE {}

\* Slips: counting past the saturation point; giving up at it.
ScheduleUnbounded == attempts' = attempts + 1 /\ timer' = TRUE
ScheduleUntilMax ==
    /\ attempts' = IF attempts < MaxAttempts THEN attempts + 1 ELSE attempts
    /\ timer' = (attempts < MaxAttempts)

\* AppState::schedule_auto_reconnect
Schedule ==
    /\ attempts' = IF attempts < MaxAttempts THEN attempts + 1 ELSE attempts
    /\ timer' = TRUE

\* Slip: the deadline is cleared and the count is not.
CancelKeepsCount == timer' = FALSE /\ UNCHANGED attempts

\* AppState::cancel_auto_reconnect
CancelReconnect == attempts' = 0 /\ timer' = FALSE

\* AppState::clear_session; it keeps the identity, which logout drops.
ClearSession ==
    /\ conn' = "Disconnected" /\ oauth' = FALSE /\ inChat' = FALSE
    /\ CancelReconnect

\* SleekApp::do_connect_with_token: sends one Connect.
StartConnect(cmd) ==
    /\ conn' = "Connecting" /\ intentional' = FALSE
    /\ timer' = FALSE /\ oauth' = FALSE
    /\ cmdq' = Append(cmdq, cmd)

\* Slip: the identity is dropped from memory and left in session.json.
ConnectAsGuestKeepsDisk ==
    /\ StartConnect("ConnectGuest")
    /\ ident' = "none"
    /\ UNCHANGED disk

\* SleekApp::do_connect: a cached identity is wiped before a guest connect.
ConnectAsGuest ==
    /\ StartConnect("ConnectGuest")
    /\ ident' = "none"
    /\ disk' = IF ident = "none" THEN disk ELSE "none"

\* SleekApp::do_reconnect_session
RefreshSession ==
    /\ conn' = "Connecting" /\ intentional' = FALSE /\ timer' = FALSE
    /\ cmdq' = Append(cmdq, "Refresh")
    /\ UNCHANGED <<oauth, ident, disk>>

\* SleekApp::apply_auth_tokens(connect = true)
ApplyTokens ==
    /\ ident' = "account" /\ disk' = "account"
    /\ StartConnect("ConnectToken")

\* AppState::persist_session
Persisted == CASE ident = "account" -> "account"
               [] ident = "none"    -> "guest"
               [] OTHER             -> disk

---------------------------------------------------------------------------
(* UI thread: the clicks of the user and the reconnect timer               *)

CanClick == Len(cmdq) < MaxCmds

\* The connect form: not registered, not waiting, no chat page above it, and
\* its buttons are dead while a sign-in is pending.
OnConnectForm == conn = "Disconnected" /\ ~timer /\ ~inChat /\ ~oauth

\* The "Connecting" page with its Cancel button.
OnWaitingPage == ~inChat /\ (conn \in {"Connecting", "Connected"}
                             \/ (conn = "Disconnected" /\ timer))

ClickConnectGuest ==
    /\ OnConnectForm /\ CanClick
    /\ ConnectAsGuest
    /\ signedOut' = FALSE
    /\ UNCHANGED <<netVars, evq, attempts, inChat>>

ClickLogin ==
    /\ OnConnectForm /\ CanClick
    /\ oauth' = TRUE /\ conn' = "Connecting"
    /\ cmdq' = Append(cmdq, "Login")
    /\ signedOut' = FALSE
    /\ UNCHANGED <<netVars, evq, intentional, attempts, timer, ident, disk, inChat>>

\* A pasted freeq://auth link carries the tokens.
ClickApplyCallback ==
    /\ OnConnectForm /\ CanClick
    /\ ApplyTokens
    /\ signedOut' = FALSE
    /\ UNCHANGED <<netVars, evq, attempts, inChat>>

\* SleekApp::poll_oauth_deep_link: the browser hands the sign-in back to the
\* running app, which looks for it only while it still waits for one.
DeepLinkArrives ==
    /\ Mobile /\ oauth /\ CanClick
    /\ \/ ApplyTokens
       \/ /\ oauth' = FALSE
          /\ conn' = IF conn = "Connecting" THEN "Disconnected" ELSE conn
          /\ UNCHANGED <<intentional, timer, ident, disk, cmdq>>
    /\ UNCHANGED <<netVars, evq, attempts, inChat, signedOut>>

ClickReconnectSaved ==
    /\ OnConnectForm /\ CanClick
    /\ ident = "account"
    /\ RefreshSession
    /\ signedOut' = FALSE
    /\ UNCHANGED <<netVars, evq, attempts, inChat>>

\* Cancel on the waiting page, Disconnect in the settings.
ClickDisconnect ==
    /\ CanClick
    /\ OnWaitingPage \/ conn = "Registered"
    /\ intentional' = TRUE
    /\ ClearSession
    /\ cmdq' = Append(cmdq, "Quit")
    /\ UNCHANGED <<netVars, evq, ident, disk, signedOut>>

\* "Clear saved account" on the connect form, Logout in the settings, "Forget
\* saved guest": quit, AppState::logout = clear_session + clear_auth.
ClickLogout ==
    /\ CanClick
    /\ \/ OnConnectForm /\ ident # "none"
       \/ conn = "Registered" /\ (ident # "none" \/ disk = "guest")
    /\ intentional' = TRUE
    /\ ClearSession
    /\ ident' = "none" /\ disk' = "none"
    /\ cmdq' = Append(cmdq, "Quit")
    /\ signedOut' = TRUE
    /\ UNCHANGED <<netVars, evq>>

\* The phone layout keeps an open chat on screen through a dropped connection.
OpenChat ==
    /\ conn = "Registered" /\ ~inChat
    /\ inChat' = TRUE
    /\ UNCHANGED <<netVars, cmdq, evq, conn, intentional, attempts, timer, oauth,
                   ident, disk, signedOut>>

CloseChat ==
    /\ inChat
    /\ inChat' = FALSE
    /\ UNCHANGED <<netVars, cmdq, evq, conn, intentional, attempts, timer, oauth,
                   ident, disk, signedOut>>

\* The composer does not look at the connection before it sends.
SendMessage ==
    /\ inChat /\ CanClick /\ "Send" \notin ToSet(cmdq)
    /\ cmdq' = Append(cmdq, "Send")
    /\ UNCHANGED <<uiVars, netVars, evq, signedOut>>

\* SleekApp::poll_auto_reconnect once the deadline has passed.
ReconnectTimerFires ==
    /\ timer
    /\ \/ /\ conn # "Disconnected"
          /\ timer' = FALSE
          /\ UNCHANGED <<conn, intentional, attempts, oauth, ident, disk, cmdq>>
       \/ /\ conn = "Disconnected" /\ intentional
          /\ CancelReconnect
          /\ UNCHANGED <<conn, intentional, oauth, ident, disk, cmdq>>
       \/ /\ conn = "Disconnected" /\ ~intentional /\ CanClick
          /\ IF ident = "account" THEN RefreshSession ELSE ConnectAsGuest
          /\ UNCHANGED attempts
    /\ UNCHANGED <<netVars, evq, inChat, signedOut>>

---------------------------------------------------------------------------
(* UI thread: SleekApp::handle_net_event and handle_sdk_event              *)

Take(e) == evq # <<>> /\ Head(evq) = e /\ evq' = Tail(evq)

OnConnected ==
    /\ Take("Connected")
    /\ conn' = "Connected"
    /\ UNCHANGED <<netVars, cmdq, intentional, attempts, timer, oauth, ident, disk,
                   inChat, signedOut>>

OnAuthenticated ==
    /\ Take("Authenticated")
    /\ ident' = IF ident = "none" THEN "did" ELSE ident
    /\ disk' = IF ident = "account" THEN "account" ELSE disk
    /\ UNCHANGED <<netVars, cmdq, conn, intentional, attempts, timer, oauth, inChat, signedOut>>

OnAuthFailed ==
    /\ Take("AuthFailed")
    /\ UNCHANGED <<uiVars, netVars, cmdq, signedOut>>

\* Registered under a Guest nick although a DID is known: the web-token was
\* stale, so quit and refresh the broker session.
StaleToken == Head(evq) = "RegisteredGuest" /\ ident # "none"

OnRegistered ==
    /\ Take("Registered") \/ Take("RegisteredGuest")
    /\ ~StaleToken
    /\ conn' = "Registered" /\ intentional' = FALSE
    /\ CancelReconnect
    /\ disk' = Persisted
    /\ UNCHANGED <<netVars, cmdq, oauth, ident, inChat, signedOut>>

OnStaleToken ==
    /\ Take("RegisteredGuest")
    /\ StaleToken
    /\ IF ident = "account"
       THEN /\ conn' = "Connecting" /\ intentional' = FALSE /\ timer' = FALSE
            /\ cmdq' = cmdq \o <<"Quit", "Refresh">>
       ELSE /\ conn' = "Disconnected" /\ intentional' = TRUE
            /\ cmdq' = Append(cmdq, "Quit")
            /\ UNCHANGED timer
    /\ UNCHANGED <<netVars, attempts, oauth, ident, disk, inChat, signedOut>>

\* Event::Disconnected: an expected one clears the session unless a new
\* attempt is already on its way; a drop keeps the buffers and backs off.
OnDisconnected ==
    /\ Take("EOF") \/ Take("QuitDone")
    /\ intentional' = FALSE
    /\ LET expected == intentional \/ Head(evq) = "QuitDone" IN
       \/ /\ expected /\ conn = "Connecting"
          /\ UNCHANGED <<conn, attempts, timer, oauth, inChat>>
       \/ /\ expected /\ conn # "Connecting"
          /\ ClearSession
       \/ /\ ~expected
          /\ conn' = "Disconnected" /\ oauth' = FALSE
          /\ Schedule
          /\ UNCHANGED inChat
    /\ UNCHANGED <<netVars, cmdq, ident, disk, signedOut>>

OnAuthReady ==
    /\ Take("AuthReady")
    /\ ApplyTokens
    /\ UNCHANGED <<netVars, attempts, inChat, signedOut>>

\* NetEvent::Failed, whatever failed.
OnFailed ==
    /\ Take("FailedAttempt") \/ Take("FailedSend")
    /\ oauth' = FALSE
    /\ conn' = IF conn = "Connecting" THEN "Disconnected" ELSE conn
    /\ IF ~intentional /\ attempts > 0 /\ ~timer
       THEN Schedule
       ELSE UNCHANGED <<attempts, timer>>
    /\ UNCHANGED <<netVars, cmdq, intentional, ident, disk, inChat, signedOut>>

---------------------------------------------------------------------------
(* Net thread: network_loop and apply_cmd                                  *)

Post(e) == Len(evq) < MaxEvents /\ evq' = Append(evq, e)

\* ClientHandle::quit, or a handle dropped: nobody reads that task any more.
DropHandle == sdk' = "none" /\ sasl' = FALSE /\ sdkq' = <<>>

NetForwardsEvent ==
    /\ busy = "idle" /\ sdkq # <<>>
    /\ Post(Head(sdkq))
    /\ IF Head(sdkq) = "EOF"
       THEN DropHandle
       ELSE sdkq' = Tail(sdkq) /\ UNCHANGED <<sdk, sasl>>
    /\ UNCHANGED <<uiVars, cmdq, busy, signedOut>>

\* The select is biased: a command is read only when no SDK event waits.
NextCommand(c) ==
    /\ busy = "idle" /\ sdkq = <<>>
    /\ cmdq # <<>> /\ Head(cmdq) = c
    /\ cmdq' = Tail(cmdq)

NetAwaitsBroker(c, b) ==
    /\ NextCommand(c)
    /\ busy' = b
    /\ UNCHANGED <<uiVars, sdk, sasl, sdkq, evq, signedOut>>

\* do_connect first quits the previous session, then awaits the socket.
NetDials(c, b) ==
    /\ NextCommand(c)
    /\ DropHandle
    /\ busy' = b
    /\ UNCHANGED <<uiVars, evq, signedOut>>

NetSends ==
    /\ NextCommand("Send")
    /\ IF sdk = "none" THEN Post("FailedSend") ELSE UNCHANGED evq
    /\ UNCHANGED <<uiVars, netVars, signedOut>>

\* Slips: answering a Quit only when there was a session to end; telling the
\* UI about the end of a session that is left running.
NetQuitsIfConnected ==
    /\ NextCommand("Quit")
    /\ DropHandle
    /\ IF sdk = "none" THEN UNCHANGED evq ELSE Post("QuitDone")
    /\ UNCHANGED <<uiVars, busy, signedOut>>
NetQuitsInNameOnly ==
    /\ NextCommand("Quit")
    /\ Post("QuitDone")
    /\ UNCHANGED <<uiVars, netVars, signedOut>>

NetQuits ==
    /\ NextCommand("Quit")
    /\ DropHandle
    /\ Post("QuitDone")
    /\ UNCHANGED <<uiVars, busy, signedOut>>

\* On Android the login only opens the browser; the deep link does the rest.
BrokerAnswers ==
    /\ busy \in {"refresh", "login"}
    /\ IF Mobile /\ busy = "login" THEN UNCHANGED evq ELSE Post("AuthReady")
    /\ busy' = "idle"
    /\ UNCHANGED <<uiVars, sdk, sasl, sdkq, cmdq, signedOut>>

\* Slip: an error of the broker that is logged and not reported.
BrokerFailsSilently ==
    /\ busy \in {"refresh", "login"}
    /\ busy' = "idle"
    /\ UNCHANGED <<uiVars, sdk, sasl, sdkq, cmdq, evq, signedOut>>

BrokerFails ==
    /\ busy \in {"refresh", "login"}
    /\ Post("FailedAttempt")
    /\ busy' = "idle"
    /\ UNCHANGED <<uiVars, sdk, sasl, sdkq, cmdq, signedOut>>

DialSucceeds ==
    /\ busy \in {"dialGuest", "dialToken"}
    /\ sdk' = "new" /\ sasl' = (busy = "dialToken") /\ sdkq' = <<>>
    /\ busy' = "idle"
    /\ UNCHANGED <<uiVars, cmdq, evq, signedOut>>

\* Slip: the same for the socket.
DialFailsSilently ==
    /\ busy \in {"dialGuest", "dialToken"}
    /\ busy' = "idle"
    /\ UNCHANGED <<uiVars, sdk, sasl, sdkq, cmdq, evq, signedOut>>

DialFails ==
    /\ busy \in {"dialGuest", "dialToken"}
    /\ Post("FailedAttempt")
    /\ busy' = "idle"
    /\ UNCHANGED <<uiVars, sdk, sasl, sdkq, cmdq, signedOut>>

---------------------------------------------------------------------------
(* SDK task and server: connect_with_stream and run_irc                    *)

Emit(from, to, e) ==
    /\ sdk \in from /\ Len(sdkq) < SdkAhead
    /\ sdk' = to
    /\ sdkq' = Append(sdkq, e)
    /\ UNCHANGED <<uiVars, cmdq, evq, busy, sasl, signedOut>>

SdkStarts        == Emit({"new"}, "open", "Connected")
SdkAuthenticates == sasl /\ Emit({"open"}, "answered", "Authenticated")
SdkAuthRejected  == sasl /\ Emit({"open"}, "answered", "AuthFailed")
\* The SDK takes the server's 001 whenever it comes and with whatever nick it
\* carries; a Guest nick is the usual end of a failed SASL exchange.
SdkRegisters      == Emit(Unregistered, "reg", "Registered")
SdkRegistersGuest == Emit(Unregistered, "reg", "RegisteredGuest")
\* EOF, ping timeout, nick in use, I/O error: any reason but "quit".
SdkDies == Emit(Unregistered \cup {"reg"}, "dead", "EOF")

---------------------------------------------------------------------------
(* The process is killed and started again: only session.json survives.    *)
Restart ==
    /\ \E b \in Boots(disk) :
          /\ conn' = b.conn /\ ident' = b.ident /\ disk' = b.disk /\ cmdq' = b.cmdq
          /\ signedOut' = (signedOut /\ b # LinkBoot)
    /\ intentional' = FALSE /\ attempts' = 0 /\ timer' = FALSE
    /\ oauth' = FALSE /\ inChat' = FALSE
    /\ busy' = "idle" /\ evq' = <<>> /\ DropHandle

Init ==
    /\ \E d \in Disks : \E b \in Boots(d) :
          conn = b.conn /\ ident = b.ident /\ disk = b.disk /\ cmdq = b.cmdq
    /\ intentional = FALSE /\ attempts = 0 /\ timer = FALSE
    /\ oauth = FALSE /\ inChat = FALSE
    /\ busy = "idle" /\ sdk = "none" /\ sasl = FALSE /\ sdkq = <<>>
    /\ evq = <<>>
    /\ signedOut = FALSE

User == \/ ClickConnectGuest \/ ClickLogin \/ ClickApplyCallback
        \/ ClickReconnectSaved \/ ClickDisconnect \/ ClickLogout
        \/ DeepLinkArrives \/ OpenChat \/ CloseChat \/ SendMessage

UiEvents == \/ OnConnected \/ OnAuthenticated \/ OnAuthFailed \/ OnRegistered
            \/ OnStaleToken \/ OnDisconnected \/ OnAuthReady \/ OnFailed

NetCommands == \/ NetAwaitsBroker("Refresh", "refresh")
               \/ NetAwaitsBroker("Login", "login")
               \/ NetDials("ConnectGuest", "dialGuest")
               \/ NetDials("ConnectToken", "dialToken")
               \/ NetSends \/ NetQuits

Broker == BrokerAnswers \/ BrokerFails
Dial   == DialSucceeds \/ DialFails

Sdk == \/ SdkStarts \/ SdkAuthenticates \/ SdkAuthRejected
       \/ SdkRegisters \/ SdkRegistersGuest \/ SdkDies

\* Every step of a process that keeps running.
Step == \/ User \/ ReconnectTimerFires \/ UiEvents
        \/ NetForwardsEvent \/ NetCommands \/ Broker \/ Dial \/ Sdk

Next == Step \/ Restart

Spec == Init /\ [][Next]_vars

\* The UI drains its events every frame and looks at its deadline there; the
\* net loop never stops; the broker and the socket answer or time out; a
\* spawned SDK task runs.  Strong fairness: the deadline is not missed for
\* good because commands keep waiting (a bound of the model), and a network
\* that is tried for ever works once.  The user and the server owe nothing.
Fairness ==
    /\ WF_vars(UiEvents) /\ SF_vars(ReconnectTimerFires)
    /\ WF_vars(NetForwardsEvent) /\ WF_vars(NetCommands)
    /\ WF_vars(Broker) /\ WF_vars(Dial)
    /\ SF_vars(BrokerAnswers) /\ SF_vars(DialSucceeds) /\ SF_vars(SdkStarts)

\* One life of the process: a restart is one more initial state.
LiveSpec == Init /\ [][Step]_vars /\ Fairness

---------------------------------------------------------------------------
(* Properties                                                              *)

\* A registered session has no count of failures left over from the outage
\* it ended, and a deadline is armed only after a failure: otherwise a later
\* hiccup would start at a 30 s backoff, or redial over a working session.
BackoffSettled ==
    /\ conn = "Registered" => attempts = 0
    /\ timer => attempts > 0

\* The flag that tells an expected end of the session from a drop is up only
\* while the matching Quit is still on its way.  Left up, it would swallow the
\* next real drop and the app would not reconnect.
IntentionalIsBacked ==
    intentional => "Quit" \in ToSet(cmdq) \/ "QuitDone" \in ToSet(evq)

\* session.json never holds an account that memory has given up: a restart
\* cannot sign the user back in to an account he left.
DiskBacked == disk = "account" => ident = "account"

\* No work is left anywhere: both queues are empty, the net thread waits for
\* a command and the SDK has nothing to say yet.
AtRest == cmdq = <<>> /\ evq = <<>> /\ sdkq = <<>> /\ busy = "idle" /\ sdk # "new"

\* The waiting page, as long as it says Connecting, always waits for something.
\* On a phone that something may be the browser.  (At Connected it may wait for
\* nothing after a superseded attempt: see RecoveryCompletes.)
NoHang == AtRest /\ conn = "Connecting" => Mobile /\ oauth

\* No session lives behind the user's back: at rest, a session the net thread
\* holds is the one the UI shows, at the stage the UI shows.
NoHiddenSession ==
    AtRest /\ sdk # "none" =>
        /\ sdk = "reg" => conn = "Registered"
        /\ sdk \in Unregistered => conn = "Connected"

\* While the UI shows Disconnected and counts failures, the next attempt is
\* armed or under way: the backoff cannot be lost between two events.
RecoveryNeverStalls == AtRest /\ attempts > 0 /\ conn = "Disconnected" => timer

\* The waiting page is left again, one way or the other.
ConnectingEnds == conn = "Connecting" ~> conn # "Connecting"

\* An attempt waits behind one that is under way or whose session is not
\* registered yet: it will replace that session, whose late Connected may then
\* stay on the screen when the new attempt fails.
Superseding ==
    /\ ToSet(cmdq) \cap Attempts # {}
    /\ \/ busy # "idle" \/ sdk \in {"new"} \cup Unregistered
       \/ \E i, j \in 1..Len(cmdq) : i # j /\ {cmdq[i], cmdq[j]} \subseteq Attempts

\* An armed reconnect brings up a session, whatever the screen shows meanwhile,
\* unless it is called off: the deadline is not lost between two failures
\* (poll_auto_reconnect, "should keep backing off", app.rs:445).  In a behaviour
\* in which one attempt supersedes another it can be lost (app.rs:305).
RecoveryCompletes ==
    []~Superseding => (timer ~> sdk \in Unregistered \cup {"reg"} \/ attempts = 0)

---------------------------------------------------------------------------
(* What a comment of the code says and the code does not do.               *)

\* After a full sign-out no account comes back by itself.
LogoutSticks == signedOut => ident # "account" /\ disk # "account"
=============================================================================
