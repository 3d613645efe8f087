------------------------ MODULE SleekSession_proofs ------------------------
(***************************************************************************)
(* Theorems about SleekSession for every value of its constants: however   *)
(* many commands and events are in flight.                                 *)
(***************************************************************************)
EXTENDS SleekSession, QueueFacts, TLAPS

---------------------------------------------------------------------------
(* Type correctness                                                        *)

\* What may be sent over the three queues; Commands and Events stay folded below.
LEMMA Names ==
    /\ "ConnectGuest" \in Commands /\ "ConnectToken" \in Commands /\ "Refresh" \in Commands
    /\ "Login" \in Commands /\ "Send" \in Commands /\ "Quit" \in Commands
    /\ \A e \in SdkEvents : e \in Events
    /\ "QuitDone" \in Events /\ "AuthReady" \in Events
    /\ "FailedAttempt" \in Events /\ "FailedSend" \in Events
    /\ "Connected" \in SdkEvents /\ "Authenticated" \in SdkEvents /\ "AuthFailed" \in SdkEvents
    /\ "Registered" \in SdkEvents /\ "RegisteredGuest" \in SdkEvents /\ "EOF" \in SdkEvents
  BY DEF Commands, Attempts, Events, SdkEvents

BootRecords == [conn : ConnStates, ident : Idents, disk : Disks, cmdq : Seq(Commands)]

\* However the process is launched, it starts with values of the right kind.
LEMMA BootType == ASSUME NEW d \in Disks, NEW b \in Boots(d) PROVE b \in BootRecords
<1> USE DEF BootRecords, ConnStates, Idents, Disks
<1>1. <<"Refresh">> \in Seq(Commands) /\ <<"ConnectGuest">> \in Seq(Commands)
      /\ <<"ConnectToken">> \in Seq(Commands) /\ <<>> \in Seq(Commands)
  BY Names
<1>2. SavedBoot(d) \in BootRecords
  BY <1>1 DEF SavedBoot
<1>3. LinkBoot \in BootRecords
  BY <1>1 DEF LinkBoot
<1>4. BadLinkBoot(d) \in BootRecords
  BY <1>1, <1>2 DEF BadLinkBoot
<1> QED BY <1>2, <1>3, <1>4 DEF Boots

---------------------------------------------------------------------------
(* How each process moves the queues.  Every later proof uses these and    *)
(* not the actions when all it needs of a step is what it sent and read.   *)

LEMMA UserQueues == User => Grows(cmdq, cmdq', Commands) /\ UNCHANGED <<evq, sdkq>>
  BY Names, ZenonT(30)
     DEF Grows, User, ClickConnectGuest, ClickLogin, ClickApplyCallback, ClickReconnectSaved,
         ClickDisconnect, ClickLogout, DeepLinkArrives, OpenChat, CloseChat, SendMessage,
         ConnectAsGuest, StartConnect, ApplyTokens, RefreshSession, uiVars, netVars

LEMMA TimerQueues ==
    ReconnectTimerFires => Grows(cmdq, cmdq', Commands) /\ UNCHANGED <<evq, sdkq>>
  BY Names, Zenon DEF Grows, ReconnectTimerFires, RefreshSession, ConnectAsGuest,
                      StartConnect, netVars

LEMMA UiQueues ==
    UiEvents => /\ evq # <<>> /\ evq' = Tail(evq) /\ UNCHANGED sdkq
                /\ Grows(cmdq, cmdq', Commands) \/ cmdq' = cmdq \o <<"Quit", "Refresh">>
  BY Names, ZenonT(30)
     DEF UiEvents, OnConnected, OnAuthenticated, OnAuthFailed, OnRegistered, OnStaleToken,
         OnDisconnected, OnAuthReady, OnFailed, Take, Grows, ApplyTokens, StartConnect, netVars

LEMMA ForwardQueues ==
    ASSUME sdkq \in Seq(SdkEvents), NetForwardsEvent
    PROVE  Grows(evq, evq', Events) /\ UNCHANGED cmdq /\ (sdkq' = <<>> \/ sdkq' = Tail(sdkq))
<1>1. Head(sdkq) \in Events
  BY Names DEF NetForwardsEvent
<1> QED BY <1>1, Zenon DEF NetForwardsEvent, Post, DropHandle, Grows

LEMMA CommandQueues ==
    NetCommands => /\ cmdq # <<>> /\ cmdq' = Tail(cmdq)
                   /\ Grows(evq, evq', Events)
                   /\ Head(cmdq) = "Quit" => evq' = Append(evq, "QuitDone")
                   /\ sdkq' = <<>> \/ sdkq' = sdkq
<1> SUFFICES ASSUME NetCommands
             PROVE  /\ cmdq # <<>> /\ cmdq' = Tail(cmdq)
                    /\ Grows(evq, evq', Events)
                    /\ Head(cmdq) = "Quit" => evq' = Append(evq, "QuitDone")
                    /\ sdkq' = <<>> \/ sdkq' = sdkq
  OBVIOUS
<1> USE DEF NextCommand, Grows, DropHandle, Post
<1>1. CASE NetAwaitsBroker("Refresh", "refresh") \/ NetAwaitsBroker("Login", "login")
  BY <1>1 DEF NetAwaitsBroker
<1>2. CASE NetDials("ConnectGuest", "dialGuest") \/ NetDials("ConnectToken", "dialToken")
  BY <1>2 DEF NetDials
<1>3. CASE NetSends
  BY <1>3, Names DEF NetSends, netVars
<1>4. CASE NetQuits
  BY <1>4, Names, Zenon DEF NetQuits
<1> QED BY <1>1, <1>2, <1>3, <1>4 DEF NetCommands

LEMMA WaitQueues ==
    Broker \/ Dial => /\ Grows(evq, evq', Events) /\ UNCHANGED cmdq
                      /\ sdkq' = <<>> \/ sdkq' = sdkq
  BY Names, Zenon DEF Broker, Dial, BrokerAnswers, BrokerFails, DialSucceeds, DialFails,
                      Post, Grows

LEMMA SdkQueues == Sdk => Grows(sdkq, sdkq', SdkEvents) /\ UNCHANGED <<evq, cmdq>>
  BY Names, Zenon DEF Grows, Sdk, SdkStarts, SdkAuthenticates, SdkAuthRejected, SdkRegisters,
                      SdkRegistersGuest, SdkDies, Emit

---------------------------------------------------------------------------
(* Type correctness, in three parts that are proved apart: the queues, the *)
(* Booleans, and the rest.                                                 *)

Queues  == cmdq \in Seq(Commands) /\ evq \in Seq(Events) /\ sdkq \in Seq(SdkEvents)
Flags   == /\ intentional \in BOOLEAN /\ timer \in BOOLEAN
           /\ oauth \in BOOLEAN /\ inChat \in BOOLEAN /\ sasl \in BOOLEAN
           /\ signedOut \in BOOLEAN
Scalars == /\ conn \in ConnStates /\ attempts \in 0..MaxAttempts
           /\ ident \in Idents /\ disk \in Disks
           /\ busy \in Busy /\ sdk \in SdkStates

LEMMA TypeSplit == TypeOK <=> Queues /\ Flags /\ Scalars
  BY Zenon DEF TypeOK, Queues, Flags, Scalars

LEMMA InitType == Init => Queues /\ Flags /\ Scalars
<1> SUFFICES ASSUME Init PROVE Queues /\ Flags /\ Scalars
  OBVIOUS
<1>1. PICK d \in Disks : \E b \in Boots(d) :
        conn = b.conn /\ ident = b.ident /\ disk = b.disk /\ cmdq = b.cmdq
  BY DEF Init
<1>2. /\ conn \in ConnStates /\ ident \in Idents
      /\ disk \in Disks /\ cmdq \in Seq(Commands)
  BY <1>1, BootType DEF BootRecords
<1>3. Queues
  BY <1>2 DEF Init, Queues
<1>4. Flags
  BY Zenon DEF Init, Flags
<1>5. Scalars
  BY <1>2, MaxAttemptsAssumption DEF Init, Scalars, Busy, SdkStates
<1> QED BY <1>3, <1>4, <1>5

\* What a launch makes of the variables, whatever was there before.
LEMMA RestartBoots ==
    ASSUME disk \in Disks, Restart
    PROVE  /\ \E b \in BootRecords :
                conn' = b.conn /\ ident' = b.ident /\ disk' = b.disk /\ cmdq' = b.cmdq
           /\ evq' = <<>> /\ sdkq' = <<>>
  BY BootType DEF Restart, DropHandle

LEMMA QueuesStep == Queues /\ disk \in Disks /\ Next => Queues'
<1> SUFFICES ASSUME Queues, disk \in Disks, Next PROVE Queues'
  OBVIOUS
<1> USE GrowsType, TailType DEF Queues
<1>0. <<>> \in Seq(SdkEvents)
  OBVIOUS
<1>1. CASE User \/ ReconnectTimerFires \/ Sdk
  BY <1>1, UserQueues, TimerQueues, SdkQueues
<1>2. CASE UiEvents
  <2>1. evq # <<>> /\ evq' = Tail(evq) /\ sdkq' = sdkq
    BY <1>2, UiQueues, Zenon
  <2>2. evq' \in Seq(Events) /\ sdkq' \in Seq(SdkEvents)
    BY <2>1
  <2>3. CASE Grows(cmdq, cmdq', Commands)
    BY <2>2, <2>3
  <2>4. CASE cmdq' = cmdq \o <<"Quit", "Refresh">>
    <3>1. cmdq' \in Seq(Commands)
      BY <2>4, Names
    <3> QED BY <2>2, <3>1
  <2> QED BY <1>2, <2>3, <2>4, UiQueues, Zenon
<1>3. CASE NetForwardsEvent
  <2>1. /\ Grows(evq, evq', Events) /\ cmdq' = cmdq /\ sdkq # <<>>
        /\ sdkq' = <<>> \/ sdkq' = Tail(sdkq)
    BY <1>3, ForwardQueues DEF NetForwardsEvent
  <2>2. evq' \in Seq(Events)
    BY <2>1
  <2>3. sdkq' \in Seq(SdkEvents)
    BY <2>1, <1>0, TailType, Zenon
  <2> QED BY <2>1, <2>2, <2>3
<1>4. CASE NetCommands
  <2>1. /\ cmdq # <<>> /\ cmdq' = Tail(cmdq)
        /\ Grows(evq, evq', Events)
        /\ sdkq' = <<>> \/ sdkq' = sdkq
    BY <1>4, CommandQueues, Zenon
  <2>2. evq' \in Seq(Events) /\ cmdq' \in Seq(Commands)
    BY <2>1
  <2>3. sdkq' \in Seq(SdkEvents)
    BY <2>1, <1>0, TailType, Zenon
  <2> QED BY <2>2, <2>3
<1>5. CASE Broker \/ Dial
  <2>1. /\ Grows(evq, evq', Events) /\ cmdq' = cmdq
        /\ sdkq' = <<>> \/ sdkq' = sdkq
    BY <1>5, WaitQueues, Zenon
  <2>2. evq' \in Seq(Events)
    BY <2>1
  <2>3. sdkq' \in Seq(SdkEvents)
    BY <2>1, <1>0, TailType, Zenon
  <2> QED BY <2>1, <2>2, <2>3
<1>6. CASE Restart
  <2>1. cmdq' \in Seq(Commands) /\ evq' = <<>> /\ sdkq' = <<>>
    BY <1>6, RestartBoots DEF BootRecords
  <2> QED BY <2>1
<1> QED BY <1>1, <1>2, <1>3, <1>4, <1>5, <1>6 DEF Next, Step

LEMMA FlagsStep == Flags /\ Next => Flags'
<1> SUFFICES ASSUME Flags, Next PROVE Flags'
  OBVIOUS
<1> USE DEF Flags, uiVars, netVars
<1>1. CASE User
  BY <1>1, ZenonT(30)
     DEF User, ClickConnectGuest, ClickLogin, ClickApplyCallback, ClickReconnectSaved,
         ClickDisconnect, ClickLogout, DeepLinkArrives, OpenChat, CloseChat, SendMessage,
         ConnectAsGuest, StartConnect, ApplyTokens, RefreshSession, ClearSession,
         CancelReconnect
<1>2. CASE ReconnectTimerFires
  BY <1>2, Zenon DEF ReconnectTimerFires, CancelReconnect, RefreshSession,
                     ConnectAsGuest, StartConnect
<1>3. CASE UiEvents
  BY <1>3, ZenonT(30)
     DEF UiEvents, OnConnected, OnAuthenticated, OnAuthFailed, OnRegistered, OnStaleToken,
         OnDisconnected, OnAuthReady, OnFailed, ClearSession, CancelReconnect, Schedule,
         ApplyTokens, StartConnect
<1>4. CASE NetForwardsEvent
  BY <1>4, Zenon DEF NetForwardsEvent, DropHandle
<1>5. CASE NetCommands
  BY <1>5, Zenon DEF NetCommands, NetAwaitsBroker, NetDials, NetSends, NetQuits, DropHandle
<1>6. CASE Broker \/ Dial
  BY <1>6, Zenon DEF Broker, Dial, BrokerAnswers, BrokerFails, DialSucceeds, DialFails
<1>7. CASE Sdk
  BY <1>7, Zenon DEF Sdk, SdkStarts, SdkAuthenticates, SdkAuthRejected, SdkRegisters,
                     SdkRegistersGuest, SdkDies, Emit
<1>8. CASE Restart
  BY <1>8, Zenon DEF Restart, DropHandle
<1> QED BY <1>1, <1>2, <1>3, <1>4, <1>5, <1>6, <1>7, <1>8, Zenon DEF Next, Step

LEMMA ScalarsStep == Scalars /\ Next => Scalars'
<1> SUFFICES ASSUME Scalars, Next PROVE Scalars'
  OBVIOUS
<1> USE MaxAttemptsAssumption
    DEF Scalars, ConnStates, Idents, Disks, uiVars, netVars, ClearSession, CancelReconnect,
        StartConnect, ApplyTokens, RefreshSession, ConnectAsGuest
<1>1. CASE User
  BY <1>1 DEF User, ClickConnectGuest, ClickLogin, ClickApplyCallback, ClickReconnectSaved,
              ClickDisconnect, ClickLogout, DeepLinkArrives, OpenChat, CloseChat, SendMessage
<1>2. CASE ReconnectTimerFires
  BY <1>2 DEF ReconnectTimerFires
<1>3. CASE UiEvents
  BY <1>3 DEF UiEvents, OnConnected, OnAuthenticated, OnAuthFailed, OnRegistered,
              OnStaleToken, OnDisconnected, OnAuthReady, OnFailed, Persisted, Schedule
<1>4. CASE NetForwardsEvent \/ NetCommands
  BY <1>4 DEF NetForwardsEvent, NetCommands, NetAwaitsBroker, NetDials, NetSends, NetQuits,
              DropHandle, Busy, SdkStates
<1>5. CASE Broker \/ Dial \/ Sdk
  BY <1>5 DEF Broker, Dial, BrokerAnswers, BrokerFails, DialSucceeds, DialFails, Sdk,
              SdkStarts, SdkAuthenticates, SdkAuthRejected, SdkRegisters, SdkRegistersGuest,
              SdkDies, Emit, Unregistered, Busy, SdkStates
<1>6. CASE Restart
  <2>1. conn' \in ConnStates /\ ident' \in Idents /\ disk' \in Disks
    BY <1>6, RestartBoots DEF BootRecords
  <2> QED BY <1>6, <2>1 DEF Restart, DropHandle, Busy, SdkStates
<1> QED BY <1>1, <1>2, <1>3, <1>4, <1>5, <1>6 DEF Next, Step

\* Every variable keeps its type: the count of attempts saturates, and each
\* queue carries only what its reader knows.
THEOREM TypeCorrect == Spec => []TypeOK
<1>1. Init => TypeOK
  BY InitType, TypeSplit
<1>2. TypeOK /\ [Next]_vars => TypeOK'
  <2> SUFFICES ASSUME TypeOK, [Next]_vars PROVE TypeOK'
    OBVIOUS
  <2>1. CASE Next
    <3>1. Queues' /\ Flags' /\ Scalars'
      BY <2>1, TypeSplit, QueuesStep, FlagsStep, ScalarsStep DEF Scalars
    <3> QED BY <3>1, Zenon DEF TypeOK, Queues, Flags, Scalars
  <2>2. CASE UNCHANGED vars
    BY <2>2, Zenon DEF TypeOK, vars, uiVars, netVars
  <2> QED BY <2>1, <2>2
<1> QED BY <1>1, <1>2, PTL DEF Spec

---------------------------------------------------------------------------
(* The backoff is settled                                                  *)

LEMMA BackoffStep == TypeOK /\ BackoffSettled /\ Next => BackoffSettled'
<1> SUFFICES ASSUME attempts \in Nat, BackoffSettled, Next PROVE BackoffSettled'
  BY MaxAttemptsAssumption DEF TypeOK
<1> USE DEF BackoffSettled, uiVars, netVars, ClearSession, CancelReconnect, StartConnect,
            ApplyTokens, RefreshSession, ConnectAsGuest
<1>1. CASE User
  BY <1>1 DEF User, ClickConnectGuest, ClickLogin, ClickApplyCallback, ClickReconnectSaved,
              ClickDisconnect, ClickLogout, DeepLinkArrives, OpenChat, CloseChat, SendMessage,
              OnConnectForm
<1>2. CASE ReconnectTimerFires
  BY <1>2 DEF ReconnectTimerFires
<1>3. CASE OnRegistered
  BY <1>3 DEF OnRegistered
<1>4. CASE OnDisconnected
  BY <1>4, MaxAttemptsAssumption DEF OnDisconnected, Schedule
<1>5. CASE OnFailed
  BY <1>5, MaxAttemptsAssumption DEF OnFailed, Schedule
<1>6. CASE OnConnected \/ OnAuthenticated \/ OnAuthFailed \/ OnStaleToken \/ OnAuthReady
  BY <1>6 DEF OnConnected, OnAuthenticated, OnAuthFailed, OnStaleToken, OnAuthReady
<1>7. CASE NetForwardsEvent \/ NetCommands \/ Broker \/ Dial \/ Sdk
  BY <1>7 DEF NetForwardsEvent, NetCommands, NetAwaitsBroker, NetDials, NetSends, NetQuits,
              Broker, Dial, BrokerAnswers, BrokerFails, DialSucceeds, DialFails, Sdk,
              SdkStarts, SdkAuthenticates, SdkAuthRejected, SdkRegisters, SdkRegistersGuest,
              SdkDies, Emit
<1>8. CASE Restart
  BY <1>8, Zenon DEF Restart
<1> QED BY <1>1, <1>2, <1>3, <1>4, <1>5, <1>6, <1>7, <1>8 DEF Next, Step, UiEvents

\* Whatever the order of drops, failures and late events, a registered session
\* owes no reconnect and no deadline is armed without a failure.
THEOREM BackoffCorrect == Spec => []BackoffSettled
<1>1. Init => BackoffSettled
  <2> SUFFICES ASSUME Init PROVE attempts = 0 /\ ~timer
    BY DEF BackoffSettled
  <2> QED BY Zenon DEF Init
<1>2. TypeOK /\ BackoffSettled /\ [Next]_vars => BackoffSettled'
  <2>1. BackoffSettled /\ UNCHANGED vars => BackoffSettled'
    BY DEF BackoffSettled, vars, uiVars
  <2> QED BY <2>1, BackoffStep
<1> QED BY <1>1, <1>2, TypeCorrect, PTL DEF Spec

---------------------------------------------------------------------------
(* The disk follows memory                                                 *)

LEMMA BootDisk ==
    ASSUME NEW d, NEW b \in Boots(d) PROVE b.disk = "account" => b.ident = "account"
<1>1. CASE b = SavedBoot(d)
  BY <1>1 DEF SavedBoot
<1>2. CASE b = LinkBoot
  BY <1>2 DEF LinkBoot
<1>3. CASE b = BadLinkBoot(d)
  BY <1>3 DEF BadLinkBoot, SavedBoot
<1> QED BY <1>1, <1>2, <1>3 DEF Boots

LEMMA DiskStep == DiskBacked /\ Next => DiskBacked'
<1> SUFFICES ASSUME DiskBacked, Next PROVE DiskBacked'
  OBVIOUS
<1> USE DEF DiskBacked, uiVars, netVars, ClearSession, CancelReconnect, StartConnect,
            ApplyTokens, RefreshSession, ConnectAsGuest
<1>1. CASE User
  BY <1>1 DEF User, ClickConnectGuest, ClickLogin, ClickApplyCallback, ClickReconnectSaved,
              ClickDisconnect, ClickLogout, DeepLinkArrives, OpenChat, CloseChat, SendMessage
<1>2. CASE ReconnectTimerFires
  BY <1>2 DEF ReconnectTimerFires
<1>3. CASE UiEvents
  BY <1>3 DEF UiEvents, OnConnected, OnAuthenticated, OnAuthFailed, OnRegistered,
              OnStaleToken, OnDisconnected, OnAuthReady, OnFailed, Persisted, Schedule
<1>4. CASE NetForwardsEvent \/ NetCommands \/ Broker \/ Dial \/ Sdk
  BY <1>4 DEF NetForwardsEvent, NetCommands, NetAwaitsBroker, NetDials, NetSends, NetQuits,
              Broker, Dial, BrokerAnswers, BrokerFails, DialSucceeds, DialFails, Sdk,
              SdkStarts, SdkAuthenticates, SdkAuthRejected, SdkRegisters, SdkRegistersGuest,
              SdkDies, Emit
<1>5. CASE Restart
  BY <1>5, BootDisk DEF Restart
<1> QED BY <1>1, <1>2, <1>3, <1>4, <1>5 DEF Next, Step

\* An account is never on disk without being in memory, so that a crash at any
\* point restarts into the account the user was in, or into none.
THEOREM DiskCorrect == Spec => []DiskBacked
<1>1. Init => DiskBacked
  BY BootDisk DEF Init, DiskBacked
<1>2. DiskBacked /\ [Next]_vars => DiskBacked'
  <2>1. DiskBacked /\ UNCHANGED vars => DiskBacked'
    BY Zenon DEF DiskBacked, vars, uiVars
  <2> QED BY <2>1, DiskStep
<1> QED BY <1>1, <1>2, PTL DEF Spec

---------------------------------------------------------------------------
(* The flag of an expected disconnect is backed by a Quit                  *)

QuitPending == "Quit" \in ToSet(cmdq) \/ "QuitDone" \in ToSet(evq)

\* Nothing but the UI's own handling of it makes a pending Quit disappear.
LEMMA QuitTravels ==
    ASSUME Queues, QuitPending, Next, ~Restart, ~OnDisconnected
    PROVE  QuitPending'
<1> USE DEF Queues, QuitPending
<1>1. CASE User \/ ReconnectTimerFires \/ Sdk
  <2>1. Grows(cmdq, cmdq', Commands) /\ evq' = evq
    BY <1>1, UserQueues, TimerQueues, SdkQueues, Zenon DEF Grows
  <2> QED BY <2>1, ToSetGrows
<1>2. CASE UiEvents
  <2>1. /\ evq # <<>> /\ evq' = Tail(evq) /\ Head(evq) # "QuitDone"
    BY <1>2, UiQueues DEF UiEvents, OnConnected, OnAuthenticated, OnAuthFailed,
       OnRegistered, OnStaleToken, OnAuthReady, OnFailed, Take
  <2>2. "QuitDone" \in ToSet(evq) => "QuitDone" \in ToSet(evq')
    BY <2>1, ToSetTail
  <2>3. "Quit" \in ToSet(cmdq) => "Quit" \in ToSet(cmdq')
    <3>1. CASE Grows(cmdq, cmdq', Commands)
      BY <3>1, ToSetGrows
    <3>2. CASE cmdq' = cmdq \o <<"Quit", "Refresh">>
      <4>1. Len(cmdq) + 1 \in DOMAIN cmdq' /\ cmdq'[Len(cmdq) + 1] = "Quit"
        BY <3>2, Names
      <4> QED BY <4>1 DEF ToSet
    <3> QED BY <1>2, <3>1, <3>2, UiQueues, Zenon
  <2> QED BY <2>2, <2>3
<1>3. CASE NetForwardsEvent \/ Broker \/ Dial
  <2>1. Grows(evq, evq', Events) /\ cmdq' = cmdq
    BY <1>3, ForwardQueues, WaitQueues, Zenon
  <2> QED BY <2>1, ToSetGrows
<1>4. CASE NetCommands
  <2>1. /\ cmdq # <<>> /\ cmdq' = Tail(cmdq) /\ Grows(evq, evq', Events)
        /\ Head(cmdq) = "Quit" => evq' = Append(evq, "QuitDone")
    BY <1>4, CommandQueues, Zenon
  <2>2. CASE Head(cmdq) = "Quit"
    <3>1. ToSet(evq') = ToSet(evq) \cup {"QuitDone"}
      <4>1. "QuitDone" \in Events
        BY Names
      <4>2. evq \in Seq(Events) /\ evq' = Append(evq, "QuitDone")
        BY <2>1, <2>2 DEF Queues
      <4> QED BY <4>1, <4>2, ToSetAppend
    <3> QED BY <3>1
  <2>3. CASE Head(cmdq) # "Quit"
    BY <2>1, <2>3, ToSetTail, ToSetGrows
  <2> QED BY <2>2, <2>3
<1> QED BY <1>1, <1>2, <1>3, <1>4 DEF Next, Step

\* Only a step that sends a Quit raises the flag.
LEMMA FlagNeedsQuit ==
    ASSUME Queues, Next, ~intentional, intentional'
    PROVE  QuitPending'
<1>1. cmdq' = Append(cmdq, "Quit")
  <2> USE DEF uiVars, netVars, ClearSession, CancelReconnect, StartConnect, ApplyTokens,
              RefreshSession, ConnectAsGuest
  <2>1. CASE User
    BY <2>1 DEF User, ClickConnectGuest, ClickLogin, ClickApplyCallback,
       ClickReconnectSaved, ClickDisconnect, ClickLogout, DeepLinkArrives, OpenChat,
       CloseChat, SendMessage
  <2>2. CASE ReconnectTimerFires
    BY <2>2 DEF ReconnectTimerFires
  <2>3. CASE UiEvents
    BY <2>3 DEF UiEvents, OnConnected, OnAuthenticated, OnAuthFailed, OnRegistered,
       OnStaleToken, OnDisconnected, OnAuthReady, OnFailed
  <2>4. CASE NetForwardsEvent \/ NetCommands \/ Broker \/ Dial \/ Sdk
    BY <2>4 DEF NetForwardsEvent, NetCommands, NetAwaitsBroker, NetDials, NetSends,
       NetQuits, Broker, Dial, BrokerAnswers, BrokerFails, DialSucceeds, DialFails, Sdk,
       SdkStarts, SdkAuthenticates, SdkAuthRejected, SdkRegisters, SdkRegistersGuest,
       SdkDies, Emit
  <2>5. CASE Restart
    BY <2>5 DEF Restart
  <2> QED BY <2>1, <2>2, <2>3, <2>4, <2>5 DEF Next, Step
<1>2. ToSet(cmdq') = ToSet(cmdq) \cup {"Quit"}
  BY <1>1, ToSetAppend, Names DEF Queues
<1> QED BY <1>2 DEF QuitPending

\* The flag cannot outlive the Quit it stands for: no drop that happens later
\* is ever taken for an expected one because of it.
THEOREM IntentionalCorrect == Spec => []IntentionalIsBacked
<1>1. Init => IntentionalIsBacked
  BY Zenon DEF Init, IntentionalIsBacked
<1>2. TypeOK /\ IntentionalIsBacked /\ [Next]_vars => IntentionalIsBacked'
  <2> SUFFICES ASSUME Queues, IntentionalIsBacked, [Next]_vars, intentional'
               PROVE  QuitPending'
    BY TypeSplit DEF IntentionalIsBacked, QuitPending
  <2>1. CASE UNCHANGED vars
    BY <2>1 DEF vars, uiVars, IntentionalIsBacked, QuitPending
  <2>2. CASE Next /\ ~intentional
    BY <2>2, FlagNeedsQuit
  <2>3. CASE Next /\ intentional
    <3>1. ~Restart /\ ~OnDisconnected
      BY Zenon DEF Restart, OnDisconnected
    <3>2. QuitPending
      BY <2>3 DEF IntentionalIsBacked, QuitPending
    <3> QED BY <2>3, <3>1, <3>2, QuitTravels
  <2> QED BY <2>1, <2>2, <2>3
<1> QED BY <1>1, <1>2, TypeCorrect, PTL DEF Spec

---------------------------------------------------------------------------
(* The waiting page waits for something.  While conn is Connecting either  *)
(* the browser owes a deep link, or an attempt is queued behind every      *)
(* Quit, or no Quit is left and what is under way will move the UI on.     *)

\* The commands that end in an event.  On a phone a Login ends in the browser.
Leads == IF Mobile THEN Attempts \ {"Login"} ELSE Attempts

LeadLast(q) ==
    \E i \in 1..Len(q) : q[i] \in Leads /\ \A j \in (i + 1)..Len(q) : q[j] # "Quit"

Movers == {"Connected", "AuthReady", "FailedAttempt"}

NetBusy  == busy # "idle" /\ ~(Mobile /\ busy = "login")
UnderWay == \/ NetBusy
            \/ sdk = "new"
            \/ "Connected" \in ToSet(sdkq)
            \/ \E e \in Movers : e \in ToSet(evq)

Waits == \/ Mobile /\ oauth
         \/ LeadLast(cmdq)
         \/ "Quit" \notin ToSet(cmdq) /\ UnderWay

WaitsInv == conn = "Connecting" => Waits

\* The end of a session is the last thing its task says.
EofLast == \A i \in 1..Len(sdkq) : sdkq[i] = "EOF" => i = Len(sdkq) /\ sdk = "dead"

LEMMA LeadAppend ==
    ASSUME NEW S, NEW q \in Seq(S), NEW e \in S, e \in Leads
    PROVE  LeadLast(Append(q, e))
<1>1. /\ Len(q) + 1 \in 1..Len(Append(q, e)) /\ Append(q, e)[Len(q) + 1] = e
      /\ (Len(q) + 1 + 1)..Len(Append(q, e)) = {}
  OBVIOUS
<1> QED BY <1>1 DEF LeadLast

LEMMA LeadKept ==
    ASSUME NEW S, NEW q \in Seq(S), NEW e \in S, e # "Quit", LeadLast(q)
    PROVE  LeadLast(Append(q, e))
<1> DEFINE r == Append(q, e)
<1>1. /\ Len(q) \in Nat /\ Len(r) = Len(q) + 1 /\ r[Len(q) + 1] = e
      /\ \A i \in 1..Len(q) : r[i] = q[i]
  OBVIOUS
<1>2. PICK i \in 1..Len(q) : q[i] \in Leads /\ \A j \in (i + 1)..Len(q) : q[j] # "Quit"
  BY DEF LeadLast
<1> HIDE DEF r
<1>3. \A j \in (i + 1)..Len(r) : r[j] # "Quit"
  <2> SUFFICES ASSUME NEW j \in (i + 1)..Len(r) PROVE r[j] # "Quit"
    OBVIOUS
  <2>1. CASE j = Len(q) + 1
    BY <1>1, <2>1
  <2>2. CASE j # Len(q) + 1
    <3>1. j \in (i + 1)..Len(q) /\ j \in 1..Len(q)
      BY <1>1, <1>2, <2>2
    <3> QED BY <1>1, <1>2, <3>1
  <2> QED BY <2>1, <2>2
<1>4. i \in 1..Len(r) /\ r[i] \in Leads
  BY <1>1, <1>2
<1>5. LeadLast(r)
  BY <1>3, <1>4 DEF LeadLast
<1> QED BY <1>5 DEF r

\* Taking a command keeps the attempt queued, or takes that very attempt and
\* then no Quit is left behind it.
LEMMA LeadTail ==
    ASSUME NEW S, NEW q \in Seq(S), q # <<>>, LeadLast(q)
    PROVE  \/ LeadLast(Tail(q))
           \/ Head(q) \in Leads /\ "Quit" \notin ToSet(Tail(q))
<1> DEFINE r == Tail(q)
<1>1. /\ Len(q) \in Nat /\ Len(q) > 0 /\ Len(r) = Len(q) - 1 /\ Head(q) = q[1]
      /\ DOMAIN r = 1..Len(r)
      /\ \A i \in 1..Len(r) : r[i] = q[i + 1]
  OBVIOUS
<1>2. PICK i \in 1..Len(q) : q[i] \in Leads /\ \A j \in (i + 1)..Len(q) : q[j] # "Quit"
  BY DEF LeadLast
<1> HIDE DEF r
<1>3. CASE i = 1
  <2>1. ASSUME NEW k \in 1..Len(r) PROVE r[k] # "Quit"
    <3>1. k + 1 \in (i + 1)..Len(q)
      BY <1>1, <1>3
    <3> QED BY <1>1, <1>2, <3>1
  <2>2. "Quit" \notin ToSet(r)
    BY <1>1, <2>1 DEF ToSet
  <2>3. Head(q) \in Leads /\ "Quit" \notin ToSet(r)
    BY <1>1, <1>2, <1>3, <2>2
  <2> QED BY <2>3 DEF r
<1>4. CASE i # 1
  <2>1. i - 1 \in 1..Len(r) /\ r[i - 1] \in Leads
    <3>1. i - 1 \in 1..Len(r) /\ (i - 1) + 1 = i
      BY <1>1, <1>4
    <3> QED BY <1>1, <1>2, <3>1
  <2>2. \A j \in ((i - 1) + 1)..Len(r) : r[j] # "Quit"
    <3> SUFFICES ASSUME NEW j \in ((i - 1) + 1)..Len(r) PROVE r[j] # "Quit"
      OBVIOUS
    <3>1. j \in 1..Len(r) /\ j + 1 \in (i + 1)..Len(q)
      BY <1>1, <1>4
    <3> QED BY <1>1, <1>2, <3>1
  <2>3. LeadLast(r)
    BY <2>1, <2>2 DEF LeadLast
  <2> QED BY <2>3 DEF r
<1> QED BY <1>3, <1>4

LEMMA LeadNames ==
    /\ "ConnectGuest" \in Leads /\ "ConnectToken" \in Leads /\ "Refresh" \in Leads
    /\ ~Mobile => "Login" \in Leads
    /\ Mobile => "Login" \notin Leads
    /\ "Send" \notin Leads /\ "Quit" \notin Leads
  BY DEF Leads, Attempts

LEMMA EofStep == Queues /\ EofLast /\ Next => EofLast'
<1> SUFFICES ASSUME Queues, EofLast, Next PROVE EofLast'
  OBVIOUS
<1>0. sdkq \in Seq(SdkEvents)
  BY DEF Queues
<1>1. CASE sdkq' = <<>>
  BY <1>1 DEF EofLast
<1>2. CASE UNCHANGED <<sdkq, sdk>>
  BY <1>2 DEF EofLast
<1>3. CASE sdkq # <<>> /\ sdkq' = Tail(sdkq) /\ sdk' = sdk
  <2> SUFFICES ASSUME NEW i \in 1..Len(sdkq'), sdkq'[i] = "EOF"
               PROVE  i = Len(sdkq') /\ sdk' = "dead"
    BY DEF EofLast
  <2>1. PICK n \in Nat : Len(sdkq) = n
    BY <1>0
  <2>2. n > 0 /\ Len(Tail(sdkq)) = n - 1 /\ \A k \in 1..(n - 1) : Tail(sdkq)[k] = sdkq[k + 1]
    BY <1>0, <1>3, <2>1
  <2>3. i \in 1..(n - 1) /\ Len(sdkq') = n - 1 /\ Tail(sdkq)[i] = "EOF"
    BY <1>3, <2>2
  <2>4. sdkq[i + 1] = "EOF" /\ i + 1 \in 1..n
    BY <2>2, <2>3
  <2>5. i + 1 = n /\ sdk = "dead"
    BY <2>1, <2>4 DEF EofLast
  <2> QED BY <1>3, <2>3, <2>5
<1>4. CASE Sdk
  <2>1. PICK e \in SdkEvents : /\ sdkq' = Append(sdkq, e)
                               /\ e = "EOF" => sdk' = "dead"
                               /\ sdk # "dead"
    BY <1>4, Names, Zenon DEF Sdk, SdkStarts, SdkAuthenticates, SdkAuthRejected, SdkRegisters,
                    SdkRegistersGuest, SdkDies, Emit, Unregistered
  <2> SUFFICES ASSUME NEW i \in 1..Len(sdkq'), sdkq'[i] = "EOF"
               PROVE  i = Len(sdkq') /\ sdk' = "dead"
    BY DEF EofLast
  <2>2. /\ Len(sdkq) \in Nat /\ Len(sdkq') = Len(sdkq) + 1 /\ sdkq'[Len(sdkq) + 1] = e
        /\ \A k \in 1..Len(sdkq) : sdkq'[k] = sdkq[k]
    BY <1>0, <2>1
  <2>3. CASE i = Len(sdkq) + 1
    BY <2>1, <2>2, <2>3
  <2>4. CASE i \in 1..Len(sdkq)
    BY <2>1, <2>2, <2>4 DEF EofLast
  <2> QED BY <2>2, <2>3, <2>4
<1>5. CASE User \/ ReconnectTimerFires \/ UiEvents
  <2>1. UNCHANGED <<sdkq, sdk>>
    BY <1>5, ZenonT(30) DEF User, ClickConnectGuest, ClickLogin, ClickApplyCallback,
       ClickReconnectSaved, ClickDisconnect, ClickLogout, DeepLinkArrives, OpenChat, CloseChat,
       SendMessage, ReconnectTimerFires, UiEvents, OnConnected, OnAuthenticated, OnAuthFailed,
       OnRegistered, OnStaleToken, OnDisconnected, OnAuthReady, OnFailed, netVars
  <2> QED BY <2>1, <1>2
<1>6. CASE NetForwardsEvent
  BY <1>6, <1>1, <1>3 DEF NetForwardsEvent, DropHandle
<1>7. CASE NetCommands \/ Broker \/ Dial
  BY <1>7, <1>1, <1>2 DEF NetCommands, NetAwaitsBroker, NetDials, NetSends, NetQuits, Broker,
     Dial, BrokerAnswers, BrokerFails, DialSucceeds, DialFails, DropHandle, netVars
<1>8. CASE Restart
  BY <1>8, <1>1 DEF Restart, DropHandle
<1> QED BY <1>4, <1>5, <1>6, <1>7, <1>8 DEF Next, Step

\* What the UI does while or so that conn is Connecting: it sends an attempt
\* last, or it leaves the page, what waits and the sign-in as they are.
WaitKept == /\ conn = "Connecting" /\ oauth' = oauth
            /\ cmdq' = cmdq \/ cmdq' = Append(cmdq, "Send")

LEMMA UserWaits ==
    ASSUME User \/ ReconnectTimerFires, conn' = "Connecting"
    PROVE  /\ UNCHANGED <<evq, sdkq, sdk, busy>>
           /\ \/ \E c \in Commands \cap Leads : cmdq' = Append(cmdq, c)
              \/ Mobile /\ oauth'
              \/ WaitKept
<1> USE Names, LeadNames
    DEF ConnectAsGuest, StartConnect, ApplyTokens, RefreshSession, ClearSession,
        CancelReconnect, WaitKept, uiVars, netVars
<1>1. CASE ClickConnectGuest \/ ClickApplyCallback \/ ClickReconnectSaved
  BY <1>1 DEF ClickConnectGuest, ClickApplyCallback, ClickReconnectSaved
<1>2. CASE ClickLogin
  BY <1>2 DEF ClickLogin
<1>3. CASE ClickDisconnect \/ ClickLogout
  BY <1>3 DEF ClickDisconnect, ClickLogout
<1>4. CASE DeepLinkArrives
  BY <1>4 DEF DeepLinkArrives
<1>5. CASE OpenChat \/ CloseChat \/ SendMessage
  BY <1>5 DEF OpenChat, CloseChat, SendMessage
<1>6. CASE ReconnectTimerFires
  BY <1>6 DEF ReconnectTimerFires
<1> QED BY <1>1, <1>2, <1>3, <1>4, <1>5, <1>6 DEF User

LEMMA UiWaits ==
    ASSUME UiEvents, conn' = "Connecting"
    PROVE  /\ UNCHANGED <<sdkq, sdk, busy>>
           /\ evq # <<>> /\ evq' = Tail(evq)
           /\ \/ \E c \in Commands \cap Leads : cmdq' = Append(cmdq, c)
              \/ cmdq' = cmdq \o <<"Quit", "Refresh">>
              \/ /\ conn = "Connecting" /\ oauth' = oauth /\ cmdq' = cmdq
                 /\ Head(evq) \notin Movers
<1> USE Names, LeadNames DEF StartConnect, ApplyTokens, ClearSession, CancelReconnect,
        Movers, Take, uiVars, netVars
<1>1. CASE OnConnected \/ OnRegistered
  BY <1>1 DEF OnConnected, OnRegistered
<1>2. CASE OnAuthenticated \/ OnAuthFailed
  BY <1>2 DEF OnAuthenticated, OnAuthFailed
<1>3. CASE OnStaleToken
  BY <1>3 DEF OnStaleToken
<1>4. CASE OnDisconnected
  BY <1>4 DEF OnDisconnected
<1>5. CASE OnAuthReady
  BY <1>5 DEF OnAuthReady
<1>6. CASE OnFailed
  BY <1>6 DEF OnFailed
<1> QED BY <1>1, <1>2, <1>3, <1>4, <1>5, <1>6 DEF UiEvents

\* Nothing the net thread or the SDK does while conn is Connecting lets the
\* last thing on its way disappear.
LEMMA UnderWayStep ==
    ASSUME TypeOK, EofLast, UnderWay, UNCHANGED <<cmdq, conn, oauth>>, 
           NetForwardsEvent \/ Broker \/ Dial \/ Sdk
    PROVE  (Mobile /\ oauth) \/ UnderWay'
<1>0. Queues
  BY TypeSplit
<1>1. ASSUME NEW e \in Movers, e \in ToSet(evq), Grows(evq, evq', Events) PROVE UnderWay'
  <2>1. e \in ToSet(evq')
    BY <1>0, <1>1, ToSetGrows DEF Queues
  <2> QED BY <2>1 DEF UnderWay
<1>2. CASE NetForwardsEvent
  <2>1. Grows(evq, evq', Events) /\ busy = "idle" /\ sdkq # <<>>
    BY <1>0, <1>2, ForwardQueues DEF NetForwardsEvent, Queues
  <2>2. CASE \E e \in Movers : e \in ToSet(evq)
    BY <2>1, <2>2, <1>1
  <2>3. Head(sdkq) = sdkq[1] /\ 1 \in 1..Len(sdkq)
    BY <1>0, <2>1 DEF Queues
  <2>4. CASE sdk = "new"
    <3>1. Head(sdkq) # "EOF"
      BY <2>3, <2>4 DEF EofLast
    <3> QED BY <1>2, <2>4, <3>1 DEF NetForwardsEvent, UnderWay
  <2>5. CASE "Connected" \in ToSet(sdkq)
    <3>1. Head(sdkq) # "EOF"
      <4> SUFFICES ASSUME Head(sdkq) = "EOF" PROVE FALSE
        OBVIOUS
      <4>1. Len(sdkq) = 1
        BY <2>3 DEF EofLast
      <4>2. PICK i \in 1..Len(sdkq) : sdkq[i] = "Connected"
        BY <1>0, <2>5 DEF ToSet, Queues
      <4> QED BY <2>3, <4>1, <4>2
    <3>2. CASE Head(sdkq) = "Connected"
      <4>1. evq' = Append(evq, "Connected")
        BY <1>2, <3>2 DEF NetForwardsEvent, Post
      <4>2. "Connected" \in ToSet(evq')
        BY <4>1, <1>0, Names, ToSetAppend DEF Queues
      <4> QED BY <4>2 DEF UnderWay, Movers
    <3>3. CASE Head(sdkq) # "Connected"
      <4>1. sdkq' = Tail(sdkq)
        BY <1>2, <3>1 DEF NetForwardsEvent
      <4>2. "Connected" \in ToSet(sdkq')
        BY <4>1, <1>0, <2>1, <2>5, <3>3, ToSetTail DEF Queues
      <4> QED BY <4>2 DEF UnderWay
    <3> QED BY <3>2, <3>3
  <2> QED BY <2>1, <2>2, <2>4, <2>5 DEF UnderWay, NetBusy
<1>3. CASE Broker
  <2>1. Grows(evq, evq', Events) /\ UNCHANGED <<sdk, sdkq>>
    BY <1>3, WaitQueues, Zenon DEF Broker, BrokerAnswers, BrokerFails
  <2>2. CASE \E e \in Movers : e \in ToSet(evq)
    BY <2>1, <2>2, <1>1
  <2>3. CASE sdk = "new" \/ "Connected" \in ToSet(sdkq)
    BY <2>1, <2>3 DEF UnderWay
  <2>4. CASE NetBusy
    <3>1. PICK e \in Movers : evq' = Append(evq, e)
      BY <1>3, <2>4 DEF Broker, BrokerAnswers, BrokerFails, NetBusy, Movers, Post
    <3>2. e \in Events
      BY Names DEF Movers
    <3>3. e \in ToSet(evq')
      BY <1>0, <3>1, <3>2, ToSetAppend DEF Queues
    <3> QED BY <3>3 DEF UnderWay
  <2> QED BY <2>2, <2>3, <2>4 DEF UnderWay
<1>4. CASE DialSucceeds
  BY <1>4 DEF DialSucceeds, UnderWay
<1>5. CASE DialFails
  <2>1. evq' = Append(evq, "FailedAttempt")
    BY <1>5 DEF DialFails, Post
  <2>2. "FailedAttempt" \in ToSet(evq')
    BY <1>0, <2>1, Names, ToSetAppend DEF Queues
  <2> QED BY <2>2 DEF UnderWay, Movers
<1>6. CASE Sdk
  <2>1. /\ Grows(sdkq, sdkq', SdkEvents) /\ evq' = evq /\ busy' = busy
    BY <1>6, SdkQueues, Zenon DEF Sdk, SdkStarts, SdkAuthenticates, SdkAuthRejected,
       SdkRegisters, SdkRegistersGuest, SdkDies, Emit
  <2>2. CASE NetBusy \/ \E e \in Movers : e \in ToSet(evq)
    BY <2>1, <2>2 DEF UnderWay, NetBusy
  <2>3. CASE "Connected" \in ToSet(sdkq)
    <3>1. "Connected" \in ToSet(sdkq')
      BY <1>0, <2>1, <2>3, ToSetGrows DEF Queues
    <3> QED BY <3>1 DEF UnderWay
  <2>4. CASE sdk = "new"
    <3>1. sdkq' = Append(sdkq, "Connected")
      BY <1>6, <2>4 DEF Sdk, SdkStarts, SdkAuthenticates, SdkAuthRejected, SdkRegisters,
                        SdkRegistersGuest, SdkDies, Emit, Unregistered
    <3>2. "Connected" \in ToSet(sdkq')
      BY <1>0, <3>1, Names, ToSetAppend DEF Queues
    <3> QED BY <3>2 DEF UnderWay
  <2> QED BY <2>2, <2>3, <2>4 DEF UnderWay
<1> QED BY <1>2, <1>3, <1>4, <1>5, <1>6 DEF Dial

\* Reading a command keeps the attempt queued or starts it.
LEMMA CommandWaits ==
    ASSUME TypeOK, NetCommands, Waits, UNCHANGED oauth
    PROVE  Waits'
<1>0. Queues
  BY TypeSplit
<1>1. /\ cmdq # <<>> /\ cmdq' = Tail(cmdq) /\ Grows(evq, evq', Events) /\ busy = "idle"
  BY <1>0, CommandQueues, Zenon DEF NetCommands, NetAwaitsBroker, NetDials, NetSends, NetQuits,
     NextCommand
<1>2. CASE Mobile /\ oauth
  BY <1>2 DEF Waits
<1>3. Head(cmdq) \in Leads => NetBusy'
  <2> USE LeadNames DEF NextCommand, NetBusy
  <2>1. CASE NetAwaitsBroker("Refresh", "refresh") \/ NetAwaitsBroker("Login", "login")
    BY <2>1 DEF NetAwaitsBroker
  <2>2. CASE NetDials("ConnectGuest", "dialGuest") \/ NetDials("ConnectToken", "dialToken")
    BY <2>2 DEF NetDials
  <2>3. CASE NetSends \/ NetQuits
    BY <2>3 DEF NetSends, NetQuits
  <2> QED BY <2>1, <2>2, <2>3 DEF NetCommands
<1>4. CASE LeadLast(cmdq)
  <2>1. CASE LeadLast(Tail(cmdq))
    BY <1>1, <2>1 DEF Waits, LeadLast
  <2>2. CASE Head(cmdq) \in Leads /\ "Quit" \notin ToSet(Tail(cmdq))
    BY <1>1, <1>3, <2>2 DEF Waits, UnderWay
  <2> QED BY <1>0, <1>1, <1>4, <2>1, <2>2, LeadTail DEF Queues
<1>5. CASE "Quit" \notin ToSet(cmdq) /\ UnderWay
  <2>1. "Quit" \notin ToSet(cmdq')
    <3> SUFFICES ASSUME "Quit" \in ToSet(cmdq') PROVE "Quit" \in ToSet(cmdq)
      BY <1>5
    <3>1. PICK i \in DOMAIN Tail(cmdq) : Tail(cmdq)[i] = "Quit"
      BY <1>1 DEF ToSet
    <3>2. i + 1 \in DOMAIN cmdq /\ cmdq[i + 1] = "Quit"
      BY <1>0, <1>1, <3>1 DEF Queues
    <3> QED BY <3>2 DEF ToSet
  <2>2. UnderWay'
    <3>1. CASE \E e \in Movers : e \in ToSet(evq)
      <4>1. PICK e \in Movers : e \in ToSet(evq)
        BY <3>1
      <4>2. e \in ToSet(evq')
        BY <1>0, <1>1, <4>1, ToSetGrows DEF Queues
      <4> QED BY <4>2 DEF UnderWay
    <3>2. CASE sdk = "new" \/ "Connected" \in ToSet(sdkq)
      <4>1. Head(cmdq) # "Quit"
        <5>1. 1 \in DOMAIN cmdq /\ Head(cmdq) = cmdq[1]
          BY <1>0, <1>1 DEF Queues
        <5> QED BY <1>5, <5>1 DEF ToSet
      <4>2. CASE Head(cmdq) \in Leads
        BY <4>2, <1>3 DEF UnderWay
      <4>3. CASE UNCHANGED <<sdk, sdkq>>
        BY <3>2, <4>3 DEF UnderWay
      <4>4. UNCHANGED <<sdk, sdkq>> \/ Head(cmdq) \in Leads \/ Head(cmdq) = "Quit"
        BY LeadNames DEF NetCommands, NetAwaitsBroker, NetDials, NetSends, NetQuits,
                         NextCommand, netVars
      <4> QED BY <4>1, <4>2, <4>3, <4>4
    <3> QED BY <1>1, <1>5, <3>1, <3>2 DEF UnderWay, NetBusy
  <2> QED BY <2>1, <2>2 DEF Waits
<1> QED BY <1>2, <1>4, <1>5 DEF Waits

LEMMA WaitsStep == TypeOK /\ EofLast /\ WaitsInv /\ Next => WaitsInv'
<1> SUFFICES ASSUME TypeOK, EofLast, WaitsInv, Next, conn' = "Connecting" PROVE Waits'
  BY DEF WaitsInv
<1>0. Queues
  BY TypeSplit
<1>1. ASSUME NEW c \in Commands \cap Leads, cmdq' = Append(cmdq, c) PROVE Waits'
  <2>1. LeadLast(cmdq')
    BY <1>0, <1>1, LeadAppend DEF Queues
  <2> QED BY <2>1 DEF Waits, LeadLast
<1>2. CASE User \/ ReconnectTimerFires
  <2>1. UNCHANGED <<evq, sdkq, sdk, busy>>
    BY <1>2, UserWaits
  <2>2. CASE \E c \in Commands \cap Leads : cmdq' = Append(cmdq, c)
    BY <2>2, <1>1
  <2>3. CASE Mobile /\ oauth'
    BY <2>3 DEF Waits
  <2>4. CASE WaitKept
    <3>1. Waits
      BY <2>4 DEF WaitKept, WaitsInv
    <3>2. UnderWay => UnderWay'
      BY <2>1 DEF UnderWay, NetBusy
    <3>3. CASE cmdq' = cmdq
      BY <2>4, <3>1, <3>2, <3>3 DEF Waits, LeadLast, WaitKept
    <3>4. CASE cmdq' = Append(cmdq, "Send")
      <4>1. "Send" \in Commands /\ "Send" # "Quit"
        BY Names
      <4>2. LeadLast(cmdq) => LeadLast(Append(cmdq, "Send"))
        BY <1>0, <4>1, LeadKept DEF Queues
      <4>3. LeadLast(cmdq) => LeadLast(cmdq')
        BY <3>4, <4>2
      <4>4. ToSet(cmdq') = ToSet(cmdq) \cup {"Send"}
        BY <1>0, <3>4, <4>1, ToSetAppend DEF Queues
      <4>5. CASE Mobile /\ oauth
        BY <2>4, <4>5 DEF Waits, WaitKept
      <4>6. CASE LeadLast(cmdq)
        BY <4>3, <4>6 DEF Waits, LeadLast
      <4>7. CASE "Quit" \notin ToSet(cmdq) /\ UnderWay
        BY <3>2, <4>4, <4>7 DEF Waits
      <4> QED BY <3>1, <4>5, <4>6, <4>7 DEF Waits
    <3> QED BY <2>4, <3>3, <3>4 DEF WaitKept
  <2> QED BY <1>2, <2>2, <2>3, <2>4, UserWaits
<1>3. CASE UiEvents
  <2>1. UNCHANGED <<sdkq, sdk, busy>> /\ evq # <<>> /\ evq' = Tail(evq)
    BY <1>3, UiWaits
  <2>2. CASE \E c \in Commands \cap Leads : cmdq' = Append(cmdq, c)
    BY <2>2, <1>1
  <2>3. CASE cmdq' = cmdq \o <<"Quit", "Refresh">>
    <3>1. cmdq' = Append(Append(cmdq, "Quit"), "Refresh")
      BY <1>0, <2>3 DEF Queues
    <3>2. Append(cmdq, "Quit") \in Seq(Commands) /\ "Refresh" \in Commands
      BY <1>0, Names DEF Queues
    <3>3. LeadLast(Append(Append(cmdq, "Quit"), "Refresh"))
      BY <3>2, LeadNames, LeadAppend
    <3> QED BY <3>1, <3>3 DEF Waits, LeadLast
  <2>4. CASE /\ conn = "Connecting" /\ oauth' = oauth /\ cmdq' = cmdq
             /\ Head(evq) \notin Movers
    <3>1. Waits
      BY <2>4 DEF WaitsInv
    <3>2. ASSUME NEW e \in Movers, e \in ToSet(evq) PROVE e \in ToSet(evq')
      BY <1>0, <2>1, <2>4, <3>2, ToSetTail DEF Queues
    <3>3. UnderWay => UnderWay'
      BY <2>1, <3>2 DEF UnderWay, NetBusy
    <3> QED BY <2>4, <3>1, <3>3 DEF Waits, LeadLast
  <2> QED BY <1>3, <2>2, <2>3, <2>4, UiWaits
<1>4. CASE NetForwardsEvent \/ Broker \/ Dial \/ Sdk
  <2>1. UNCHANGED <<cmdq, conn, oauth>>
    BY <1>4, Zenon DEF NetForwardsEvent, Broker, BrokerAnswers, BrokerFails, Dial, DialSucceeds,
       DialFails, Sdk, SdkStarts, SdkAuthenticates, SdkAuthRejected, SdkRegisters,
       SdkRegistersGuest, SdkDies, Emit, uiVars
  <2>2. Waits
    BY <2>1 DEF WaitsInv
  <2>3. UnderWay => ((Mobile /\ oauth) \/ UnderWay')
    BY <1>4, <2>1, UnderWayStep
  <2> QED BY <2>1, <2>2, <2>3 DEF Waits, LeadLast
<1>5. CASE NetCommands
  <2>1. UNCHANGED <<conn, oauth>>
    BY <1>5 DEF NetCommands, NetAwaitsBroker, NetDials, NetSends, NetQuits, uiVars
  <2> QED BY <1>5, <2>1, CommandWaits DEF WaitsInv
<1>6. CASE Restart
  <2>1. PICK b \in Boots(disk) : conn' = b.conn /\ cmdq' = b.cmdq
    BY <1>6 DEF Restart
  <2>2. PICK c \in Leads : cmdq' = <<c>>
    <3>1. CASE b = SavedBoot(disk)
      BY <2>1, <3>1, LeadNames, TypeSplit DEF SavedBoot, Scalars, Disks
    <3>2. CASE b = LinkBoot
      BY <2>1, <3>2, LeadNames DEF LinkBoot
    <3>3. CASE b = BadLinkBoot(disk)
      BY <2>1, <3>3 DEF BadLinkBoot, SavedBoot
    <3> QED BY <3>1, <3>2, <3>3 DEF Boots
  <2>3. LeadLast(<<c>>)
    BY DEF LeadLast
  <2> QED BY <2>2, <2>3 DEF Waits, LeadLast
<1> QED BY <1>2, <1>3, <1>4, <1>5, <1>6 DEF Next, Step

\* The waiting page never hangs: whatever was clicked, dropped, answered late
\* or failed in between, when nothing moves any more the user is not left
\* Connecting, but for a sign-in the browser of a phone still owes.
THEOREM NoHangCorrect == Spec => []NoHang
<1>1. Init => EofLast /\ WaitsInv
  <2> SUFFICES ASSUME Init PROVE EofLast /\ WaitsInv
    OBVIOUS
  <2>1. EofLast
    BY DEF Init, EofLast
  <2>2. PICK d \in Disks : \E b \in Boots(d) : conn = b.conn /\ cmdq = b.cmdq
    BY DEF Init
  <2>3. PICK b \in Boots(d) : conn = b.conn /\ cmdq = b.cmdq
    BY <2>2
  <2>4. conn = "Connecting" => \E c \in Leads : cmdq = <<c>>
    <3>1. CASE b = SavedBoot(d)
      BY <2>3, <3>1, LeadNames DEF SavedBoot, Disks
    <3>2. CASE b = LinkBoot
      BY <2>3, <3>2, LeadNames DEF LinkBoot
    <3>3. CASE b = BadLinkBoot(d)
      BY <2>3, <3>3 DEF BadLinkBoot, SavedBoot
    <3> QED BY <3>1, <3>2, <3>3 DEF Boots
  <2>5. ASSUME NEW c \in Leads PROVE LeadLast(<<c>>)
    BY DEF LeadLast
  <2> QED BY <2>1, <2>4, <2>5 DEF WaitsInv, Waits
<1>2. TypeOK /\ EofLast /\ WaitsInv /\ [Next]_vars => EofLast' /\ WaitsInv'
  <2> SUFFICES ASSUME TypeOK, EofLast, WaitsInv, [Next]_vars PROVE EofLast' /\ WaitsInv'
    OBVIOUS
  <2>1. CASE Next
    BY <2>1, TypeSplit, EofStep, WaitsStep
  <2>2. CASE UNCHANGED vars
    BY <2>2 DEF vars, uiVars, netVars, EofLast, WaitsInv, Waits, LeadLast, UnderWay, NetBusy
  <2> QED BY <2>1, <2>2
<1>3. WaitsInv => NoHang
  <2> SUFFICES ASSUME WaitsInv, AtRest, conn = "Connecting" PROVE Mobile /\ oauth
    BY DEF NoHang
  <2>1. ~LeadLast(cmdq) /\ ~UnderWay
    BY DEF AtRest, LeadLast, UnderWay, NetBusy, ToSet
  <2> QED BY <2>1 DEF WaitsInv, Waits
<1> QED BY <1>1, <1>2, <1>3, TypeCorrect, PTL DEF Spec

---------------------------------------------------------------------------
(* Recovery.  On the desktop the UI shows an outage without a deadline     *)
(* only when it has itself sent a Quit.  (On a phone a malformed deep link *)
(* ends a sign-in that was started during a recovery and arms nothing.)    *)

RecoveryInv == conn = "Disconnected" /\ attempts > 0 => timer \/ intentional

LEMMA RecoveryStep ==
    ASSUME ~Mobile, TypeOK, RecoveryInv, Next PROVE RecoveryInv'
<1>0. attempts \in Nat /\ MaxAttempts \in Nat
  BY MaxAttemptsAssumption DEF TypeOK
<1> USE DEF RecoveryInv, uiVars, netVars, ClearSession, CancelReconnect, StartConnect,
            ApplyTokens, RefreshSession, ConnectAsGuest
<1>1. CASE User
  BY <1>0, <1>1
     DEF User, ClickConnectGuest, ClickLogin, ClickApplyCallback, ClickReconnectSaved,
         ClickDisconnect, ClickLogout, DeepLinkArrives, OpenChat, CloseChat, SendMessage
<1>2. CASE ReconnectTimerFires
  BY <1>0, <1>2 DEF ReconnectTimerFires
<1>3. CASE OnConnected \/ OnAuthenticated \/ OnAuthFailed \/ OnRegistered \/ OnAuthReady
  BY <1>0, <1>3 DEF OnConnected, OnAuthenticated, OnAuthFailed, OnRegistered, OnAuthReady
<1>4. CASE OnStaleToken
  BY <1>0, <1>4 DEF OnStaleToken
<1>5. CASE OnDisconnected
  <2>1. timer' \/ attempts' = 0 \/ conn' = "Connecting"
    BY <1>5 DEF OnDisconnected, Schedule
  <2> QED BY <2>1
<1>6. CASE OnFailed
  BY <1>0, <1>6 DEF OnFailed, Schedule
<1>7. CASE NetForwardsEvent \/ NetCommands \/ Broker \/ Dial \/ Sdk
  BY <1>0, <1>7
     DEF NetForwardsEvent, NetCommands, NetAwaitsBroker, NetDials, NetSends, NetQuits,
         Broker, Dial, BrokerAnswers, BrokerFails, DialSucceeds, DialFails, Sdk, SdkStarts,
         SdkAuthenticates, SdkAuthRejected, SdkRegisters, SdkRegistersGuest, SdkDies, Emit
<1>8. CASE Restart
  <2>1. attempts' = 0
    BY <1>8, Zenon DEF Restart
  <2> QED BY <2>1
<1> QED BY <1>1, <1>2, <1>3, <1>4, <1>5, <1>6, <1>7, <1>8 DEF Next, Step, UiEvents

\* A desktop client that shows an outage it has counted redials by itself: no
\* order of late failures, expected ends and clicks loses the deadline.
THEOREM RecoveryCorrect == ASSUME ~Mobile PROVE Spec => []RecoveryNeverStalls
<1>1. Init => RecoveryInv
  <2>1. Init => attempts = 0
    BY Zenon DEF Init
  <2> QED BY <2>1 DEF RecoveryInv
<1>2. TypeOK /\ RecoveryInv /\ [Next]_vars => RecoveryInv'
  <2>1. RecoveryInv /\ UNCHANGED vars => RecoveryInv'
    BY DEF RecoveryInv, vars, uiVars
  <2> QED BY <2>1, RecoveryStep
<1>3. TypeOK /\ RecoveryInv /\ IntentionalIsBacked => RecoveryNeverStalls
  <2> SUFFICES ASSUME IntentionalIsBacked, RecoveryInv, AtRest, attempts > 0,
                      conn = "Disconnected"
               PROVE  timer
    BY DEF RecoveryNeverStalls
  <2>1. ~intentional
    BY DEF AtRest, IntentionalIsBacked, ToSet
  <2> QED BY <2>1 DEF RecoveryInv
<1> QED BY <1>1, <1>2, <1>3, TypeCorrect, IntentionalCorrect, PTL DEF Spec

---------------------------------------------------------------------------
(* No hidden session.  Unless a command that ends it is queued, the stage  *)
(* of the session the net thread holds is the last one the UI will have    *)
(* been told of: it is shown already, or the event that shows it is on its *)
(* way and nothing behind that event undoes it.                            *)

OpenHits == {"Connected"}
OpenEnds == {"EOF", "QuitDone", "Registered", "RegisteredGuest"}
RegHits  == {"Registered", "RegisteredGuest"}
RegEnds  == {"EOF", "QuitDone", "Connected"}

OpenSeen  == After(evq, OpenHits, OpenEnds, conn = "Connected")
OpenShown == After(sdkq, OpenHits, OpenEnds, OpenSeen)
RegSeen   == After(evq, RegHits, RegEnds, conn = "Registered")
RegShown  == After(sdkq, RegHits, RegEnds, RegSeen)

\* The commands whose handling drops the handle.
Drops == {"Quit", "ConnectGuest", "ConnectToken"}
Dropping == \E c \in Drops : c \in ToSet(cmdq)

StageShown == /\ sdk \in Unregistered => OpenShown
              /\ sdk = "reg" => RegShown

HiddenInv == Dropping \/ StageShown

\* A new command does not unqueue the one that ends the session.
LEMMA DropsKept ==
    ASSUME Queues, Dropping,
           Grows(cmdq, cmdq', Commands) \/ cmdq' = cmdq \o <<"Quit", "Refresh">>
    PROVE  Dropping'
<1>1. PICK c \in Drops : c \in ToSet(cmdq)
  BY DEF Dropping
<1>2. CASE Grows(cmdq, cmdq', Commands)
  <2>1. c \in ToSet(cmdq')
    BY <1>1, <1>2, ToSetGrows DEF Queues
  <2> QED BY <2>1 DEF Dropping
<1>3. CASE cmdq' = cmdq \o <<"Quit", "Refresh">>
  <2>1. Len(cmdq) + 1 \in DOMAIN cmdq' /\ cmdq'[Len(cmdq) + 1] = "Quit"
    BY <1>3, Names DEF Queues
  <2>2. "Quit" \in ToSet(cmdq')
    BY <2>1 DEF ToSet
  <2> QED BY <2>2 DEF Dropping, Drops
<1> QED BY <1>2, <1>3

LEMMA DropAppended ==
    ASSUME Queues, NEW c \in Drops, cmdq' = Append(cmdq, c) PROVE Dropping'
<1>1. c \in Commands
  BY Names DEF Drops
<1>2. c \in ToSet(cmdq')
  BY <1>1, ToSetAppend DEF Queues
<1> QED BY <1>2 DEF Dropping

\* The UI moves conn by itself only away from a stage that is not shown, or
\* with a command that ends the session.
LEMMA UserStage ==
    ASSUME User \/ ReconnectTimerFires
    PROVE  /\ UNCHANGED <<evq, sdkq, sdk>>
           /\ \/ conn' = conn
              \/ conn \notin {"Connected", "Registered"}
              \/ \E c \in Drops : cmdq' = Append(cmdq, c)
<1> USE DEF Drops, ConnectAsGuest, StartConnect, ApplyTokens, RefreshSession, ClearSession,
            CancelReconnect, uiVars, netVars, OnConnectForm
<1>1. CASE ClickConnectGuest \/ ClickApplyCallback \/ ClickReconnectSaved \/ ClickLogin
  BY <1>1 DEF ClickConnectGuest, ClickApplyCallback, ClickReconnectSaved, ClickLogin
<1>2. CASE ClickDisconnect \/ ClickLogout
  BY <1>2 DEF ClickDisconnect, ClickLogout
<1>3. CASE DeepLinkArrives
  BY <1>3 DEF DeepLinkArrives
<1>4. CASE OpenChat \/ CloseChat \/ SendMessage
  BY <1>4 DEF OpenChat, CloseChat, SendMessage
<1>5. CASE ReconnectTimerFires
  BY <1>5 DEF ReconnectTimerFires
<1> QED BY <1>1, <1>2, <1>3, <1>4, <1>5 DEF User

\* What the UI makes of an event is what the event says of the session, or
\* the UI sends a command that ends the session.
Shows(stage, hits, ends) ==
    /\ Head(evq) \in hits => conn' = stage
    /\ conn = stage /\ Head(evq) \notin ends => conn' = stage

LEMMA UiStage ==
    ASSUME Queues, UiEvents
    PROVE  /\ UNCHANGED <<sdkq, sdk>>
           /\ \/ Dropping'
              \/ /\ Shows("Connected", OpenHits, OpenEnds)
                 /\ Shows("Registered", RegHits, RegEnds)
<1> USE DEF Shows, OpenHits, OpenEnds, RegHits, RegEnds, Take, netVars, ClearSession
<1>1. CASE OnConnected \/ OnRegistered
  BY <1>1 DEF OnConnected, OnRegistered
<1>2. CASE OnAuthenticated \/ OnAuthFailed
  BY <1>2 DEF OnAuthenticated, OnAuthFailed, uiVars
<1>3. CASE OnStaleToken
  <2>1. UNCHANGED <<sdkq, sdk>>
    BY <1>3 DEF OnStaleToken
  <2>2. CASE cmdq' = Append(cmdq, "Quit")
    BY <2>1, <2>2, DropAppended DEF Drops
  <2>3. CASE cmdq' = cmdq \o <<"Quit", "Refresh">>
    <3>1. Len(cmdq) + 1 \in DOMAIN cmdq' /\ cmdq'[Len(cmdq) + 1] = "Quit"
      BY <2>3, Names DEF Queues
    <3>2. "Quit" \in ToSet(cmdq')
      BY <3>1 DEF ToSet
    <3> QED BY <2>1, <3>2 DEF Dropping, Drops
  <2> QED BY <1>3, <2>2, <2>3 DEF OnStaleToken
<1>4. CASE OnDisconnected
  BY <1>4 DEF OnDisconnected
<1>5. CASE OnAuthReady
  <2>1. UNCHANGED <<sdkq, sdk>> /\ cmdq' = Append(cmdq, "ConnectToken")
    BY <1>5 DEF OnAuthReady, ApplyTokens, StartConnect
  <2> QED BY <2>1, DropAppended DEF Drops
<1>6. CASE OnFailed
  BY <1>6 DEF OnFailed
<1> QED BY <1>1, <1>2, <1>3, <1>4, <1>5, <1>6 DEF UiEvents

\* The SDK and the events of the broker leave what the UI will show as it is.
LEMMA StageQuiet ==
    ASSUME Queues, StageShown, UNCHANGED <<conn, sdk, sdkq>>,
           evq' = evq \/ \E e \in {"AuthReady", "FailedAttempt"} : evq' = Append(evq, e)
    PROVE  StageShown'
<1>1. ASSUME NEW hits, NEW ends, NEW P \in BOOLEAN, After(evq, hits, ends, P),
             "AuthReady" \notin ends, "FailedAttempt" \notin ends
      PROVE  After(evq', hits, ends, P)
  <2>1. ASSUME NEW e \in {"AuthReady", "FailedAttempt"}, evq' = Append(evq, e)
        PROVE  After(evq', hits, ends, P)
    <3>1. e \in Events /\ e \notin ends
      BY <1>1, Names
    <3>2. After(Append(evq, e), hits, ends, P)
      BY <1>1, <3>1, AfterKept DEF Queues
    <3> QED BY <2>1, <3>2
  <2> QED BY <1>1, <2>1
<1>2. OpenSeen => After(evq', OpenHits, OpenEnds, conn = "Connected")
  BY <1>1 DEF OpenSeen, OpenEnds
<1>3. RegSeen => After(evq', RegHits, RegEnds, conn = "Registered")
  BY <1>1 DEF RegSeen, RegEnds
<1>4. OpenSeen => OpenSeen'
  BY <1>2 DEF OpenSeen
<1>5. RegSeen => RegSeen'
  BY <1>3 DEF RegSeen
<1>6. OpenShown => OpenShown'
  BY <1>4 DEF OpenShown, After
<1>7. RegShown => RegShown'
  BY <1>5 DEF RegShown, After
<1> QED BY <1>6, <1>7 DEF StageShown

LEMMA StageUi ==
    ASSUME Queues, StageShown, UNCHANGED <<sdk, sdkq>>, evq # <<>>, evq' = Tail(evq),
           Shows("Connected", OpenHits, OpenEnds), Shows("Registered", RegHits, RegEnds)
    PROVE  StageShown'
<1>1. ASSUME NEW stage, NEW hits, NEW ends, Shows(stage, hits, ends),
             After(evq, hits, ends, conn = stage)
      PROVE  After(evq', hits, ends, conn' = stage)
  <2>1. /\ evq \in Seq(Events) /\ (conn = stage) \in BOOLEAN /\ (conn' = stage) \in BOOLEAN
        /\ Head(evq) \in hits => conn' = stage
        /\ conn = stage /\ Head(evq) \notin ends => conn' = stage
    BY <1>1 DEF Queues, Shows
  <2>2. After(Tail(evq), hits, ends, conn' = stage)
    BY <1>1, <2>1, AfterTail
  <2> QED BY <2>2
<1>2. OpenSeen => After(evq', OpenHits, OpenEnds, conn' = "Connected")
  BY <1>1 DEF OpenSeen
<1>3. RegSeen => After(evq', RegHits, RegEnds, conn' = "Registered")
  BY <1>1 DEF RegSeen
<1>4. OpenSeen => OpenSeen'
  BY <1>2 DEF OpenSeen
<1>5. RegSeen => RegSeen'
  BY <1>3 DEF RegSeen
<1>6. OpenShown => OpenShown'
  BY <1>4 DEF OpenShown, After
<1>7. RegShown => RegShown'
  BY <1>5 DEF RegShown, After
<1> QED BY <1>6, <1>7 DEF StageShown

LEMMA StageForward ==
    ASSUME Queues, StageShown, NetForwardsEvent
    PROVE  StageShown'
<1>1. CASE Head(sdkq) = "EOF"
  BY <1>1 DEF NetForwardsEvent, DropHandle, StageShown, Unregistered
<1>2. CASE Head(sdkq) # "EOF"
  <2>1. /\ sdkq # <<>> /\ sdkq' = Tail(sdkq) /\ evq' = Append(evq, Head(sdkq))
        /\ sdk' = sdk /\ conn' = conn
    BY <1>2 DEF NetForwardsEvent, Post, uiVars
  <2>2. Head(sdkq) \in SdkEvents /\ Head(sdkq) \in Events
    BY <2>1, Names DEF Queues
  <2>3. ASSUME NEW hits, NEW ends, NEW P \in BOOLEAN,
               After(sdkq, hits, ends, After(evq, hits, ends, P))
        PROVE  After(Tail(sdkq), hits, ends, After(Append(evq, Head(sdkq)), hits, ends, P))
    <3>1. Head(sdkq) \in hits => After(Append(evq, Head(sdkq)), hits, ends, P)
      BY <2>2, AfterHit DEF Queues
    <3>2. After(evq, hits, ends, P) /\ Head(sdkq) \notin ends
            => After(Append(evq, Head(sdkq)), hits, ends, P)
      BY <2>2, AfterKept DEF Queues
    <3>3. /\ After(evq, hits, ends, P) \in BOOLEAN
          /\ After(Append(evq, Head(sdkq)), hits, ends, P) \in BOOLEAN
      BY DEF After
    <3> QED BY <2>1, <2>3, <3>1, <3>2, <3>3, AfterTail DEF Queues
  <2>4. OpenShown => After(Tail(sdkq), OpenHits, OpenEnds,
                           After(Append(evq, Head(sdkq)), OpenHits, OpenEnds,
                                 conn = "Connected"))
    BY <2>3 DEF OpenShown, OpenSeen
  <2>5. RegShown => After(Tail(sdkq), RegHits, RegEnds,
                          After(Append(evq, Head(sdkq)), RegHits, RegEnds,
                                conn = "Registered"))
    BY <2>3 DEF RegShown, RegSeen
  <2>6. OpenShown => OpenShown'
    BY <2>1, <2>4 DEF OpenShown, OpenSeen
  <2>7. RegShown => RegShown'
    BY <2>1, <2>5 DEF RegShown, RegSeen
  <2> QED BY <2>1, <2>6, <2>7 DEF StageShown
<1> QED BY <1>1, <1>2

LEMMA StageSdk ==
    ASSUME Queues, StageShown, Sdk
    PROVE  StageShown'
<1>0. UNCHANGED <<evq, conn>> /\ sdkq \in Seq(SdkEvents)
  BY Zenon DEF Sdk, SdkStarts, SdkAuthenticates, SdkAuthRejected, SdkRegisters,
         SdkRegistersGuest, SdkDies, Emit, uiVars, Queues
<1>1. /\ OpenSeen \in BOOLEAN /\ RegSeen \in BOOLEAN
  BY DEF OpenSeen, RegSeen, After
<1>2. CASE SdkStarts
  <2>1. sdkq' = Append(sdkq, "Connected") /\ sdk' = "open"
    BY <1>2 DEF SdkStarts, Emit
  <2>2. After(Append(sdkq, "Connected"), OpenHits, OpenEnds, OpenSeen)
    BY <1>0, <1>1, Names, AfterHit DEF OpenHits
  <2>3. OpenShown'
    BY <1>0, <2>1, <2>2 DEF OpenShown, OpenSeen
  <2> QED BY <2>1, <2>3 DEF StageShown
<1>3. CASE SdkAuthenticates \/ SdkAuthRejected
  <2>1. PICK e \in {"Authenticated", "AuthFailed"} : sdkq' = Append(sdkq, e)
    BY <1>3 DEF SdkAuthenticates, SdkAuthRejected, Emit
  <2>2. sdk = "open" /\ sdk' = "answered"
    BY <1>3 DEF SdkAuthenticates, SdkAuthRejected, Emit
  <2>3. OpenShown /\ e \in SdkEvents /\ e \notin OpenEnds
    BY <2>2, Names DEF StageShown, Unregistered, OpenEnds
  <2>4. After(Append(sdkq, e), OpenHits, OpenEnds, OpenSeen)
    BY <1>0, <1>1, <2>3, AfterKept DEF OpenShown
  <2>5. OpenShown'
    BY <1>0, <2>1, <2>4 DEF OpenShown, OpenSeen
  <2> QED BY <2>2, <2>5 DEF StageShown
<1>4. CASE SdkRegisters \/ SdkRegistersGuest
  <2>1. PICK e \in RegHits : sdkq' = Append(sdkq, e)
    BY <1>4 DEF SdkRegisters, SdkRegistersGuest, Emit, RegHits
  <2>2. sdk' = "reg" /\ e \in SdkEvents
    BY <1>4, Names DEF SdkRegisters, SdkRegistersGuest, Emit, RegHits
  <2>4. After(Append(sdkq, e), RegHits, RegEnds, RegSeen)
    BY <1>0, <1>1, <2>2, AfterHit
  <2>5. RegShown'
    BY <1>0, <2>1, <2>4 DEF RegShown, RegSeen
  <2> QED BY <2>2, <2>5 DEF StageShown, Unregistered
<1>5. CASE SdkDies
  BY <1>5 DEF SdkDies, Emit, StageShown, Unregistered
<1> QED BY <1>2, <1>3, <1>4, <1>5 DEF Sdk

LEMMA HiddenStep == Queues /\ HiddenInv /\ Next => HiddenInv'
<1> SUFFICES ASSUME Queues, HiddenInv, Next, ~Dropping' PROVE StageShown'
  BY DEF HiddenInv
<1>1. CASE User \/ ReconnectTimerFires
  <2>1. StageShown
    BY <1>1, UserQueues, TimerQueues, DropsKept DEF HiddenInv
  <2>2. UNCHANGED <<evq, sdkq, sdk>> /\ (conn' = conn \/ conn \notin {"Connected", "Registered"})
    BY <1>1, UserStage, DropAppended
  <2>3. OpenSeen => OpenSeen'
    BY <2>2 DEF OpenSeen, After
  <2>4. RegSeen => RegSeen'
    BY <2>2 DEF RegSeen, After
  <2>5. OpenShown => OpenShown'
    BY <2>2, <2>3 DEF OpenShown, After
  <2>6. RegShown => RegShown'
    BY <2>2, <2>4 DEF RegShown, After
  <2> QED BY <2>1, <2>2, <2>5, <2>6 DEF StageShown
<1>2. CASE UiEvents
  <2>1. StageShown /\ evq # <<>> /\ evq' = Tail(evq)
    BY <1>2, UiQueues, DropsKept DEF HiddenInv
  <2> QED BY <1>2, <2>1, UiStage, StageUi
<1>3. CASE NetForwardsEvent \/ Broker \/ Dial \/ Sdk
  <2>1. UNCHANGED <<cmdq, conn>>
    BY <1>3, Zenon DEF NetForwardsEvent, Broker, BrokerAnswers, BrokerFails, Dial, DialSucceeds,
       DialFails, Sdk, SdkStarts, SdkAuthenticates, SdkAuthRejected, SdkRegisters,
       SdkRegistersGuest, SdkDies, Emit, uiVars
  <2>2. StageShown
    BY <2>1 DEF HiddenInv, Dropping
  <2>3. CASE NetForwardsEvent
    BY <2>2, <2>3, StageForward
  <2>4. CASE Broker \/ DialFails
    <3>1. /\ UNCHANGED <<sdk, sdkq>>
          /\ evq' = evq \/ \E e \in {"AuthReady", "FailedAttempt"} : evq' = Append(evq, e)
      BY <2>4 DEF Broker, BrokerAnswers, BrokerFails, DialFails, Post
    <3> QED BY <2>1, <2>2, <3>1, StageQuiet
  <2>5. CASE DialSucceeds
    BY <2>5 DEF DialSucceeds, StageShown, Unregistered
  <2>6. CASE Sdk
    BY <2>2, <2>6, StageSdk
  <2> QED BY <1>3, <2>3, <2>4, <2>5, <2>6 DEF Dial
<1>4. CASE NetCommands
  <2>1. cmdq # <<>> /\ cmdq' = Tail(cmdq)
    BY <1>4, CommandQueues
  <2>2. CASE Head(cmdq) \in Drops
    <3>1. sdk' = "none"
      <4> USE <2>2 DEF Drops, NextCommand, DropHandle
      <4>1. CASE NetAwaitsBroker("Refresh", "refresh") \/ NetAwaitsBroker("Login", "login")
        BY <4>1 DEF NetAwaitsBroker
      <4>2. CASE NetDials("ConnectGuest", "dialGuest") \/ NetDials("ConnectToken", "dialToken")
        BY <4>2 DEF NetDials
      <4>3. CASE NetSends \/ NetQuits
        BY <4>3 DEF NetSends, NetQuits
      <4> QED BY <1>4, <4>1, <4>2, <4>3 DEF NetCommands
    <3> QED BY <3>1 DEF StageShown, Unregistered
  <2>3. CASE Head(cmdq) \notin Drops
    <3>1. ~Dropping
      <4> SUFFICES ASSUME NEW c \in Drops, c \in ToSet(cmdq) PROVE FALSE
        BY DEF Dropping
      <4>1. c \in ToSet(cmdq')
        BY <2>1, <2>3, ToSetTail DEF Queues
      <4> QED BY <4>1 DEF Dropping
    <3>2. /\ UNCHANGED <<conn, sdk, sdkq>>
          /\ evq' = evq \/ sdk = "none"
      <4> USE <2>3 DEF Drops, NextCommand, uiVars, netVars
      <4>1. CASE NetAwaitsBroker("Refresh", "refresh") \/ NetAwaitsBroker("Login", "login")
        BY <4>1 DEF NetAwaitsBroker
      <4>2. CASE NetDials("ConnectGuest", "dialGuest") \/ NetDials("ConnectToken", "dialToken")
        BY <4>2 DEF NetDials
      <4>3. CASE NetSends \/ NetQuits
        BY <4>3 DEF NetSends, NetQuits
      <4> QED BY <1>4, <4>1, <4>2, <4>3 DEF NetCommands
    <3>3. CASE sdk = "none"
      BY <3>2, <3>3 DEF StageShown, Unregistered
    <3>4. CASE sdk # "none"
      BY <3>1, <3>2, <3>4, StageQuiet DEF HiddenInv
    <3> QED BY <3>3, <3>4
  <2> QED BY <2>2, <2>3
<1>5. CASE Restart
  BY <1>5 DEF Restart, DropHandle, StageShown, Unregistered
<1> QED BY <1>1, <1>2, <1>3, <1>4, <1>5 DEF Next, Step

\* No session lives on behind the user's back: when nothing moves any more,
\* the session the net thread holds is the one on the screen.
THEOREM NoHiddenCorrect == Spec => []NoHiddenSession
<1>1. Init => HiddenInv
  <2>1. Init => sdk = "none"
    BY Zenon DEF Init
  <2> QED BY <2>1 DEF HiddenInv, StageShown, Unregistered
<1>2. TypeOK /\ HiddenInv /\ [Next]_vars => HiddenInv'
  <2> SUFFICES ASSUME TypeOK, HiddenInv, [Next]_vars PROVE HiddenInv'
    OBVIOUS
  <2>1. CASE Next
    BY <2>1, TypeSplit, HiddenStep
  <2>2. CASE UNCHANGED vars
    BY <2>2 DEF vars, uiVars, netVars, HiddenInv, Dropping, StageShown, OpenShown, OpenSeen,
                RegShown, RegSeen
  <2> QED BY <2>1, <2>2
<1>3. HiddenInv => NoHiddenSession
  <2> SUFFICES ASSUME HiddenInv, AtRest, sdk # "none"
               PROVE  /\ sdk = "reg" => conn = "Registered"
                      /\ sdk \in Unregistered => conn = "Connected"
    BY DEF NoHiddenSession
  <2>1. StageShown
    BY DEF HiddenInv, Dropping, AtRest, ToSet
  <2>2. OpenShown => conn = "Connected"
    BY DEF OpenShown, OpenSeen, After, AtRest
  <2>3. RegShown => conn = "Registered"
    BY DEF RegShown, RegSeen, After, AtRest
  <2> QED BY <2>1, <2>2, <2>3 DEF StageShown
<1> QED BY <1>1, <1>2, <1>3, TypeCorrect, PTL DEF Spec
=============================================================================
