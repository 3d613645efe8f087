# Sleek: a verification project

Sleek is a chat client for the freeq network (IRC with Bluesky accounts). This
directory holds TLA+ models of its core logic, TLC configurations that check
them on small instances, and TLAPS proofs for every instance. The reference is
the code; every definition that models code is listed with its lines under
`map` in `PROJECT.json`.

    tlc -workers 2 -config SleekSession_desktop.cfg MCSleekSession.tla
    tlapm SleekSession_proofs.tla

## The system

The egui client (`android/src`, used on Android and on the desktop) runs three
kinds of actors:

| actor | code | state | talks through |
| --- | --- | --- | --- |
| UI thread | `app.rs`, `state.rs`, `ui/` | `AppState`: connection, identity, buffers, remembered rooms, the call on screen, composer, gates | sends `NetCmd`, drains `NetEvent` once per frame |
| net thread | `net.rs` (`network_loop`, `apply_cmd`) | the `ClientHandle` and event receiver of one session, `pending_joins`, the media session | reads one command at a time and **awaits** its work before it reads the next; spawns a task for each HTTP request of a gate |
| SDK task | `freeq-sdk/src/client.rs` (`run_irc`), one per connection | registration, SASL, commands held back until 001, the identity maps | a bounded event channel to the net thread |

Both channels between the UI and the net thread are unbounded and keep order;
neither side ever learns how far the other has read. Outside the process are
the IRC server, the auth broker (HTTP), the media server and the browser.
`session.json`, the preferences and the SQLite message index survive a restart.

Components, their state and operations, what makes them hard and what makes
them correct:

| component | state | operations | hard because | correct means |
| --- | --- | --- | --- | --- |
| Session lifecycle | connection, intentional flag, reconnect count and deadline, identity in memory and on disk | connect, log in, refresh, cancel, logout, drop, back off, restart | commands and events cross; answers arrive after they were called off; the net loop blocks | UI and net agree at rest; nothing hangs; a drop is recovered; signing out lasts |
| Room membership | buffers with `join_pending` and `join_error`, `recent_channels`, `pending_joins` | join, leave, open, kick, denial, auto-join | confirmations cross leaves and reconnects; the join list is copied early | list, memory and server agree |
| Chat buffers | rows, known ids, edit aliases | receive, echo, edit, delete, replay | replays and reordering; optimistic rows | each message once, latest text, no deleted text back |
| DM threads | nick and account bindings in the SDK and in the app, threads | learn, quit, rename, file, merge, open, send | nicks change owners while messages are under way | one thread per person, nobody is written to by mistake |
| Message store | rows, read mark, batches, badges | record, mark read, baseline after history | history must not count, live messages must | badge = messages nobody has seen |
| AV calls | local call claim, media session, redial, token | start, join, leave, redial, mute, camera | late signalling answers, redials after leave, two channels of truth | one call, no media without a call, muted stays muted |
| Composer upload | upload id, watchdog, attachment, picker | attach, pick, send, cancel, time out, finish | the net thread finishes after the UI gave up | the spinner ends, a retry is safe, drafts survive |
| Profile and policy gates, typeahead | request id, result | open, fetch, accept, type, pick, close | stale answers | an answer is shown only for its own request |
| Caches (avatars, previews) | requested and loaded sets | prefetch, load, clear | clear while a fetch is under way | no fetch lost or repeated |
| relm4 host | its own smaller session state | connect, send | second front end | as the session |
| freeq-sdk, freeq-oauth, freeq-ssrf | protocol and crypto state | - | - | modelled only where the app meets it |
| proxy worker, platform glue, build, vendored crates | none or I/O | - | - | not modelled |

## Modules

| module | models | proofs |
| --- | --- | --- |
| `SleekSession` | the session: UI thread, both channels, net thread, SDK task, broker, disk, restart | `SleekSession_proofs`: seven theorems |
| `ChannelJoins` | room membership on top of a coarse session, with the server | `ChannelJoins_proofs`: four theorems |
| `ChatBuffer` | the rows of one chat, the connection and the server's log | `ChatBuffer_proofs`: six theorems |
| `DmThreads` | who a nick stands for, in the server, the SDK and the app; the threads | `DmThreads_proofs`: five theorems |
| `UnreadCounts` | message index, read marks, history batches, badges | `UnreadCounts_proofs`: four theorems, one a refinement |
| `UnreadPromise` | abstract: what a badge promises | implemented by `UnreadCounts` |
| `AvCall` | the call on screen, signalling, the media session | `AvCall_proofs`: six theorems |
| `Requests` | composer upload, profile gate, policy gate, handle typeahead | `Requests_proofs`: five theorems |
| `QueueFacts` | lemmas on queues: what they hold, what comes after what, how many of a kind, first and last places | cited by the proofs of `SleekSession`, `ChatBuffer` and `AvCall` |
| `MC*` | one per module that TLC starts on: bounds, situations, symmetry | |

### SleekSession

A variable stands for each field of `AppState` that the session depends on
(`conn` for `connection`, `timer` for "`reconnect_at` is `Some`", `ident` and
`disk` for the identity in memory and in `session.json`), for the two channels
(`cmdq`, `evq`), for what the net thread is awaiting (`busy`) and for the SDK
task behind its handle (`sdk`, `sdkq`). Each button, each event handler, each
arm of `apply_cmd` and each thing the SDK or the broker may do is one action.
A handler is one step, since the UI thread runs it without yielding; `apply_cmd`
is cut where it awaits (`NetAwaitsBroker` then `BrokerAnswers` or `BrokerFails`,
`NetDials` then `DialSucceeds` or `DialFails`).

* The UI drains all events before it looks at clicks. In the model a click may
  come between two events, which is the frame before the second was sent.
* The `select` of the net loop is biased: `NextCommand` needs `sdkq = <<>>`.
* `Send` stands for every command that only needs a handle; it matters because
  its failure is the same `NetEvent::Failed` as a failed connect.
* A DID without a broker token (`"did"`) can come from an Authenticated event
  that is handled after a sign-out.
* The server's nick decides between `Registered` and `RegisteredGuest`; the
  latter makes a user with a DID refresh his token (`OnStaleToken`).
* `Restart` may happen at any moment and keeps only `disk`. On Android it may
  also be a launch by a sign-in link, well formed or not.
* Deadlines are untimed: an armed one may expire at any moment. Nick and form
  fields are never blank, so the guards on them always pass.
* The persisted file is written in one step; a torn write is not modelled.

### ChannelJoins

Rooms are normalised names. `present`, `pending` and `denied` are the rooms
with a buffer, with `join_pending` and with `join_error`; `recent` is the list
in the preferences and `active` the open chat. `joins` is `pending_joins`,
`wire` what the SDK has taken and the server has not read, `member` the rooms
the server has the session in. The session is coarse: dial and SDK task are
folded into the step that posts their event, a Failed comes from a dial only,
and why a Connect is sent (form, deadline, token) is not told apart. Loss of
the SDK's undelivered events is the loss of the session that had them. The
server is external: it reads lines in order, confirms or refuses a JOIN (and
confirms once more the JOIN of a member, which `app.rs:932-936` expects), confirms
a PART and kicks at will. The Guest-nick refresh belongs to `SleekSession`.
A server that puts users back into rooms on its own is not modelled.

`left` and `signedOut` are history variables; no guard reads them.

### ChatBuffer

`buf` is one `Buffer`: its rows, `message_ids` and `edit_aliases`. `Appended`,
`Edited`, `Deleted` and `WithoutEcho` are `append`, `apply_edit`,
`apply_delete` and `consume_local_echo` as functions of it, including the two
directions of search (an edit takes the first row that is named, a deletion the
last). The actions are what the composer and the message menu do, the handling
of a line (`Receive`), a lost session and the own JOIN after it. `up` and
`wire` are the two directions of the connection; net thread and SDK only pass
lines on. The server is a log whose place is the msgid; an edit is a message
that names another one, as freeq's `+draft/edit` is. It replays the latest
messages it has not deleted. The user may have a second device, so messages,
edits and deletions of his own may come from elsewhere, under his nick.

Whose a row is, the code tells by nick: `apply_edit`, `apply_delete` and
`consume_local_echo` compare the row's `from` with the nick a line comes under,
the composer and the message menu with `state.nick`. So rows and lines have a
nick. `me` is the user's nick on the server, `nick` the one the UI believes in,
and `Rename` (/nick, or a wish of the server) sends it a line that
`OnNickChanged` handles; a session may also come back under another nick. The
server tells persons apart (`Accepts`), so an edit or a deletion of what was
written under an earlier nick is let through, and finds no row of its nick in the
buffer. `renames` is a queue apart from `wire`: how these lines lie between the
others is left open, which allows more orders than a connection has. The others
are one person, with as many nicks as `OtherNicks` has, and nobody takes a nick
that was somebody else's. The "is now" line a change of nick leaves is a system
line; those are not rows of the model, though in the code they count towards
`MAX_MESSAGES`.

* An optimistic row has id `Local`. That ids made of the clock (`local-<ms>`)
  may collide within a millisecond is left out.
* Time is the order of the log; the server's stamps are in that order.
* Reactions, members, typing and the batch markers do not touch rows and are
  left out. DM merges are in `DmThreads`.
* `missed`, `orphans` and `lost` are history: messages of which a line was lost
  with a session; messages with an edit or a deletion that found no row of the
  nick it came under; optimistic rows that nobody confirms, or only under another
  nick.
  A reply to CHATHISTORY that brings all of a message the chat knew nothing of
  takes it off `missed` (`Restored`).

### DmThreads

Three views of who a nick is: the server's (`owner`), the SDK's
(`DidMapsState`: `addr` is `nick_to_did`, `disp` is `did_to_nick`) and the
app's (`bound`, its own `nick_to_did`). Everything an identity passes through
is an action: the SDK's reading of JOIN, NICK, QUIT, WHOIS, PRIVMSG, echoes and
CHATHISTORY TARGETS, then the app's handlers of the events that come of it.
`rows` and `local` are the messages and the optimistic rows of each thread,
`Merged` is `merge_dm_buffers`. `Send` and `Execute` are the two ends of a
message: the thread decides the target, the SDK resolves it again when the net
thread hands it over.

* Everybody shares a room with the user; the SDK sees no QUIT of others, and a
  binding of such a peer is stale for longer than here. The user keeps his nick.
* Messages replayed in a DM are left out: the SDK learns from their account tags
  as from those of live lines (`client.rs:2324-2341`), and whether the server
  puts tags on them is not in this repository. TARGETS is asked for at each
  Registered (`app.rs:894-896`); its answer lists the conversations of earlier
  days and comes before anything else.
* `seen`, `met`, `held`, `chosen`, `refused` and `routes` are history.

### UnreadCounts and UnreadPromise

`stored` and `mark` are the two tables of the SQLite index, `badge` the cached
`Buffer.unread` (as the set of the rows it counts), `batches` the open history
batches, `open` the chat on screen. A message has a second, as in the code, so
that two may share one; comparisons with the read mark are the code's.
`MarkRead`, `Baseline` and `Watermark` are `mark_read`,
`baseline_after_history` and the watermark a live message sets before it is
recorded. The server logs, replays on request, and a drop may cut a batch off:
`history_batches` keeps it. The clock of the user's machine is the server's.

`UnreadPromise` says what a reader of the badge relies on, without any of this:
each message is settled once, as one that counts or one that is passed over;
one that counts does so until the user opens its room, and never again after.
The refinement maps `counted` to what the store counts and `passed` to the
other rows.

### AvCall

`lc` is `AppState.local_call` with its media state, mute and camera; `redial`
is `media_reconnect_at`. The net thread has at most one session (`ses`), which
is dialling, live or over and reports through the same channel as everything
else. Requests of the user reach the server at once; its lines (`down`) take
their time, and so do commands and events. Stopping a session waits for its
task (`stop_and_wait`), so an ended session still reports, once.

* The media server may refuse, end or lose a session. A token may be needed
  (`NeedToken`); `can_dial_sfu` then waits for it.
* The camera works, is busy or is not there; a microphone may be missing.
  Capture, codecs, rendering and the permission dialog of Android are left out.
* The user's own disconnect or sign-out during a call has no action here: its
  Quit stops the media (`net.rs:1047`) and `clear_session` clears the call
  (`state.rs:2428-2455`). The connection is only lost (`Drop`).
* `odd` is history. It notes how something meant for one call can miss it:
  the call was gone before its request was answered (`early`: the user hung up,
  or a peer's call in that room ended meanwhile), the user started the next
  call before the former was torn down (`hurried`), or a dial ran after the
  session was gone (`offline`). `ShownMediaIsReal` and `NoHiddenMedia` hold
  without the last two, `ServerAgrees` without all three; what happens with them
  is under "Known behaviours".

### Requests

Four parts that share one problem, an answer that comes when it is no longer
asked for: the composer's upload with picker, encoder and watchdog; the profile
gate; the policy gate; the handle typeahead (whose `Short` is a field that is
empty or has one character). Uploads pass the net thread's loop
one by one (`cmds`, `work`, `evs`) and fail when the session is gone; requests
of the gates are tasks of their own (`asked`), answered in any order, well or
badly. A picture, its caption and its room are one number. The ids by which the
code tells answers apart are the code's, including the one that is reset.
Nothing a part does touches another, so each situation of `MCRequests` gives
one of them clicks.

## Runs

| run | instance | checks |
| --- | --- | --- |
| `session_desktop` | attempts saturate at 2, 2 commands, 1 event; 157 thousand states | safety and liveness of the session on a desktop |
| `session_mobile` | deep links, restarts, 2 events, saturation at 1; 0.93 million | disk, hanging and hidden sessions |
| `session_logout` | desktop, 2 events | a statement of a comment, violated |
| `joins_account` | 2 rooms that fit the list, 2 commands, 1 event; 2.8 million | the safety properties of rooms |
| `joins_part` | 2 rooms, a guest, 2 events | a statement of a comment, violated |
| `chat_rows` | 3 messages or edits, 2 texts, 3 rows, 2 own nicks, 1 drop or change of nick; 3.8 million | rows against the server's log |
| `av_call` | 2 rooms, 3 calls, five situations; 7.7 million | call, media session and server |
| `unread_badge` | 3 messages, 2 rooms, three situations; 1.2 million | badges, and the refinement |
| `dm_threads` | 2 nicks, 2 accounts, a guest, two kinds of situation; 4.3 million | threads and the SDK's bindings |
| `dm_echo` | somebody of earlier days under another nick | a statement of a comment, violated |
| `dm_stale` | the same people, no drops | a statement of a comment, violated |
| `requests` | up to 3 attachments, 4 profiles, 3 gates, 6 queries; 0.79 million | uploads and answers |

What the passing properties say, beyond the types:

* `BackoffSettled`: a registered session has no left-over failure count, and a
  deadline is armed only after a failure.
* `IntentionalIsBacked`: the flag that makes the next disconnect an expected
  one is up only while its Quit or the answer to it is queued, so it cannot
  swallow a real drop.
* `DiskBacked`: no account on disk that memory has given up.
* `NoHang`: at rest (queues empty, net loop idle) the UI is not at Connecting,
  but for the browser on a phone. The same page is shown for Connected, where it
  may stay without a session (see "Known behaviours"); nothing is said of that.
* `NoHiddenSession`: at rest a live session is the one on screen.
* `RecoveryNeverStalls`: at rest, an outage with a failure count has its
  deadline armed.
* `ConnectingEnds`, `RecoveryCompletes`: the state Connecting ends; an armed
  deadline brings up a session or the count of failures is cleared, in every
  behaviour in which no attempt supersedes another (`Superseding`).
* `ActivePresent`: the open chat has a buffer.
* `MembersShown`, `MembersRemembered`: at rest the rooms the server has the
  user in are listed as joined, and are on the rejoin list as long as they fit.
* `OneRowPerMessage`, `LatestShown`, `NothingMissed`: a message has one row;
  when all is delivered the row has its latest text or is a tombstone; and each
  message of which no line was lost, or that a replay restored, has its row.
  The first two except messages of which an edit or a deletion found no row of
  the nick it came under (`orphans`).
  The last two suppose that the buffer never had to drop a row (`NeverFull`).
  When it had to, a replay that is on its way brings a dropped row back as it
  was, with the deletion forgotten; it takes as little as two rows.
* `EchoReplacesRow`: there are no more optimistic rows than messages on their
  way or lost; a message that reached the server after a change of nick counts as
  lost, since its echo has another nick than its row.
* `TombstoneStays`: no step turns a deleted row back into text, but for
  `orphans`.
* `SdkNeverStale`: the SDK never addresses a nick's former owner.
* `PeersOwnThread`, `InOneThread`: a message is in its account's thread, and in
  no second one, through all merges.
* `EchoMeetsLocal`: the echo of a message replaces its optimistic row, also when
  a merge has moved the row meanwhile, unless it is open which thread is the
  peer's (`Ambiguous`).
* `BadgeAgrees`, `LiveCounts`, `KeepsPromise`: the cached badge is the store's
  count; a new live message counts; the store implements the promise.
* `ShownMediaIsReal`, `NoHiddenMedia`, `ServerAgrees`: screen, media session
  and server have the same idea of the call once nothing is under way.
* `PrivacyKept`: muted on screen is muted in the session, camera off is a
  closed camera, through every redial.
* `RedialComes`: a call whose media session ended has a redial coming, unless it
  cannot dial yet, and none is armed over a session that is live. A dial that
  failed gets no redial from the code, and the property asks for none.
* `SpinnersEnd`: whatever shows a spinner waits for an answer that is still to
  come and will be recognised.
* `ShownIsAsked`: an answer is shown for what it was asked about.
* `RetrySafe`: a picture is posted twice only if its first upload was given up.
* `DraftSurvives`: the end of an upload takes no other draft with it.

`RecoveryNeverStalls` is checked and proved for the desktop only. On a phone it
does not hold: a malformed sign-in link during an outage ends the sign-in that
was started from it and takes `connection` back to Disconnected without arming
a deadline, while the failure count stays; the connect form is what the user
then sees. TLC finds this in 33 steps, with three events in flight.

At rest with the form on screen is a legitimate end; so is a chat nobody writes in. That is why every configuration switches the deadlock check
off: a user who does nothing leaves the program with nothing to do.

### Bounds

`MaxCmds` stops the user from clicking, `MaxEvents` stops the net thread and
the SDK from posting, and `SdkAhead` bounds the SDK's lead; the code has no such limit on the
first two. Two commands and two events are what the interesting crossings
need: an old Quit behind or before a new Connect, a late answer between them;
`OnStaleToken` queues two commands past the limit, so three in flight occur.
Liveness is checked with one event in flight (157 thousand states); the safety
properties of the desktop also pass with two (1.05 million states), which the
mobile run repeats for the properties that need them. The room run with two
events in flight and room for three (16.6 million states) passes as well and is
too slow to repeat each time. In the room module the user does not ask for a
room again while the same JOIN waits (`Asked`). `MaxAttempts` replaces
`u32::MAX` and `MaxRecent` the list limit of 50; with two rooms the list never
overflows, and `MembersRemembered` says so in its premise.

The later modules are bounded by a budget: a record of how often each click or
outside event may happen, one of which the initial state chooses. A run takes
the union of a few situations, each rich where its question lies, instead of
one instance that has a little of everything; the names beside them in the MC
modules say what each is for. In `ChatBuffer` the limits are constants:
`MaxRows` 3 stands for 500 so that three messages and an optimistic row
overflow it, `HistLimit` for 100. Two own nicks and one turn (`MaxTurns`) allow a
message under one nick and its echo, edit or deletion under the other, or a
first session under another nick than the user's device elsewhere wrote with. A
second turn, such as a drop and a session that comes back under another nick,
and rows written without a session (`MaxLost`) are left to the proofs.

The proofs have no bound at all.

### Fairness

Liveness is asked of the session only (`session_desktop`, `LiveSpec`). It
assumes, for one life of the process: the UI handles its events and
its deadline (it repaints while one is armed), the net loop goes on, a broker
request or a dial ends (both have timeouts), a spawned SDK task runs. Strong
fairness of `BrokerAnswers` and `DialSucceeds` says that a network that is
tried again and again works some time; without it an outage never ends. Nothing
is assumed of the user, nor of the server: it need never register the client,
so "Connected" without "Registered" may last, and the properties ask for no
more. Restarts are left out, as a process that is killed for ever makes no
progress; each start is covered by the initial states.

Elsewhere "it ends" is stated at rest or by what is still to come
(`SpinnersEnd`, `RedialComes`), which needs no fairness: it says that the
answer waited for exists, and the timeouts of the code bring it.

## Where code and comments disagree

1. `session_logout`: `AuthReady` is applied even after the user cancelled or
   signed out (`app.rs:454`), so a late broker answer restores the account in
   memory and on disk; `state.rs:2546` promises a full sign-out.
2. `joins_part`: leaving a room whose JOIN is in flight sends no PART; the
   confirmation brings the room back and remembers it (`state.rs:1799`).
3. `dm_stale`: the app's copy of the nick bindings is not cleared on a quit or
   a rename, so "Message" on a nick that somebody else has taken writes to the
   former owner (`state.rs:2052`, `app.rs:2263`); `client.rs:264` says that
   routing must never follow a stale binding.
4. `dm_echo`: a message to a peer who was there before the session is echoed
   into the thread of the nick he has now, while its optimistic row is in that of
   the account; `app.rs:2586` says that the echo lands in the same thread.

## Known behaviours

What the models showed besides, none of it against an explicit statement of the
code; the properties name these cases as their exceptions.

Session and rooms:

* After a superseded attempt the UI may still be at Connected when the last
  attempt fails; the deadline that is then armed is dropped (`app.rs:305`).
* A JOIN that dies with its session is never repeated and `join_pending` stays
  set (`net.rs:1082`, `state.rs:252`).
* The rooms to join are copied when Connect is queued, the rooms to show are
  read at Registered: a room confirmed in between is shown as joined in a
  session that never joins it (`app.rs:890`).

Chats:

* A row that was edited and then deleted comes back when the edit was still on
  its way (`state.rs:377-400`, `app.rs:1085-1105`); a live edit before the
  replay of its message, or two quick edits, show it twice. These are `orphans`.
* After a change of nick (`app.rs:1222`) what is about older rows misses them: an
  edit shows as a second row (`state.rs:390`), a deletion leaves the text
  (`state.rs:433`), the menu no longer offers to edit or delete one's own
  (`ui/widgets.rs:1317`), and a message that was sent before the change and reached
  the server after it stays beside its echo (`state.rs:462`). The same goes for
  another user's nick.
* A row that is dropped for room is forgotten with its deletion
  (`state.rs:368-371`): a replay that is on its way then shows it again.
* Deleting a message that was edited before does not end its edit in the
  composer. History is not asked for again after a drop when the chat has rows.
* A rename opens a second thread for a peer without an account; a guest who
  takes a nick is filed under the account that had it. A merge's unread count
  lasts until the next refresh.
* A room without a read mark whose history batch was cut off counts no live
  message until the app restarts. History replayed into a room where a live
  message came first counts as unread.

Calls:

* Hanging up before the request is through leaves a silent participant or
  brings the call back (`app.rs:551-566`). A peer's call in the room that ends
  while the user's claim is unanswered has the same effect: `ended` drops the
  slot whatever session it is about (`app.rs:1498-1508`). Leaving and joining again while the
  first call is dialled may stay at "connecting" (`app.rs:1558-1570`); the
  token of the former call is taken for the new one's (`app.rs:1371-1376`).
* A dial that fails is not redialled: its Failed arrives while the call shows
  "connecting" and passes for the end of the session before (`app.rs:600-614`).
  A dial that was queued when the connection broke is executed after the net
  thread has stopped the media: the microphone is open with no call on the screen
  (`app.rs:1627`, `net.rs:861`). A refused join drops the call on screen
  without stopping its media (`app.rs:1444-1462`), which takes a media server
  that asks for no token; a call is replaced when two members start one at the
  same time.

Uploads and answers:

* An upload that was given up still posts, and the retry posts again.
* A file that is picked while an upload runs replaces the attachment and is
  removed unsent with it (`state.rs:1617`, `app.rs:475`); text typed meanwhile
  is wiped. A pick may land in another room's composer.
* Closing the policy gate resets its request id (`state.rs:1176`): the answer
  about an earlier channel can then match, and its rules show while another
  channel's are accepted.
* A failed handle search keeps the list of the query before. A recent handle that
  is chosen while a search is in flight gets that search's list
  (`ui/connect.rs:58`).

## Proofs

The proof modules prove, for all values of the constants, from nothing but the
named assumptions of the modules they extend:

* `SleekSession_proofs!TypeCorrect`: the types, split into queues, Booleans and
  the rest. The queues need a fact on each action: it appends at most a known
  command or event (`Grows`), removes the head, or, for the stale token,
  appends two.
* `BackoffCorrect`: `BackoffSettled` with the types is inductive.
* `DiskCorrect`: `DiskBacked` is inductive by itself; restarts preserve it
  because every boot record does.
* `IntentionalCorrect`: the invariant is inductive together with the types. A
  pending Quit is followed through the queues: no command passes it, the net
  thread turns it into a QuitDone in the same step that removes it
  (`QuitTravels`), and only a step that appends a Quit raises the flag
  (`FlagNeedsQuit`).
* `ChannelJoins_proofs!TypeCorrect`: in particular the remembered rooms stay
  distinct and within the limit, whatever is inserted and cut off.
* `ActiveCorrect`: the open chat keeps its buffer.
* `UnreadCounts_proofs!TypeCorrect` and `BadgesAgree`: the cached badge equals
  the store's count, since each handler that changes the rows or the mark of a
  room sets its badge in the same step.
* `LiveMessagesCount`: the mark of a room is never later than both its latest
  row and the user's last look (`MarkJustified`), so a live message later than
  both is past it. That the row is not one the mark was taken from needs
  `LiveFirst`: a line on its way is either inside a batch that will be open
  when it is handled or a message the store does not have.
* `Refinement`: `UnreadCounts` implements `UnreadPromise`. Each step is mapped:
  a recorded message to `Counts` or `Passes`, opening a chat to `Opens`, its
  end to `Closes`, the rest to a stutter. The baseline after history may only
  move a mark that was not there, under which nothing counted; that a chat on
  screen has nothing that counts (`OpenIsRead`) is what lets it be closed
  without a change. Nothing that was passed over ever counts again.

* `Requests_proofs!RetriesSafe` and `DraftsSurvive`: the invariant orders the
  uploads by where they are (encoder, commands, net thread, events), so that a
  report is older than everything still under way; what is under way is the
  composer's own upload or was given up (`Owned`); and a posted media is held by
  the composer until the report that empties it, and by nobody afterwards
  (`Posted`). A report that arrives for the current id is therefore the last
  one there is.
* `AnswersMatch`: of the requests with the id a gate compares, which are about
  what it shows. For the policy gate the id is only unique within one opening,
  which is why `ShownIsAsked` excepts answers asked for before it was closed; a
  failed search of the typeahead is excepted as well.
* `SpinnersStop`: a spinner or a locked composer has its answer under way. This
  is the safety half of "it ends"; that answers arrive is the network's.
* `Requests_proofs!TypeCorrect`: the types; uploads and gates share no
  variable, so the two invariants are proved apart.

* `SleekSession_proofs!NoHangCorrect`, `NoHiddenCorrect` and `RecoveryCorrect`:
  at rest the queues are empty, so the invariants say of every moment what is
  still to come: a Connecting page has an answer on its way or a net thread that
  owes one; a live session the UI does not show has its Registered, its end or a
  Quit before it (`After` of `QueueFacts`: something that matters, and nothing
  behind it that undoes it). `RecoveryCorrect` assumes `~Mobile`, for the reason
  given above.
* `ChannelJoins_proofs!MembersShownCorrect` and `MembersRememberedCorrect`: a
  room the server has the user in is either settled (listed, and remembered
  while the list has room), or its confirmation is still on its way, or a JOIN, a
  PART or a Quit is (`Settled`, `Settling`, `Ahead`). The second theorem
  needs `RoomsFit`, its own premise: the rooms fit the remembered list.
* `DmThreads_proofs!TypeCorrect`, `SdkAddressesCorrect`, `PeersThreadsCorrect`,
  `OneThread`: one invariant. The lines that are still unread, replayed from what
  the SDK has seen, lead to the server's nicks (`SeenInv`), so a binding that is
  learned names the holder; each message is in at most one place among wire,
  events and threads, and in one of them unless it was refused (`MailInv`); what
  an account says is under way to its own thread (`AuthorInv`). The conversations
  of earlier days are finitely many (`BudgetsAssumption`).
* `DmThreads_proofs!EchoMeets`: on top of that, `MeetInv`, as long as no session
  was lost. Everything that binds a nick (either map of the SDK, the map of the
  app, an event, a line) names somebody the nick stood for, at the moment it is
  read too (`Tale`, the replay of the lines with what each will bind; `NamesInv`,
  with the conversations of earlier days first). An account has one nick at a time
  (`Single`), whoever gave a nick up is on record (`HeldInv`), and whom a new
  session finds under a nick without knowing it is `Blurred`. Of a message that
  was not refused and whose peer is not `Ambiguous` (`Expected`), the optimistic
  row is in a thread its copy can come to (`Homes`), the line of the copy has the
  peer's own nick (`Answers`), the event the one thread this leaves (`Lands`); and
  while the row is there the copy is not. A nick's thread is merged only into that of
  somebody who had the nick, which keeps a row at home, and the copy's own merge comes before it is filed.
* `ChatBuffer_proofs!OneRow` and `TombstonesStay`: an operation on the buffer
  makes the new rows of old ones, each used at most once, and of one new row at
  most (`Drawn`, `Thinned`), which is all the proof needs of `InsertAt`,
  `RemoveAt` and `Tail`. A row that no orphaned edit split has both its present
  msgid and the one its message began with known to the buffer (`RowsKnown`);
  hence a fresh msgid is of no message that is shown, and the msgid dropped with
  the oldest row is nobody else's. `TombstonesStay` is an action property: the
  same facts say that a row of the message afterwards is the tombstone itself.
* `ChatBuffer_proofs!TypeCorrect`: with it, that a replay is a sequence of logged
  lines (a counting argument, `Ranked`) and that the log never outgrows its
  bound (`Room`).
* `ChatBuffer_proofs!EchoReplaces`: a count of rows against messages is not
  inductive: one message can come back twice, as its echo and in a
  replay, and a row may go for the echo of another message of the same text. The
  invariant `EchoInv` gives each optimistic row a ticket of its own: a message
  of the same nick and text that is still being sent, an echo of that nick and
  text on the way back whose msgid the buffer has not met and no earlier line
  brings (`Comers`), or a message lost with a session; no ticket serves two rows
  (`Awaited`). A line that the buffer appends takes away the row whose ticket it
  was, or another of the same nick and text whose ticket is then exchanged; a lost
  session turns the tickets of both directions into lost ones, and so does a
  server that reads a message under another nick than it was written with.
* `ChatBuffer_proofs!NothingIsMissed` and `LatestIsShown`: `AheadInv`, on top of
  `EchoInv`. As long as all that was logged, is being sent or was lost fits in
  the buffer (`Roomy`, at rest `NeverFull`), no row is ever dropped: each row of
  the server has brought a msgid of its own (`Few`), the optimistic rows have
  their tickets, and both together are no more than that load (`RowsFit`). So
  what the buffer has met is shown (`MetShown`). Each message that was neither
  missed nor split by an orphaned edit is `Tracked`: it has a row or a line on
  its way. If it is deleted, a tombstone is there or a deletion is on its
  way with no version behind it (`Buried`). If it is not, the lines lead from the
  version of its row to the latest one; they may go back, as a replay does, but
  leave none out on the way forward (`Path`), and the buffer has met all that the
  row has passed (`Current`). That is what makes it right to skip a msgid that
  was met: it is never ahead of the row. It needs that edits the buffer met name
  the original or the version before them (`Chained`). A row whose
  text is not that of its version has an edit of the user on its way (`Told`).
  Nicks come in through `SameNick`: whatever the buffer has met of such a message
  has the nick of its row, so a version on its way finds the row or makes the
  message one of `orphans`.
  That a deletion by the user gets no line back is no loss, since his row is a
  tombstone before he asks (`Unshown`). At rest nothing is on its way, and both
  properties are what is left of `Tracked`.
* `AvCall_proofs!TypeCorrect`: the ids of calls never exceed what the budgets
  allow, because the starts that are still on their way are counted
  (`MintInv`; the assumption is `calls + peers <= MaxSid`).
* `PrivacyCorrect`: whatever is muted on the screen is muted in the session or
  the command that mutes it is the last one of its kind on its way; the same for
  the camera, through the session's own control queue (`MutedInv`, `DarkInv`).
* `RedialCorrect`: a call shown as idle has a redial, or a status that will
  schedule one is on its way, and a call shown as live has none (`RedialInv`).
  It assumes `NeedToken`: the media servers that ask for no token are the local ones of development.
* `AvCall_proofs!NoMediaHidden`, `ShownMediaCorrect` and `PlacesAgree` follow a
  call through the three queues. Each action is first reduced to what it does to
  the call, the session and the queues (`Effect`, `StepDoes`), and the invariants
  build on one another. `Conn`: the UI learns of every end of a connection once,
  after its beginning, and asks for a new one only then. `Asks`: a claim, its
  answer on the way down and its answer before the UI exclude one another, the
  note that the claim was sent comes before the answer, and the call has no token
  meanwhile. On these rest three more.
  * `Media1`: what runs or is to be dialled is that of the call on the screen,
    or a stop comes behind it (`Stops`); a call that is shown as connecting has
    its dial, its session or the news of the end before it (`Learns`).
  * `LiveInv`: the last status before the UI that bears on it, or else the
    screen, calls a session live only if it is.
  * `PlaceInv`: a user whom the server has in a call claimed it and was let in;
    he has it on the screen or its leave is on the way, and no end of an earlier
    call in that room is read after the token of this one (`Home`). A call on
    the screen has a claim, a refusal, a place or a lost connection behind it
    (`Reason`); a refused join names the call that waits for it (`Denied`).

  The first two theorems assume `NeedToken`. Without a token the UI dials before
  the server has answered, and a refused join takes the call off the screen but
  stops nothing (`app.rs:1444`). `PlacesAgree` assumes nothing.

Model-checked only: liveness (`ConnectingEnds`, `RecoveryCompletes`), as the
prover does not reason about fairness. Every invariant and action property of a
passing run is also proved, under the assumptions named above.

## Plan

What is left, in this order:

1. An abstract session (offline, trying, online) that `SleekSession` implements.
2. The relm4 host, the SDK's registration and reconnect helpers, the camera
   hand-over, the avatar and preview caches, reactions.

About a tenth of the hand-written lines is behind a definition. Most of the rest
draws (`ui/widgets.rs`, `ui/chat.rs`, the GTK host), captures and encodes
(`av_media.rs`, `android_media.rs`, the cameras) or frames and signs bytes (most
of the SDK): code whose hazards are not in the order of its steps.

Not modelled and not planned: rendering, parsing of text and links, codecs and
capture, cryptography, build and deployment, vendored crates. The parts are
listed one by one, with the reason, under `components` in `PROJECT.json`.
