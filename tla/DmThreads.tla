----------------------------- MODULE DmThreads ------------------------------
(***************************************************************************)
(* Direct-message threads of Sleek: which thread a message is filed under  *)
(* and who a message is sent to, while nicks are taken, given up, changed  *)
(* and taken by somebody else.                                             *)
(*                                                                         *)
(*   SDK, read loop     addr, disp          DidMapsState of client.rs      *)
(*   UI thread          bound, shown, rows, AppState of state.rs and the   *)
(*                      local, open         handlers of app.rs             *)
(*   between them       cmds, evs                                          *)
(*   server             owner, wire, ...    external                       *)
(*                                                                         *)
(* A thread is named by the peer's DID, or by the nick while no DID is     *)
(* known.  Everybody shares a room with the user, who sees every JOIN, QUIT*)
(* and NICK and keeps his own nick.  The texts of messages are told apart  *)
(* by their numbers.  The lines of a CHATHISTORY replay are left out:      *)
(* whether the server puts an account tag on them, of which the SDK would  *)
(* learn as of a live line's, is not in the repository.                    *)
(***************************************************************************)
EXTENDS Naturals, Sequences, FiniteSets

CONSTANTS
    Nicks,    \* nicks of other people
    Dids,     \* accounts of other people
    Guest,    \* somebody without an account
    Nobody,   \* the owner of a free nick
    Unknown,  \* no nick, no DID, no thread
    Budgets   \* bounds of a run, one of which Init chooses: messages said,
              \* nicks taken, left or changed, lost connections, profiles
              \* opened, and the conversations of earlier days

Who  == Dids \cup {Guest}
Keys == Nicks \cup Dids

ASSUME NamesAssumption ==
    /\ Nicks \cap Dids = {} /\ Guest \notin Keys /\ Nobody \notin Keys \cup {Guest}
    /\ Unknown \notin Keys \cup {Guest, Nobody}
ASSUME BudgetsAssumption ==
    /\ Budgets \subseteq [said : Nat, moves : Nat, drops : Nat, whois : Nat,
                         past : SUBSET (Nicks \X Dids)]
    /\ \A b \in Budgets : IsFiniteSet(b.past)

VARIABLES
    addr,    \* SDK nick_to_did: addressing-grade
    disp,    \* SDK did_to_nick: display-grade
    bound,   \* app nick_to_did
    shown,   \* threads with a buffer
    rows,    \* messages shown, per thread
    local,   \* optimistic rows, per thread
    open,    \* the thread on the screen
    cmds,    \* UI -> net thread
    evs,     \* SDK -> UI
    online,  \* the session
    wire,    \* server -> SDK
    owner,   \* the server's nicks
    said,    \* messages: who said them to whom
    spent,   \* how much of the budget is used
    budget,  \* the bounds of this behaviour
    seen,    \* history: the owner of a nick, by the lines the SDK read
    met,     \* history: the same, by the events the UI handled
    held,    \* history: everyone a nick ever stood for; with Unknown when a session
             \* found it taken, with Nobody when it was given up
    refused, \* history: own messages with nobody there to take them
    chosen,  \* history: the nick whose thread was opened, and its owner then
    routes   \* history: who was meant and who was addressed

sdkVars == <<addr, disp>>
appVars == <<bound, shown, rows, local, open>>
netVars == <<cmds, evs, online, wire>>
serverVars == <<owner, held>>
historyVars == <<refused, routes>>
vars == <<sdkVars, appVars, netVars, serverVars, said, spent, budget,
          seen, met, chosen, historyVars>>

Ids == 1..Len(said)

NoRoute == [nick |-> Unknown, who |-> Unknown]

LinesOK ==
    /\ \A i \in 1..Len(wire) : wire[i].cmd \in {"JOIN", "QUIT", "NICK", "PRIVMSG", "ECHO",
                                               "330", "TARGETS"}
    /\ \A i \in 1..Len(evs) : evs[i].ev \in {"Joined", "UserQuit", "NickChanged", "Message",
                                            "MemberDid", "ChatHistoryTarget"}
    /\ \A i \in 1..Len(cmds) : cmds[i].cmd \in {"Privmsg", "Whois"}

TypeOK ==
    /\ addr \in [Nicks -> Dids \cup {Unknown}] /\ disp \in [Dids -> Nicks \cup {Unknown}]
    /\ bound \in [Nicks -> Dids \cup {Unknown}]
    /\ shown \subseteq Keys /\ open \in shown \cup {Unknown}
    /\ rows \in [Keys -> SUBSET Ids] /\ local \in [Keys -> SUBSET Ids]
    /\ \A k \in Keys \ shown : rows[k] = {} /\ local[k] = {}
    /\ online \in BOOLEAN /\ owner \in [Nicks -> Who \cup {Nobody}]
    /\ LinesOK

---------------------------------------------------------------------------
(* DidMapsState                                                            *)

\* dm_peer_key: the DID when one is found.
Resolved(peer, did) == IF peer \in Dids \/ did = Unknown THEN peer ELSE did

\* learn; it announces what is new.
Learn(n, d) ==
    /\ addr' = [addr EXCEPT ![n] = d]
    /\ disp' = [disp EXCEPT ![d] = n]

News(n, d) == IF addr[n] = d THEN <<>> ELSE <<[ev |-> "MemberDid", nick |-> n, did |-> d]>>

\* Slip: a free nick keeps its address.
ForgetNothing(n) == UNCHANGED sdkVars

\* forget_nick
Forget(n) == addr' = [addr EXCEPT ![n] = Unknown] /\ UNCHANGED disp

\* rename
Rename(old, new) ==
    LET d == addr[old]
    IN IF d = Unknown THEN UNCHANGED sdkVars
       ELSE /\ addr' = [addr EXCEPT ![old] = Unknown, ![new] = d]
            /\ disp' = [disp EXCEPT ![d] = new]

\* dm_key: by address, else by what a DID was last called; any one of several.
DmKeys(peer, a, dsp) ==
    IF peer \in Nicks /\ a[peer] = Unknown
    THEN LET named == {d \in Dids : dsp[d] = peer} IN IF named = {} THEN {peer} ELSE named
    ELSE {Resolved(peer, IF peer \in Nicks THEN a[peer] ELSE Unknown)}

\* wire_target: by address only.
WireTarget(peer) == Resolved(peer, IF peer \in Nicks THEN addr[peer] ELSE Unknown)

---------------------------------------------------------------------------
(* The SDK reads a line                                                    *)

Line(c) == wire # <<>> /\ wire[1].cmd = c /\ wire' = Tail(wire)
Emit(es) == evs' = evs \o es
Saw(n, w) == seen' = [seen EXCEPT ![n] = w]
ReadKeeps == UNCHANGED <<appVars, cmds, online, serverVars, said, spent, budget, met, chosen,
                         historyVars>>

\* extended-join: with the account.
ReadJoin ==
    /\ Line("JOIN")
    /\ LET n == wire[1].nick
           w == wire[1].who
           joined == [ev |-> "Joined", nick |-> n, who |-> w]
       IN  /\ \/ w \in Dids /\ Learn(n, w) /\ Emit(News(n, w) \o <<joined>>)
              \/ w = Guest /\ UNCHANGED sdkVars /\ Emit(<<joined>>)
           /\ Saw(n, w)
    /\ ReadKeeps

ReadQuit ==
    /\ Line("QUIT")
    /\ Forget(wire[1].nick)
    /\ Emit(<<[ev |-> "UserQuit", nick |-> wire[1].nick]>>)
    /\ Saw(wire[1].nick, Nobody)
    /\ ReadKeeps

ReadNick ==
    /\ Line("NICK")
    /\ Rename(wire[1].nick, wire[1].new)
    /\ Emit(<<[ev |-> "NickChanged", nick |-> wire[1].nick, new |-> wire[1].new]>>)
    /\ seen' = [seen EXCEPT ![wire[1].nick] = Nobody, ![wire[1].new] = seen[wire[1].nick]]
    /\ ReadKeeps

\* Slip: the thread is chosen before the account is learned.
ReadPrivmsgLate ==
    /\ Line("PRIVMSG")
    /\ LET n == wire[1].nick
           w == wire[1].who
       IN  /\ \/ w \in Dids /\ Learn(n, w)
              \/ w = Guest /\ UNCHANGED sdkVars
           /\ \E k \in DmKeys(n, addr, disp) :
                  Emit((IF w \in Dids THEN News(n, w) ELSE <<>>)
                       \o <<[ev |-> "Message", nick |-> n, id |-> wire[1].id, key |-> k,
                             mine |-> FALSE]>>)
           /\ Saw(n, w)
    /\ ReadKeeps

\* A message of a peer; the account tag names the DID of one who has it.
ReadPrivmsg ==
    /\ Line("PRIVMSG")
    /\ LET n == wire[1].nick
           w == wire[1].who
       IN  /\ \/ w \in Dids /\ Learn(n, w)
              \/ w = Guest /\ UNCHANGED sdkVars
           /\ \E k \in DmKeys(n, addr', disp') :
                  Emit((IF w \in Dids THEN News(n, w) ELSE <<>>)
                       \o <<[ev |-> "Message", nick |-> n, id |-> wire[1].id, key |-> k,
                             mine |-> FALSE]>>)
           /\ Saw(n, w)
    /\ ReadKeeps

\* The copy of an own message: its target is the peer's nick.
ReadEcho ==
    /\ Line("ECHO")
    /\ \E k \in DmKeys(wire[1].nick, addr, disp) :
           Emit(<<[ev |-> "Message", nick |-> wire[1].nick, id |-> wire[1].id, key |-> k,
                   mine |-> TRUE]>>)
    /\ UNCHANGED <<sdkVars, seen>>
    /\ ReadKeeps

\* RPL_WHOISACCOUNT
ReadWhois ==
    /\ Line("330")
    /\ Learn(wire[1].nick, wire[1].who)
    /\ Emit(News(wire[1].nick, wire[1].who))
    /\ Saw(wire[1].nick, wire[1].who)
    /\ ReadKeeps

\* CHATHISTORY TARGETS: learn_display only.
ReadTargets ==
    /\ Line("TARGETS")
    /\ disp' = [disp EXCEPT ![wire[1].who] = wire[1].nick] /\ UNCHANGED addr
    /\ Emit(<<[ev |-> "ChatHistoryTarget", nick |-> wire[1].nick, did |-> wire[1].who]>>)
    /\ UNCHANGED seen
    /\ ReadKeeps

---------------------------------------------------------------------------
(* UI thread: events                                                       *)

\* dm_buffer_key
BufferKey(peer) == Resolved(peer, IF peer \in Nicks THEN bound[peer] ELSE Unknown)

\* The threads as one value, for handlers that change them twice.
Threads == [shown |-> shown, rows |-> rows, local |-> local, open |-> open]
SetThreads(t) ==
    shown' = t.shown /\ rows' = t.rows /\ local' = t.local /\ open' = t.open

\* Slip: what was in the nick's thread goes away with it.
MergedEmpty(t, n, d) ==
    IF n \notin t.shown THEN t
    ELSE [shown |-> (t.shown \ {n}) \cup {d},
          rows |-> [t.rows EXCEPT ![n] = {}], local |-> [t.local EXCEPT ![n] = {}],
          open |-> IF t.open = n THEN d ELSE t.open]

\* Slip: the screen stays on the thread that went away.
MergedUnseen(t, n, d) ==
    IF n \notin t.shown THEN t
    ELSE [shown |-> (t.shown \ {n}) \cup {d},
          rows |-> [t.rows EXCEPT ![n] = {}, ![d] = @ \cup t.rows[n]],
          local |-> [t.local EXCEPT ![n] = {}, ![d] = @ \cup t.local[n]],
          open |-> t.open]

\* merge_dm_buffers: the nick's thread becomes part of the DID's.
Merged(t, n, d) ==
    IF n \notin t.shown THEN t
    ELSE [shown |-> (t.shown \ {n}) \cup {d},
          rows |-> [t.rows EXCEPT ![n] = {}, ![d] = @ \cup t.rows[n]],
          local |-> [t.local EXCEPT ![n] = {}, ![d] = @ \cup t.local[n]],
          open |-> IF t.open = n THEN d ELSE t.open]

Event(e) == evs # <<>> /\ evs[1].ev = e /\ evs' = Tail(evs)
EventKeeps == UNCHANGED <<sdkVars, cmds, online, wire, serverVars, said, spent, budget, seen,
                          historyVars>>

\* adopt_dm_binding
Adopt(n, d) ==
    /\ bound' = [bound EXCEPT ![n] = d]
    /\ SetThreads(Merged(Threads, n, d))

OnMemberDid ==
    /\ Event("MemberDid")
    /\ Adopt(evs[1].nick, evs[1].did)
    /\ UNCHANGED <<met, chosen>>
    /\ EventKeeps

OnJoined ==
    /\ Event("Joined")
    /\ LET n == evs[1].nick
           w == evs[1].who
       IN  /\ \/ w \in Dids /\ Adopt(n, w)
              \/ w = Guest /\ UNCHANGED appVars
           /\ met' = [met EXCEPT ![n] = w]
    /\ UNCHANGED chosen
    /\ EventKeeps

\* The members of the rooms change, the bindings do not.
OnUserQuit ==
    /\ Event("UserQuit")
    /\ met' = [met EXCEPT ![evs[1].nick] = Nobody]
    /\ UNCHANGED <<appVars, chosen>>
    /\ EventKeeps

OnNickChanged ==
    /\ Event("NickChanged")
    /\ met' = [met EXCEPT ![evs[1].nick] = Nobody, ![evs[1].new] = met[evs[1].nick]]
    /\ UNCHANGED <<appVars, chosen>>
    /\ EventKeeps

\* Buffer::append; an own message takes the place of its optimistic row.
Filed(t, k, m) ==
    [t EXCEPT !.shown = @ \cup {k}, !.rows[k] = @ \cup {m}, !.local[k] = @ \ {m}]

\* Slip: the copy is filed before the optimistic row is where it looks for it.
CopyFiledFirst(t, m) == Merged(Filed(t, m.key, m.id), m.nick, m.key)

\* An own message that names the peer's account: the threads become one first.
CopyFiled(t, m) == Filed(Merged(t, m.nick, m.key), m.key, m.id)

\* adopt_echo_binding for an own message, then the row.
OnMessage ==
    /\ Event("Message")
    /\ LET m == evs[1]
           adopts == m.mine /\ m.key \in Dids /\ m.nick \in Nicks
       IN  \/ /\ adopts
              /\ bound' = [bound EXCEPT ![m.nick] = m.key]
              /\ SetThreads(CopyFiled(Threads, m))
           \/ /\ ~adopts /\ UNCHANGED bound
              /\ SetThreads(Filed(Threads, m.key, m.id))
    /\ met' = IF evs[1].mine THEN met ELSE [met EXCEPT ![evs[1].nick] = said[evs[1].id].from]
    /\ UNCHANGED chosen
    /\ EventKeeps

\* A conversation of earlier days.
OnTarget ==
    /\ Event("ChatHistoryTarget")
    /\ LET t == Merged(Threads, evs[1].nick, evs[1].did)
       IN  SetThreads([t EXCEPT !.shown = @ \cup {evs[1].did}])
    /\ bound' = [bound EXCEPT ![evs[1].nick] = evs[1].did]
    /\ UNCHANGED <<met, chosen>>
    /\ EventKeeps

---------------------------------------------------------------------------
(* UI thread: the user                                                     *)

ClickKeeps == UNCHANGED <<sdkVars, evs, online, wire, serverVars, budget, seen, met, historyVars>>

\* A nick on the screen is clicked: the profile, with a WHOIS.
OpenProfile(n) ==
    /\ met[n] # Nobody /\ spent.whois < budget.whois
    /\ cmds' = IF online THEN Append(cmds, [cmd |-> "Whois", to |-> n]) ELSE cmds
    /\ spent' = [spent EXCEPT !.whois = @ + 1]
    /\ UNCHANGED <<appVars, said, chosen>>
    /\ ClickKeeps

\* "Message" in the profile of a nick.
MessageNick(n) ==
    /\ met[n] # Nobody
    /\ open' = BufferKey(n) /\ shown' = shown \cup {BufferKey(n)}
    /\ chosen' = [nick |-> n, who |-> met[n]]
    /\ UNCHANGED <<bound, rows, local, cmds, said, spent>>
    /\ ClickKeeps

\* A thread of the chat list; open_chat resolves its key once more.
OpenThread(k) ==
    /\ k \in shown \ {open} /\ chosen' = NoRoute
    /\ open' = BufferKey(k) /\ shown' = shown \cup {BufferKey(k)}
    /\ UNCHANGED <<bound, rows, local, cmds, said, spent>>
    /\ ClickKeeps

\* do_send, with its optimistic row under the canonical key of the thread.
Send ==
    /\ open # Unknown /\ Len(said) < budget.said
    /\ LET m == Len(said) + 1
           k == BufferKey(open)
       IN  /\ said' = Append(said, [from |-> Unknown, to |-> open, route |-> chosen])
           /\ shown' = shown \cup {k} /\ local' = [local EXCEPT ![k] = @ \cup {m}]
           /\ cmds' = IF online THEN Append(cmds, [cmd |-> "Privmsg", to |-> open, id |-> m])
                      ELSE cmds
           /\ refused' = IF online THEN refused ELSE refused \cup {m}
    /\ UNCHANGED <<bound, rows, open, chosen, spent, routes>>
    /\ UNCHANGED <<sdkVars, evs, online, wire, serverVars, budget, seen, met>>

---------------------------------------------------------------------------
(* The net thread and the server (external)                                *)

\* Who a line for this target reaches.
Reached(to) ==
    IF to \in Dids THEN {n \in Nicks : owner[n] = to}
    ELSE IF owner[to] = Nobody THEN {} ELSE {to}

\* A command is executed: privmsg resolves the target, the server takes the
\* line and sends the copy; or it answers a WHOIS.
Execute ==
    /\ cmds # <<>> /\ cmds' = Tail(cmds)
    /\ \/ /\ cmds[1].cmd = "Whois"
          /\ wire' = IF owner[cmds[1].to] \in Dids
                     THEN Append(wire, [cmd |-> "330", nick |-> cmds[1].to,
                                        who |-> owner[cmds[1].to]]) ELSE wire
          /\ UNCHANGED historyVars
       \/ /\ cmds[1].cmd = "Privmsg"
          /\ LET to == WireTarget(cmds[1].to)
                 m == cmds[1].id
                 route == said[m].route
             IN  /\ \/ /\ Reached(to) # {}
                       /\ \E n \in Reached(to) :
                              wire' = Append(wire, [cmd |-> "ECHO", nick |-> n, id |-> m])
                       /\ UNCHANGED refused
                    \/ /\ Reached(to) = {}
                       /\ wire' = IF to \in Dids
                                  THEN Append(wire, [cmd |-> "ECHO", nick |-> to, id |-> m])
                                  ELSE wire
                       /\ refused' = refused \cup {m}
                 /\ routes' = IF route = NoRoute THEN routes
                              ELSE routes \cup {[to |-> to, meant |-> route.who,
                                                 now |-> seen[route.nick]]}
    /\ UNCHANGED <<sdkVars, appVars, evs, online, serverVars, said, spent, budget, seen, met,
                   chosen>>

OutsideKeeps == UNCHANGED <<sdkVars, appVars, cmds, evs, online, budget, seen, met, chosen,
                            historyVars>>
Moves == spent.moves < budget.moves /\ spent' = [spent EXCEPT !.moves = @ + 1]
Tells(l) == wire' = IF online THEN Append(wire, l) ELSE wire

Arrive(n, w) ==
    /\ Moves /\ owner[n] = Nobody /\ w \notin {owner[o] : o \in Nicks} \ {Guest}
    /\ owner' = [owner EXCEPT ![n] = w] /\ held' = [held EXCEPT ![n] = @ \cup {w}]
    /\ Tells([cmd |-> "JOIN", nick |-> n, who |-> w])
    /\ UNCHANGED said /\ OutsideKeeps

Leave(n) ==
    /\ Moves /\ owner[n] # Nobody
    /\ owner' = [owner EXCEPT ![n] = Nobody] /\ held' = [held EXCEPT ![n] = @ \cup {Nobody}]
    /\ Tells([cmd |-> "QUIT", nick |-> n])
    /\ UNCHANGED said /\ OutsideKeeps

ChangeNick(n, o) ==
    /\ Moves /\ owner[n] # Nobody /\ owner[o] = Nobody
    /\ owner' = [owner EXCEPT ![n] = Nobody, ![o] = owner[n]]
    /\ held' = [held EXCEPT ![n] = @ \cup {Nobody}, ![o] = @ \cup {owner[n]}]
    /\ Tells([cmd |-> "NICK", nick |-> n, new |-> o])
    /\ UNCHANGED said /\ OutsideKeeps

\* A peer writes to the user.
Whisper(n) ==
    /\ owner[n] # Nobody /\ online /\ Len(said) < budget.said
    /\ said' = Append(said, [from |-> owner[n], to |-> Unknown, route |-> NoRoute])
    /\ Tells([cmd |-> "PRIVMSG", nick |-> n, who |-> owner[n], id |-> Len(said) + 1])
    /\ UNCHANGED <<owner, held, spent>> /\ OutsideKeeps

\* The session ends unexpectedly; the threads and the app's bindings stay, the
\* next client starts with empty maps.
Drop ==
    /\ online /\ spent.drops < budget.drops
    /\ spent' = [spent EXCEPT !.drops = @ + 1]
    /\ online' = FALSE /\ wire' = <<>> /\ evs' = <<>> /\ cmds' = <<>>
    /\ addr' = [n \in Nicks |-> Unknown] /\ disp' = [d \in Dids |-> Unknown]
    /\ UNCHANGED <<appVars, serverVars, said, budget, seen, met, chosen, historyVars>>

\* The next session: who is there is known by nick, and the conversations of
\* earlier days are listed under the nicks they had.
Connect ==
    /\ ~online /\ online' = TRUE
    /\ seen' = [n \in Nicks |-> IF owner[n] = Nobody THEN Nobody ELSE Unknown] /\ met' = seen'
    /\ \E ps \in {q \in [1..Cardinality(budget.past) -> budget.past] :
                     \A p \in budget.past : \E i \in DOMAIN q : q[i] = p} :
           wire' = [i \in DOMAIN ps |-> [cmd |-> "TARGETS", nick |-> ps[i][1], who |-> ps[i][2]]]
    /\ held' = [n \in Nicks |-> IF owner[n] = Nobody THEN held[n] ELSE held[n] \cup {Unknown}]
    /\ UNCHANGED <<sdkVars, appVars, cmds, evs, owner, said, spent, budget, chosen,
                   historyVars>>

---------------------------------------------------------------------------
\* Who had a nick on earlier days
Earlier(n) == {d \in Dids : <<n, d>> \in budget.past}

Init ==
    /\ budget \in Budgets
    /\ addr = [n \in Nicks |-> Unknown] /\ disp = [d \in Dids |-> Unknown]
    /\ bound = [n \in Nicks |-> Unknown]
    /\ shown = {} /\ rows = [k \in Keys |-> {}] /\ local = [k \in Keys |-> {}]
    /\ open = Unknown
    /\ cmds = <<>> /\ evs = <<>> /\ online = FALSE /\ wire = <<>>
    /\ owner = [n \in Nicks |-> Nobody]
    /\ held = [n \in Nicks |-> IF Earlier(n) = {} THEN {} ELSE Earlier(n) \cup {Nobody}]
    /\ said = <<>> /\ spent = [moves |-> 0, drops |-> 0, whois |-> 0]
    /\ seen = [n \in Nicks |-> Nobody] /\ met = [n \in Nicks |-> Nobody]
    /\ chosen = NoRoute /\ refused = {} /\ routes = {}

Read == \/ ReadJoin \/ ReadQuit \/ ReadNick \/ ReadPrivmsg \/ ReadEcho
        \/ ReadWhois \/ ReadTargets
Handle == \/ OnMemberDid \/ OnJoined \/ OnUserQuit \/ OnNickChanged
          \/ OnMessage \/ OnTarget
User == \/ \E n \in Nicks : OpenProfile(n) \/ MessageNick(n)
        \/ \E k \in Keys : OpenThread(k)
        \/ Send
Outside == \/ \E n \in Nicks : Leave(n) \/ Whisper(n)
           \/ \E n \in Nicks, w \in Who : Arrive(n, w)
           \/ \E n, o \in Nicks : ChangeNick(n, o)
           \/ Drop \/ Connect

Next == Read \/ Handle \/ User \/ Execute \/ Outside

Spec == Init /\ [][Next]_vars

---------------------------------------------------------------------------
(* Properties                                                              *)

Waiting(m) ==
    \/ \E i \in 1..Len(wire) : wire[i].cmd \in {"PRIVMSG", "ECHO"} /\ wire[i].id = m
    \/ \E i \in 1..Len(evs) : evs[i].ev = "Message" /\ evs[i].id = m

\* The SDK's addressing map never points past the lines it read: a nick is
\* bound to the DID that holds it, through quits, renames and nicks that are
\* taken again (client.rs:263-266, "routing must never follow a stale binding").
SdkNeverStale == \A n \in Nicks : addr[n] # Unknown => addr[n] = seen[n]

\* What an account says is in the account's own thread and nowhere else,
\* whatever nick it came from and however threads are merged, unless a line of
\* it was lost with a session.
PeersOwnThread ==
    spent.drops = 0 =>
        \A m \in Ids : (said[m].from \in Dids /\ ~Waiting(m)) =>
            {k \in Keys : m \in rows[k]} = {said[m].from}

AtRest == wire = <<>> /\ evs = <<>> /\ cmds = <<>>

\* Without a lost session, every message that got through is in one thread and
\* one only, however threads were opened, merged and re-keyed meanwhile
\* (merge_dm_buffers, state.rs:2066-2110).
InOneThread ==
    (spent.drops = 0 /\ AtRest) =>
        \A m \in Ids \ refused : Cardinality({k \in shown : m \in rows[k]}) = 1

\* Which thread the copy comes to is open when several people had a nick of the
\* peer's, when the peer gave up the nick that names the thread and has another,
\* and when a session found the peer, whom it does not know by a line, under one
\* nick while an earlier nick names the account.
Ambiguous(peer) ==
    \/ \E n \in Nicks : /\ peer = n \/ peer \in held[n]
                        /\ Cardinality(held[n] \cap Who) > 1
    \/ \E n \in Nicks \ {peer} : /\ peer \in Nicks /\ Nobody \in held[peer]
                                 /\ held[n] \cap held[peer] \cap Who # {}
    \/ \E n, o \in Nicks : /\ n # o /\ Unknown \in held[n]
                           /\ peer \in Dids \cap held[n] \cap held[o]

\* Without a lost session, the optimistic row of a message is replaced by its
\* copy, whether the row is still where it was written or has been moved by a
\* merge when the peer's account was learned, unless nobody was there to take the
\* message or it is open which thread the copy comes to (app.rs:2586-2587, "the
\* echo lands in the same thread as the server echo").
EchoMeetsLocal ==
    (spent.drops = 0 /\ AtRest) =>
        \A k \in Keys : \A m \in local[k] :
            m \in refused \/ Ambiguous(said[m].to)

---------------------------------------------------------------------------
(* What comments of the code say and the code does not do.                 *)

\* The copy of a message that somebody was there to take lands in the thread of
\* its optimistic row and takes its place (app.rs:2586-2587).
EchoLandsWithRow ==
    (spent.drops = 0 /\ AtRest) => \A k \in Keys : local[k] \subseteq refused

\* A message to a nick goes to the DID it is bound to only when that is who has
\* the nick: by the lines that were read, or on the screen when it was clicked.
RoutingNeverStale ==
    \A r \in routes : (r.to \in Dids /\ r.meant # Unknown) => r.to \in {r.meant, r.now}
=============================================================================
