------------------------------ MODULE Requests ------------------------------
(***************************************************************************)
(* What the egui client asks for and how it tells late answers apart: the  *)
(* media upload of the composer, the profile gate, the policy gate and the *)
(* handle typeahead of the connect screen.                                 *)
(*                                                                         *)
(*   UI thread   compose_*, file_pick_rx           : compose, enc          *)
(*               profile_gate, policy_gate         : pg, pol               *)
(*               handle_typeahead                  : ta                    *)
(*   net thread  commands, events, the one upload  : cmds, evs, work       *)
(*               tasks spawned for HTTP requests   : asked                 *)
(*                                                                         *)
(* Uploads run inside the net thread's loop, one after the other; requests *)
(* of the gates run as tasks, so their answers come in any order.  A media *)
(* is a number, and its caption, room and bytes travel with it.  A query   *)
(* is a model value: text that differs only in case is the same query.     *)
(***************************************************************************)
EXTENDS Naturals, Sequences

CONSTANTS
    Nicks,     \* peers whose profile is opened
    Handles,   \* the nicks that look like a Bluesky handle
    Channels,  \* channels with a policy
    Queries,   \* typeahead queries long enough to search
    None,      \* nothing: closed, not known, not there
    Short,     \* the text of a field too short to search
    Budgets    \* how often each click or outside event may happen

ASSUME NamesAssumption ==
    /\ Handles \subseteq Nicks
    /\ None \notin Nicks \cup Channels \cup Queries
    /\ Short \notin Queries \cup {None}
ASSUME BudgetsAssumption ==
    Budgets \subseteq [media : Nat, sends : Nat, giveups : Nat, drops : Nat,
                       profiles : Nat, whois : Nat, gates : Nat,
                       refreshes : Nat, typing : Nat]

VARIABLES
    compose,  \* compose_attach, compose_uploading, compose_upload_id, file_pick_rx
    enc,      \* compose_encode_rx and _meta: the PNG worker the UI waits for
    cmds,     \* UI thread -> net thread: UploadAndSend
    work,     \* the upload the net thread awaits
    evs,      \* net thread -> UI thread: UploadFinished, Disconnected
    link,     \* the IRC session is up
    handle,   \* the net thread holds its ClientHandle
    shown,    \* the UI shows Connected or Registered
    pg,       \* profile_gate
    pol,      \* policy_gate, and history: how often it was closed
    ta,       \* handle_typeahead
    asked,    \* HTTP requests of the gates without an answer yet
    left,     \* what is left of the budget
    hist      \* history: posts, uploads given up, late picks, drafts lost

uploadVars == <<compose, enc, cmds, work, evs, link, handle, shown, hist>>
gateVars   == <<pg, pol, ta, asked>>
vars       == <<uploadVars, gateVars, left>>

Upload   == [id : Nat \ {0}, media : Nat \ {0}]
Finish   == [k : {"Finished"}, id : Nat \ {0}, media : Nat, ok : BOOLEAN]
Down     == [k |-> "Disconnected"]
Request  == [k : {"profile"}, id : Nat, of : Nicks]
       \cup [k : {"policy"}, id : Nat, of : Channels, round : Nat]
       \cup [k : {"handles"}, id : Nat, of : Queries]

ASSUME NoneAssumption == None \notin Upload

ClosedProfile(id) == [nick |-> None, did |-> FALSE, fid |-> id, busy |-> FALSE,
                      loading |-> FALSE, profile |-> None]
ClosedPolicy(r)   == [chan |-> None, fid |-> 0, loading |-> FALSE, accepting |-> FALSE,
                      refresh |-> FALSE, check |-> None, checkRound |-> 0, round |-> r]

Init ==
    /\ compose = [media |-> 0, video |-> FALSE, up |-> FALSE, id |-> 0, pick |-> FALSE,
                  newest |-> 0]
    /\ enc = None /\ work = None /\ cmds = <<>> /\ evs = <<>>
    /\ link = TRUE /\ handle = TRUE /\ shown = TRUE
    /\ pg = ClosedProfile(0)
    /\ pol = ClosedPolicy(0)
    /\ ta = [last |-> Short, at |-> FALSE, found |-> None, open |-> FALSE,
             loading |-> FALSE, inflight |-> 0, rid |-> 0, kept |-> FALSE]
    /\ asked = {}
    /\ left \in Budgets
    /\ hist = [posts |-> <<>>, given |-> {}, late |-> {}, lost |-> {}]

Spend(k) == left[k] > 0 /\ left' = [left EXCEPT ![k] = @ - 1]

-----------------------------------------------------------------------------
(* The composer on the UI thread *)

\* Slip: the id that disowns the running upload is left as it is.
CancelledSameId(c) == [c EXCEPT !.up = FALSE]

\* cancel_compose_upload: unlock, and disown whatever is under way
Cancelled(c) == [c EXCEPT !.up = FALSE, !.id = @ + 1]

\* Attach: a new picture or video takes the place of the one attached
Attached(c, video) ==
    [c EXCEPT !.media = c.newest + 1, !.newest = @ + 1, !.video = video]

Paste ==
    /\ ~compose.up
    /\ Spend("media")
    /\ compose' = Attached(compose, FALSE)
    /\ UNCHANGED <<enc, cmds, work, evs, link, handle, shown, hist, gateVars>>

OpenPicker ==
    /\ ~compose.up /\ ~compose.pick
    /\ Spend("media")
    /\ compose' = [compose EXCEPT !.pick = TRUE]
    /\ UNCHANGED <<enc, cmds, work, evs, link, handle, shown, hist, gateVars>>

\* The dialog's answer is applied whatever the composer does meanwhile.
Picked ==
    /\ compose.pick
    /\ \E video \in BOOLEAN :
          compose' = [Attached(compose, video) EXCEPT !.pick = FALSE]
    /\ hist' = IF compose.up THEN [hist EXCEPT !.late = @ \cup {compose'.media}] ELSE hist
    /\ UNCHANGED <<enc, cmds, work, evs, link, handle, shown, gateVars, left>>

\* Dismissed, failed, or older than PICK_UI_TIMEOUT
PickEnds ==
    /\ compose.pick
    /\ compose' = [compose EXCEPT !.pick = FALSE]
    /\ UNCHANGED <<enc, cmds, work, evs, link, handle, shown, hist, gateVars, left>>

\* Slip: neither the button nor the handler minds a running upload.
CanSendAgain == compose.media # 0 /\ shown

\* Send is offered, and do_send_with_attach goes on, only when nothing is under way
CanSend == compose.media # 0 /\ ~compose.up /\ shown

\* do_send_with_attach: a picture goes to the encoder, a video as it is
PressSend ==
    /\ CanSend
    /\ Spend("sends")
    /\ LET u == [id |-> compose.id + 1, media |-> compose.media]
       IN  /\ compose' = [compose EXCEPT !.up = TRUE, !.id = u.id]
           /\ IF compose.video THEN enc' = None /\ cmds' = Append(cmds, u)
                               ELSE enc' = u    /\ cmds' = cmds
    /\ UNCHANGED <<work, evs, link, handle, shown, hist, gateVars>>

\* poll_compose_encode: the PNG is there
EncodeDone ==
    /\ enc # None
    /\ enc' = None
    /\ cmds' = IF enc.id = compose.id THEN Append(cmds, enc) ELSE cmds
    /\ UNCHANGED <<compose, work, evs, link, handle, shown, hist, gateVars, left>>

\* ... or the worker reports an error or died
EncodeFails ==
    /\ enc # None
    /\ enc' = None
    /\ compose' = [compose EXCEPT !.up = FALSE]
    /\ UNCHANGED <<cmds, work, evs, link, handle, shown, hist, gateVars, left>>

\* Cancel on a running upload, or the 60 s watchdog: the net thread goes on.
GiveUp ==
    /\ compose.up
    /\ Spend("giveups")
    /\ compose' = Cancelled(compose)
    /\ enc' = None
    /\ hist' = [hist EXCEPT !.given = @ \cup {compose.id}]
    /\ UNCHANGED <<cmds, work, evs, link, handle, shown, gateVars>>

\* clear_compose_attach: removed by the user, or by another chat, edit or reply
RemoveMedia ==
    /\ compose.media # 0
    /\ compose' = [Cancelled(compose) EXCEPT !.media = 0, !.video = FALSE]
    /\ enc' = None
    /\ hist' = IF compose.up THEN [hist EXCEPT !.given = @ \cup {compose.id}] ELSE hist
    /\ UNCHANGED <<cmds, work, evs, link, handle, shown, gateVars, left>>

\* Slip: success empties the composer and forgets to unlock it.
FinishedLocked(c, e) ==
    IF e.id # c.id THEN c
    ELSE IF e.ok THEN [c EXCEPT !.media = 0, !.video = FALSE]
    ELSE [c EXCEPT !.up = FALSE]

\* UploadFinished: success empties the composer, an error leaves it for a retry.
Finished(c, e) ==
    IF e.id # c.id THEN c
    ELSE IF e.ok THEN [c EXCEPT !.up = FALSE, !.media = 0, !.video = FALSE]
    ELSE [c EXCEPT !.up = FALSE]

OnFinished ==
    /\ evs # <<>> /\ Head(evs) # Down
    /\ LET e == Head(evs)
       IN  /\ compose' = Finished(compose, e)
           /\ enc' = IF e.id = compose.id THEN None ELSE enc
           /\ hist' = IF compose.media \notin {compose'.media, e.media}
                        THEN [hist EXCEPT !.lost = @ \cup {compose.media}] ELSE hist
    /\ evs' = Tail(evs)
    /\ UNCHANGED <<cmds, work, link, handle, shown, gateVars, left>>

OnDown ==
    /\ evs # <<>> /\ Head(evs) = Down
    /\ evs' = Tail(evs)
    /\ shown' = FALSE
    /\ UNCHANGED <<compose, enc, cmds, work, link, handle, hist, gateVars, left>>

-----------------------------------------------------------------------------
(* The upload on the net thread *)

Reports(u, good) ==
    evs' = Append(evs, [k |-> "Finished", id |-> u.id, media |-> u.media, ok |-> good])

\* Slip: without a session the command is dropped and nobody is told.
NetTakesSilently ==
    /\ work = None /\ cmds # <<>>
    /\ cmds' = Tail(cmds)
    /\ work' = IF handle THEN Head(cmds) ELSE None
    /\ UNCHANGED <<compose, enc, evs, link, handle, shown, hist, gateVars, left>>

NetTakes ==
    /\ work = None /\ cmds # <<>>
    /\ cmds' = Tail(cmds)
    /\ IF handle THEN work' = Head(cmds) /\ evs' = evs
                 ELSE work' = None /\ Reports(Head(cmds), FALSE)
    /\ UNCHANGED <<compose, enc, link, handle, shown, hist, gateVars, left>>

\* upload_media has an URL: it is posted, unless the session is gone by now.
UploadDone ==
    /\ work # None
    /\ work' = None
    /\ Reports(work, link)
    /\ hist' = IF link THEN [hist EXCEPT !.posts = Append(@, work)] ELSE hist
    /\ UNCHANGED <<compose, enc, cmds, link, handle, shown, gateVars, left>>

\* An error of upload_media, its 45 s timeout included
UploadFails ==
    /\ work # None
    /\ work' = None
    /\ Reports(work, FALSE)
    /\ UNCHANGED <<compose, enc, cmds, link, handle, shown, hist, gateVars, left>>

\* The session (SleekSession has the whole of it), read between two commands
LinkDrops ==
    /\ link
    /\ Spend("drops")
    /\ link' = FALSE
    /\ UNCHANGED <<compose, enc, cmds, work, evs, handle, shown, hist, gateVars>>

NetNotices ==
    /\ ~link /\ handle /\ work = None
    /\ handle' = FALSE
    /\ evs' = Append(evs, Down)
    /\ UNCHANGED <<compose, enc, cmds, work, link, shown, hist, gateVars, left>>

Reconnected ==
    /\ ~link /\ ~handle /\ ~shown
    /\ link' = TRUE /\ handle' = TRUE /\ shown' = TRUE
    /\ UNCHANGED <<compose, enc, cmds, work, evs, hist, gateVars, left>>

UploadStep ==
    \/ Paste \/ OpenPicker \/ Picked \/ PickEnds \/ PressSend \/ EncodeDone \/ EncodeFails
    \/ GiveUp \/ RemoveMedia \/ OnFinished \/ OnDown
    \/ NetTakes \/ UploadDone \/ UploadFails \/ LinkDrops \/ NetNotices \/ Reconnected

-----------------------------------------------------------------------------
(* The profile gate *)

HasActor(g) == g.did \/ g.nick \in Handles

Fetches(g) == g.nick # None /\ ~g.busy /\ g.profile = None /\ HasActor(g)

\* maybe_fetch_profile_for_gate
Fetch(g) ==
    IF Fetches(g)
      THEN /\ pg' = [g EXCEPT !.busy = TRUE, !.loading = TRUE]
           /\ asked' = asked \cup {[k |-> "profile", id |-> g.fid, of |-> g.nick]}
      ELSE /\ pg' = IF g.profile # None /\ ~g.busy THEN [g EXCEPT !.loading = FALSE] ELSE g
           /\ asked' = asked

\* A nick is tapped; its DID may be known already.  WHOIS is sent as well.
OpenProfile ==
    /\ pg.nick = None
    /\ Spend("profiles")
    /\ \E n \in Nicks, known \in BOOLEAN :
          Fetch([ClosedProfile(pg.fid + 1) EXCEPT !.nick = n, !.did = known])
    /\ UNCHANGED <<pol, ta, uploadVars>>

\* Slip: closing resets the id as well, as the policy gate does.
CloseProfileAll ==
    /\ pg.nick # None
    /\ pg' = ClosedProfile(0)
    /\ UNCHANGED <<pol, ta, asked, uploadVars, left>>

CloseProfile ==
    /\ pg.nick # None
    /\ pg' = ClosedProfile(pg.fid)
    /\ UNCHANGED <<pol, ta, asked, uploadVars, left>>

\* MemberDid for the nick on screen
ProfileDid ==
    /\ pg.nick # None
    /\ Spend("whois")
    /\ Fetch([pg EXCEPT !.did = TRUE])
    /\ UNCHANGED <<pol, ta, uploadVars>>

\* WhoisReply for the nick on screen: without an actor nothing more is to come
ProfileWhois ==
    /\ pg.nick # None
    /\ Spend("whois")
    /\ IF pg.busy \/ pg.profile # None THEN UNCHANGED <<pg, asked>>
       ELSE IF HasActor(pg) THEN Fetch(pg)
       ELSE pg' = [pg EXCEPT !.loading = FALSE] /\ asked' = asked
    /\ UNCHANGED <<pol, ta, uploadVars>>

\* ProfileFetched: also applied to a gate that was closed and not reopened
ProfileAnswered(r, good) ==
    /\ asked' = asked \ {r}
    /\ pg' = IF r.id # pg.fid THEN pg
             ELSE [pg EXCEPT !.busy = FALSE, !.loading = FALSE, !.did = @ \/ good,
                             !.profile = IF good THEN r.of ELSE None]
    /\ UNCHANGED <<pol, ta, uploadVars, left>>

-----------------------------------------------------------------------------
(* The policy gate *)

AskPolicy(g) ==
    /\ pol' = [g EXCEPT !.loading = TRUE, !.fid = @ + 1]
    /\ asked' = asked \cup {[k |-> "policy", id |-> g.fid + 1, of |-> g.chan,
                             round |-> g.round]}

\* By a click, or by a denied JOIN at any time, over an open gate too
OpenPolicy ==
    /\ Spend("gates")
    /\ \E ch \in Channels :
          AskPolicy([pol EXCEPT !.chan = ch, !.accepting = FALSE, !.refresh = FALSE,
                                !.check = None, !.checkRound = 0])
    /\ UNCHANGED <<pg, ta, uploadVars>>

\* Cancel, or Join once the check allows it: every field back to its default
ClosePolicy ==
    /\ pol.chan # None
    /\ pol' = ClosedPolicy(pol.round + 1)
    /\ UNCHANGED <<pg, ta, asked, uploadVars, left>>

\* The Refresh button
RefreshPolicy ==
    /\ pol.chan # None
    /\ Spend("refreshes")
    /\ AskPolicy(pol)
    /\ UNCHANGED <<pg, ta, uploadVars>>

\* AcceptRules: POLICY ACCEPT is sent and the check asked again 900 ms later
AcceptRules ==
    /\ pol.check # None /\ ~pol.loading /\ ~pol.accepting
    /\ Spend("refreshes")
    /\ pol' = [pol EXCEPT !.accepting = TRUE, !.refresh = TRUE]
    /\ UNCHANGED <<pg, ta, asked, uploadVars>>

RefreshDue ==
    /\ pol.refresh
    /\ AskPolicy([pol EXCEPT !.refresh = FALSE])
    /\ UNCHANGED <<pg, ta, uploadVars, left>>

\* The server's notice that a policy is accepted
PolicyAccepted ==
    /\ Spend("refreshes")
    /\ \E ch \in Channels :
          IF ch = pol.chan THEN AskPolicy([pol EXCEPT !.accepting = FALSE])
                           ELSE UNCHANGED <<pol, asked>>
    /\ UNCHANGED <<pg, ta, uploadVars>>

\* PolicyFetched
PolicyAnswered(r, good) ==
    /\ asked' = asked \ {r}
    /\ pol' = IF r.id # pol.fid THEN pol
              ELSE [pol EXCEPT !.loading = FALSE, !.accepting = FALSE,
                               !.check = IF good THEN r.of ELSE None,
                               !.checkRound = IF good THEN r.round ELSE 0]
    /\ UNCHANGED <<pg, ta, uploadVars, left>>

-----------------------------------------------------------------------------
(* The handle typeahead.  pending_query is last_query, or empty when that is
   too short to search, so last stands for both. *)

\* sync_from_input; the list of the previous query stays up until the next answer
Type ==
    /\ Spend("typing")
    /\ \E q \in (Queries \cup {Short}) \ {ta.last} :
          ta' = IF q = Short
                  THEN [ta EXCEPT !.last = q, !.at = FALSE, !.found = None, !.open = FALSE,
                                  !.loading = ta.inflight # 0]
                  ELSE [ta EXCEPT !.last = q, !.at = TRUE, !.open = TRUE]
    /\ UNCHANGED <<pg, pol, asked, uploadVars>>

\* take_ready_fetch, after the debounce
SearchHandles ==
    /\ ta.at
    /\ ta' = [ta EXCEPT !.at = FALSE, !.rid = @ + 1, !.inflight = ta.rid + 1,
                        !.loading = TRUE]
    /\ asked' = asked \cup {[k |-> "handles", id |-> ta.rid + 1, of |-> ta.last]}
    /\ UNCHANGED <<pg, pol, uploadVars, left>>

Visible == ta.open /\ (ta.found # None \/ ta.loading)

\* pick, accept_selected: the handle chosen becomes the query, nothing is searched
ChooseHandle ==
    /\ Visible /\ ta.found # None
    /\ \E q \in Queries :
          ta' = [ta EXCEPT !.last = q, !.at = FALSE, !.open = FALSE, !.found = None]
    /\ UNCHANGED <<pg, pol, asked, uploadVars, left>>

\* Escape, a recent handle, the guest form, the sign-in button
Dismiss ==
    /\ ta.open
    /\ ta' = [ta EXCEPT !.open = FALSE]
    /\ UNCHANGED <<pg, pol, asked, uploadVars, left>>

\* apply_results and apply_failed: an answer to an older query is dropped, a
\* failure keeps the list that is there.  A field too short to search is empty,
\* which lets the answer in unseen, or not, which drops it.
HandlesAnswered(r, good, some) ==
    /\ asked' = asked \ {r}
    /\ LET t == [ta EXCEPT !.inflight = 0, !.loading = ta.at]
       IN  \/ r.id # ta.inflight /\ ta' = ta
           \/ r.id = ta.inflight /\ ~good /\ ta' = [t EXCEPT !.kept = TRUE]
           \/ r.id = ta.inflight /\ good /\ ta.last # r.of /\ ta' = t
           \/ /\ r.id = ta.inflight /\ good /\ ta.last \in {r.of, Short}
              /\ ta' = [t EXCEPT !.found = IF some THEN r.of ELSE None, !.kept = FALSE,
                                 !.open = some /\ ta.last # Short]
    /\ UNCHANGED <<pg, pol, uploadVars, left>>

\* A spawned task sends its answer; other tasks may overtake it.
Answered ==
    \E r \in asked, good \in BOOLEAN :
        \/ r.k = "profile" /\ ProfileAnswered(r, good)
        \/ r.k = "policy" /\ PolicyAnswered(r, good)
        \/ r.k = "handles" /\ \E some \in BOOLEAN : HandlesAnswered(r, good, some)

GateStep ==
    \/ OpenProfile \/ CloseProfile \/ ProfileDid \/ ProfileWhois
    \/ OpenPolicy \/ ClosePolicy \/ RefreshPolicy \/ AcceptRules \/ RefreshDue
    \/ PolicyAccepted \/ Type \/ SearchHandles \/ ChooseHandle \/ Dismiss \/ Answered

Next == UploadStep \/ GateStep

Spec == Init /\ [][Next]_vars

-----------------------------------------------------------------------------
(* Correctness *)

\* Types; the composer is locked only over an attachment (compose_uploading).
TypeOK ==
    /\ compose \in [media : Nat, video : BOOLEAN, up : BOOLEAN, id : Nat, pick : BOOLEAN,
                    newest : Nat]
    /\ compose.up => compose.media # 0
    /\ enc \in Upload \cup {None} /\ work \in Upload \cup {None}
    /\ cmds \in Seq(Upload) /\ evs \in Seq(Finish \cup {Down})
    /\ {link, handle, shown} \subseteq BOOLEAN
    /\ pg \in [nick : Nicks \cup {None}, did : BOOLEAN, fid : Nat, busy : BOOLEAN,
               loading : BOOLEAN, profile : Nicks \cup {None}]
    /\ pol \in [chan : Channels \cup {None}, fid : Nat, loading : BOOLEAN,
                accepting : BOOLEAN, refresh : BOOLEAN, check : Channels \cup {None},
                checkRound : Nat, round : Nat]
    /\ ta \in [last : Queries \cup {Short}, at : BOOLEAN, found : Queries \cup {None},
               open : BOOLEAN, loading : BOOLEAN, inflight : Nat, rid : Nat,
               kept : BOOLEAN]
    /\ asked \subseteq Request

UploadUnderWay(id) ==
    \/ enc # None /\ enc.id = id
    \/ work # None /\ work.id = id
    \/ \E i \in DOMAIN cmds : cmds[i].id = id
    \/ \E i \in DOMAIN evs : evs[i] # Down /\ evs[i].id = id

\* Whatever shows a spinner, or locks the composer, waits for an answer that is
\* still to come and that will be taken for its own (compose_uploading, the
\* loading flags of both gates and of the typeahead).
SpinnersEnd ==
    /\ compose.up => UploadUnderWay(compose.id)
    /\ pg.loading => \E r \in asked : r.k = "profile" /\ r.id = pg.fid
    /\ pol.loading => \E r \in asked : r.k = "policy" /\ r.id = pol.fid
    /\ pol.accepting => pol.refresh \/ pol.loading
    /\ ta.open /\ ta.loading =>
          ta.at \/ \E r \in asked : r.k = "handles" /\ r.id = ta.inflight

\* A gate shows the answer about its own nick or channel, however answers cross
\* with closing and reopening, and the typeahead at rest lists its own query.
\* The one exception of the policy gate is an answer asked for before it was
\* closed: close resets fetch_id, so that answer can match.  The one of the
\* typeahead is a failed search, which keeps the list of an earlier query.  Its
\* query is what it last took from the field: a recent handle is put there past it.
ShownIsAsked ==
    /\ pg.nick # None /\ pg.profile # None => pg.profile = pg.nick
    /\ pol.check # None /\ pol.checkRound = pol.round => pol.check = pol.chan
    /\ Visible /\ ~ta.at /\ ta.inflight = 0 /\ ta.found # None /\ ~ta.kept => ta.found = ta.last

\* A media is posted again only after the upload that posted it was given up, by
\* Cancel or by the watchdog: after a reported error a retry is safe.
RetrySafe ==
    \A i, j \in DOMAIN hist.posts :
        i < j /\ hist.posts[i].media = hist.posts[j].media
            => hist.posts[i].id \in hist.given

\* The end of an upload takes no other draft out of the composer, be it late or
\* of an upload that was given up; only a file whose dialog answers while the
\* upload runs is lost.
DraftSurvives == hist.lost \subseteq hist.late
=============================================================================
