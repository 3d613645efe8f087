-------------------------- MODULE Requests_proofs --------------------------
(***************************************************************************)
(* Theorems about Requests for every set of nicks, channels and queries    *)
(* and every budget.  Uploads and gates share no variable, so the          *)
(* invariant has a part for each.                                          *)
(***************************************************************************)
EXTENDS Requests, SequenceTheorems, TLAPS

---------------------------------------------------------------------------
(* The inductive invariant: uploads                                        *)

\* Uploads that may still be posted, and the reports of those that ended.
Single(u) == IF u = None THEN {} ELSE {u}
Elements(q) == {q[i] : i \in 1..Len(q)}
Ahead   == Single(enc) \cup Elements(cmds) \cup Single(work)
Told    == Elements(evs) \ {Down}
Flight  == Ahead \cup Told

UploadTypes ==
    /\ compose \in [media : Nat, video : BOOLEAN, up : BOOLEAN, id : Nat,
                    pick : BOOLEAN, newest : Nat]
    /\ compose.up => compose.media # 0
    /\ enc \in Upload \cup {None} /\ work \in Upload \cup {None}
    /\ cmds \in Seq(Upload) /\ evs \in Seq(Finish \cup {Down})
    /\ {link, handle, shown} \subseteq BOOLEAN
    /\ hist \in [posts : Seq(Upload), given : SUBSET Nat, late : SUBSET Nat,
                 lost : SUBSET Nat]

InOrder(q) == \A i, j \in 1..Len(q) :
                 i < j /\ q[i] # Down /\ q[j] # Down => q[i].id < q[j].id

\* What was sent later is behind: encoder, commands, net thread, events.
Ordered ==
    /\ InOrder(cmds) /\ InOrder(evs)
    /\ \A e \in Told, u \in Ahead : e.id < u.id
    /\ work # None => \A u \in Elements(cmds) \cup Single(enc) : work.id < u.id
    /\ enc # None => \A u \in Elements(cmds) : u.id < enc.id

\* An upload under way is the composer's own or was given up.
Owned ==
    /\ compose.media <= compose.newest
    /\ enc # None => enc.id = compose.id
    /\ \A u \in Flight :
          /\ u.id <= compose.id /\ u.media <= compose.newest
          /\ u.id < compose.id => u.id \in hist.given
          /\ u.id = compose.id =>
                /\ compose.up
                /\ u.media = compose.media \/ compose.media \in hist.late
    /\ compose.up => \E u \in Flight : u.id = compose.id

\* A posted media is the composer's as long as the report is on its way, and
\* nobody's afterwards.
Answering(p) == /\ compose.up /\ compose.id = p.id
                /\ \E e \in Told : e.id = p.id /\ e.ok
Settled(p) == compose.media # p.media /\ \A u \in Ahead : u.media # p.media
Placed(p)  == /\ p.media <= compose.newest
              /\ p.id \in hist.given \/ Answering(p) \/ Settled(p)
Posted     == \A i \in 1..Len(hist.posts) : Placed(hist.posts[i])

UploadInv == UploadTypes /\ Ordered /\ Owned /\ Posted /\ RetrySafe /\ DraftSurvives

---------------------------------------------------------------------------
(* The inductive invariant: gates and typeahead                            *)

\* The states of the gates and of the typeahead
ProfileGate == [nick : Nicks \cup {None}, did : BOOLEAN, fid : Nat, busy : BOOLEAN,
                loading : BOOLEAN, profile : Nicks \cup {None}]
PolicyGate  == [chan : Channels \cup {None}, fid : Nat, loading : BOOLEAN,
                accepting : BOOLEAN, refresh : BOOLEAN, check : Channels \cup {None},
                checkRound : Nat, round : Nat]
Typeahead   == [last : Queries \cup {Short}, at : BOOLEAN, found : Queries \cup {None},
                open : BOOLEAN, loading : BOOLEAN, inflight : Nat, rid : Nat,
                kept : BOOLEAN]

\* A request with the id of the profile gate is about the nick it shows.
ProfileInv(g, reqs) ==
    /\ \A r \in reqs : r.k = "profile" =>
          /\ r.id <= g.fid
          /\ r.id = g.fid /\ g.nick # None => r.of = g.nick
    /\ g.nick # None /\ g.profile # None => g.profile = g.nick
    /\ g.loading => \E r \in reqs : r.k = "profile" /\ r.id = g.fid

\* Of this opening of the policy gate, only the last request has its id.
PolicyInv(g, reqs) ==
    /\ \A r \in reqs : r.k = "policy" =>
          /\ 0 < r.id /\ r.round <= g.round
          /\ r.round = g.round => r.id <= g.fid
          /\ r.round = g.round /\ r.id = g.fid => r.of = g.chan
    /\ g.chan = None => ~g.loading /\ ~g.refresh /\ g.fid = 0 /\ g.check = None
    /\ g.check # None /\ g.checkRound = g.round => g.check = g.chan
    /\ g.loading => \E r \in reqs : r.k = "policy" /\ r.id = g.fid
    /\ g.accepting => g.refresh \/ g.loading

\* While the list is open and nothing is to be searched, the search under way is
\* the one for the text in the field.
HandlesInv(t, reqs) ==
    /\ \A r \in reqs : r.k = "handles" =>
          /\ 0 < r.id /\ r.id <= t.rid
          /\ r.id = t.inflight /\ t.open /\ ~t.at => r.of = t.last
    /\ t.inflight <= t.rid /\ (t.at => t.last # Short)
    /\ t.open /\ ~t.at /\ t.inflight = 0 /\ t.found # None /\ ~t.kept =>
          t.found = t.last
    /\ t.open /\ t.loading /\ ~t.at =>
          \E r \in reqs : r.k = "handles" /\ r.id = t.inflight

GateInv ==
    /\ asked \subseteq Request
    /\ pg \in ProfileGate /\ ProfileInv(pg, asked)
    /\ pol \in PolicyGate /\ PolicyInv(pol, asked)
    /\ ta \in Typeahead /\ HandlesInv(ta, asked)

IInv == UploadInv /\ GateInv

---------------------------------------------------------------------------
(* Sequences and what is in them                                           *)

LEMMA Appending ==
    ASSUME NEW S, NEW q \in Seq(S), NEW e \in S
    PROVE  /\ Append(q, e) \in Seq(S) /\ Len(q) \in Nat
           /\ Len(Append(q, e)) = Len(q) + 1
           /\ \A i \in 1..Len(q) : Append(q, e)[i] = q[i] /\ q[i] \in Elements(q)
           /\ Append(q, e)[Len(q) + 1] = e
           /\ Elements(Append(q, e)) = Elements(q) \cup {e}
<1>1. /\ Append(q, e) \in Seq(S) /\ Len(q) \in Nat
      /\ Len(Append(q, e)) = Len(q) + 1
      /\ \A i \in 1..Len(q) : Append(q, e)[i] = q[i]
      /\ Append(q, e)[Len(q) + 1] = e
  OBVIOUS
<1>2. \A i \in 1..Len(q) + 1 : i \in 1..Len(q) \/ i = Len(q) + 1
  BY <1>1
<1>3. 1..Len(q) \cup {Len(q) + 1} = 1..Len(q) + 1
  BY <1>1
<1> QED BY <1>1, <1>2, <1>3 DEF Elements

LEMMA Removing ==
    ASSUME NEW S, NEW q \in Seq(S), q # <<>>
    PROVE  /\ Tail(q) \in Seq(S) /\ Len(q) \in Nat /\ Len(q) >= 1
           /\ Len(Tail(q)) = Len(q) - 1
           /\ \A i \in 1..Len(q) - 1 : Tail(q)[i] = q[i + 1] /\ i + 1 \in 1..Len(q)
           /\ Head(q) = q[1] /\ Head(q) \in S /\ Head(q) \in Elements(q)
           /\ Elements(q) = Elements(Tail(q)) \cup {Head(q)}
<1>1. /\ Tail(q) \in Seq(S) /\ Len(q) \in Nat /\ Len(q) >= 1
      /\ Len(Tail(q)) = Len(q) - 1
      /\ \A i \in 1..Len(q) - 1 : Tail(q)[i] = q[i + 1]
      /\ Head(q) = q[1] /\ Head(q) \in S
  OBVIOUS
<1>2. \A i \in 1..Len(q) - 1 : i + 1 \in 1..Len(q)
  BY <1>1
<1>3. \A i \in 1..Len(q) : i = 1 \/ (i - 1 \in 1..Len(q) - 1 /\ i = (i - 1) + 1)
  BY <1>1
<1>4. \A i \in 1..Len(q) : q[i] \in Elements(Tail(q)) \cup {Head(q)}
  <2> TAKE i \in 1..Len(q)
  <2>1. CASE i = 1
    BY <1>1, <2>1
  <2>2. CASE i - 1 \in 1..Len(q) - 1 /\ i = (i - 1) + 1
    BY <1>1, <2>2 DEF Elements
  <2> QED BY <1>3, <2>1, <2>2
<1>5. \A x \in Elements(Tail(q)) \cup {Head(q)} : x \in Elements(q)
  BY <1>1, <1>2 DEF Elements
<1>6. Elements(q) \subseteq Elements(Tail(q)) \cup {Head(q)}
  BY <1>4 DEF Elements
<1> QED BY <1>1, <1>2, <1>5, <1>6

LEMMA NotDown ==
    /\ \A e \in Finish : e # Down
    /\ \A u \in Upload : u # Down
<1>1. \A e \in Finish : e # Down
  BY DEF Finish, Down
<1>2. ASSUME NEW u \in Upload PROVE u # Down
  <2>1. DOMAIN u = {"id", "media"} /\ DOMAIN Down = {"k"}
    BY DEF Upload, Down
  <2> QED BY <2>1
<1> QED BY <1>1, <1>2

LEMMA OrderAppend ==
    ASSUME NEW S, NEW q \in Seq(S), NEW e \in S, InOrder(q),
           \A x \in Elements(q) : x # Down => x.id < e.id
    PROVE  InOrder(Append(q, e))
<1> DEFINE r == Append(q, e)
<1>1. /\ Len(q) \in Nat /\ Len(r) = Len(q) + 1 /\ r[Len(q) + 1] = e
      /\ \A i \in 1..Len(q) : r[i] = q[i] /\ q[i] \in Elements(q)
  BY Appending
<1> HIDE DEF r
<1>2. ASSUME NEW i \in 1..Len(r), NEW j \in 1..Len(r), i < j, r[i] # Down, r[j] # Down
      PROVE  r[i].id < r[j].id
  <2>1. i \in 1..Len(q) /\ (j \in 1..Len(q) \/ j = Len(q) + 1)
    BY <1>1, <1>2
  <2>2. CASE j \in 1..Len(q)
    BY <1>1, <1>2, <2>1, <2>2 DEF InOrder
  <2>3. CASE j = Len(q) + 1
    BY <1>1, <1>2, <2>1, <2>3
  <2> QED BY <2>1, <2>2, <2>3
<1>3. InOrder(r)
  BY <1>2 DEF InOrder
<1> QED BY <1>3 DEF r

LEMMA OrderTail ==
    ASSUME NEW S, NEW q \in Seq(S), q # <<>>, InOrder(q)
    PROVE  /\ InOrder(Tail(q))
           /\ \A x \in Elements(Tail(q)) :
                 Head(q) # Down /\ x # Down => Head(q).id < x.id
<1> DEFINE r == Tail(q)
<1>1. /\ Len(q) \in Nat /\ Len(q) >= 1 /\ Len(r) = Len(q) - 1 /\ Head(q) = q[1]
      /\ \A i \in 1..Len(q) - 1 : r[i] = q[i + 1] /\ i + 1 \in 1..Len(q)
  BY Removing
<1> HIDE DEF r
<1>2. ASSUME NEW i \in 1..Len(r), NEW j \in 1..Len(r), i < j, r[i] # Down, r[j] # Down
      PROVE  r[i].id < r[j].id
  <2>1. i + 1 \in 1..Len(q) /\ j + 1 \in 1..Len(q) /\ i + 1 < j + 1
    BY <1>1, <1>2
  <2> QED BY <1>1, <1>2, <2>1 DEF InOrder
<1>3. ASSUME NEW i \in 1..Len(r), q[1] # Down, r[i] # Down
      PROVE  q[1].id < r[i].id
  <2>1. i + 1 \in 1..Len(q) /\ 1 \in 1..Len(q) /\ 1 < i + 1
    BY <1>1
  <2> QED BY <1>1, <1>3, <2>1 DEF InOrder
<1>4. \A x \in Elements(r) : q[1] # Down /\ x # Down => q[1].id < x.id
  BY <1>3 DEF Elements
<1>5. InOrder(r)
  BY <1>2 DEF InOrder
<1> QED BY <1>1, <1>4, <1>5 DEF r

\* What is under way has an id and a media.
LEMMA InFlight ==
    ASSUME UploadTypes
    PROVE  /\ Ahead \subseteq Upload /\ Told \subseteq Finish
           /\ \A u \in Flight : u.id \in Nat /\ u.id > 0 /\ u.media \in Nat
           /\ \A u \in Ahead : u.media > 0
<1>1. Elements(cmds) \subseteq Upload /\ Elements(evs) \subseteq Finish \cup {Down}
  BY DEF UploadTypes, Elements
<1>2. Ahead \subseteq Upload /\ Told \subseteq Finish
  BY <1>1 DEF UploadTypes, Ahead, Told, Single
<1>3. \A u \in Upload : u.id \in Nat /\ u.id > 0 /\ u.media \in Nat /\ u.media > 0
  BY DEF Upload
<1>4. \A e \in Finish : e.id \in Nat /\ e.id > 0 /\ e.media \in Nat
  BY DEF Finish
<1> QED BY <1>2, <1>3, <1>4 DEF Flight

---------------------------------------------------------------------------
(* Uploads                                                                 *)

\* What passes from one place to the next keeps its owner.
LEMMA PassedOn ==
    ASSUME UploadInv, UploadTypes',
           compose'.media = compose.media, compose'.up = compose.up,
           compose'.id = compose.id, compose'.newest = compose.newest,
           hist' = hist, enc' \in {None, enc},
           Ahead' \subseteq Ahead, Told \subseteq Told',
           \A u \in Flight' : \E v \in Flight : u.id = v.id /\ u.media = v.media,
           \A v \in Flight : \E u \in Flight' : u.id = v.id
    PROVE  Owned' /\ Posted' /\ RetrySafe' /\ DraftSurvives'
<1>1. Owned'
  <2>1. (compose.media <= compose.newest /\ (enc # None => enc.id = compose.id))'
    BY DEF UploadInv, Owned
  <2>2. ASSUME NEW u \in Flight'
        PROVE  /\ u.id <= compose'.id /\ u.media <= compose'.newest
               /\ u.id < compose'.id => u.id \in hist'.given
               /\ u.id = compose'.id =>
                     /\ compose'.up
                     /\ u.media = compose'.media \/ compose'.media \in hist'.late
    BY DEF UploadInv, Owned
  <2>3. compose'.up => \E u \in Flight' : u.id = compose'.id
    BY DEF UploadInv, Owned
  <2> QED BY <2>1, <2>2, <2>3 DEF Owned
<1>2. Posted'
  <2> SUFFICES ASSUME NEW i \in 1..Len(hist.posts)
               PROVE  Placed(hist.posts[i])'
    BY DEF Posted
  <2> DEFINE p == hist.posts[i]
  <2>1. Placed(p)
    BY DEF UploadInv, Posted
  <2>2. Answering(p) => Answering(p)'
    BY DEF Answering
  <2>3. Settled(p) => Settled(p)'
    BY DEF Settled
  <2> QED BY <2>1, <2>2, <2>3 DEF Placed
<1>3. RetrySafe' /\ DraftSurvives'
  BY DEF UploadInv, RetrySafe, DraftSurvives
<1> QED BY <1>1, <1>2, <1>3

\* The same when nothing moves at all.
LEMMA StaysPut ==
    ASSUME UploadInv, UploadTypes',
           compose'.media = compose.media, compose'.up = compose.up,
           compose'.id = compose.id, compose'.newest = compose.newest,
           UNCHANGED <<hist, enc, cmds, work, evs>>
    PROVE  UploadInv'
<1>1. Ahead' = Ahead /\ Told' = Told /\ Flight' = Flight
  BY DEF Ahead, Told, Flight, Single
<1>2. Ordered'
  BY <1>1 DEF UploadInv, Ordered, Single
<1>3. Owned' /\ Posted' /\ RetrySafe' /\ DraftSurvives'
  BY <1>1, PassedOn
<1> QED BY <1>2, <1>3 DEF UploadInv

\* Steps that touch neither an upload nor the attachment.
LEMMA StepAside ==
    ASSUME UploadInv, OpenPicker \/ PickEnds \/ LinkDrops \/ Reconnected
    PROVE  UploadInv'
<1>1. UploadTypes
  BY DEF UploadInv
<1>2. CASE OpenPicker \/ PickEnds
  <2>1. \/ compose' = [compose EXCEPT !.pick = TRUE]
        \/ compose' = [compose EXCEPT !.pick = FALSE]
    BY <1>2 DEF OpenPicker, PickEnds
  <2>2. UNCHANGED <<hist, enc, cmds, work, evs, link, handle, shown>>
    BY <1>2 DEF OpenPicker, PickEnds
  <2>3. UploadTypes'
    BY <1>1, <2>1, <2>2 DEF UploadTypes
  <2> QED BY <1>1, <2>1, <2>2, <2>3, StaysPut DEF UploadTypes
<1>3. CASE LinkDrops \/ Reconnected
  <2>1. /\ UNCHANGED <<compose, hist, enc, cmds, work, evs>>
        /\ {link, handle, shown}' \subseteq BOOLEAN
    BY <1>1, <1>3 DEF UploadTypes, LinkDrops, Reconnected
  <2>2. UploadTypes'
    BY <1>1, <2>1 DEF UploadTypes
  <2> QED BY <2>1, <2>2, StaysPut
<1> QED BY <1>2, <1>3

\* A new attachment has a number of its own.
LEMMA StepAttach ==
    ASSUME UploadInv, Paste \/ Picked
    PROVE  UploadInv'
<1> USE InFlight DEF UploadInv
<1>1. PICK video \in BOOLEAN, pick \in BOOLEAN :
         compose' = [compose EXCEPT !.media = compose.newest + 1, !.newest = @ + 1,
                                    !.video = video, !.pick = pick]
  <2>1. CASE Paste
    <3>1. compose' = [compose EXCEPT !.media = compose.newest + 1, !.newest = @ + 1,
                                     !.video = FALSE, !.pick = compose.pick]
      BY <2>1 DEF Paste, Attached, UploadTypes
    <3> QED BY <3>1 DEF UploadTypes
  <2>2. CASE Picked
    BY <2>2 DEF Picked, Attached, UploadTypes
  <2> QED BY <2>1, <2>2
<1>2. /\ compose'.media = compose.newest + 1 /\ compose'.newest = compose.newest + 1
      /\ compose'.up = compose.up /\ compose'.id = compose.id
      /\ compose.newest \in Nat /\ compose.media \in Nat
  BY <1>1 DEF UploadTypes
<1>3. UNCHANGED <<enc, cmds, work, evs, link, handle, shown>>
  BY DEF Paste, Picked
<1>4. /\ hist'.posts = hist.posts /\ hist'.given = hist.given /\ hist'.lost = hist.lost
      /\ hist.late \subseteq hist'.late
      /\ compose.up => compose'.media \in hist'.late
      /\ hist' \in [posts : Seq(Upload), given : SUBSET Nat, late : SUBSET Nat,
                    lost : SUBSET Nat]
  <2>1. CASE Paste
    BY <2>1 DEF Paste, UploadTypes
  <2>2. CASE Picked
    <3>1. compose'.media \in Nat
      BY <1>2
    <3>2. CASE compose.up
      <4>1. hist' = [hist EXCEPT !.late = @ \cup {compose'.media}]
        BY <2>2, <3>2 DEF Picked
      <4> QED BY <3>1, <4>1 DEF UploadTypes
    <3>3. CASE ~compose.up
      BY <2>2, <3>3 DEF Picked, UploadTypes
    <3> QED BY <3>2, <3>3
  <2> QED BY <2>1, <2>2
<1>5. UploadTypes'
  <2>1. compose' \in [media : Nat, video : BOOLEAN, up : BOOLEAN, id : Nat,
                      pick : BOOLEAN, newest : Nat]
    <3>1. compose.newest + 1 \in Nat
      BY <1>2
    <3> QED BY <1>1, <3>1 DEF UploadTypes
  <2>2. compose'.media # 0
    BY <1>2
  <2> QED BY <1>3, <1>4, <2>1, <2>2 DEF UploadTypes
<1>6. Ahead' = Ahead /\ Told' = Told /\ Flight' = Flight
  BY <1>3 DEF Ahead, Told, Flight, Single
<1>7. Ordered'
  BY <1>3, <1>6 DEF Ordered, Single
<1>8. Owned'
  BY <1>2, <1>3, <1>4, <1>6 DEF Owned
<1>9. Posted'
  <2> SUFFICES ASSUME NEW i \in 1..Len(hist.posts)
               PROVE  Placed(hist.posts[i])'
    BY <1>4 DEF Posted
  <2> DEFINE p == hist.posts[i]
  <2>1. hist.posts[i] \in Upload
    BY DEF UploadTypes
  <2>2. p.media \in Nat
    BY <2>1 DEF Upload
  <2>3. Placed(p) /\ p.media <= compose.newest
    BY DEF Posted, Placed
  <2>4. Answering(p) => Answering(p)'
    BY <1>2, <1>4, <1>6 DEF Answering
  <2>5. Settled(p) => Settled(p)'
    BY <1>2, <1>4, <1>6, <2>2, <2>3 DEF Settled
  <2> QED BY <1>2, <1>4, <2>2, <2>3, <2>4, <2>5 DEF Placed
<1>10. RetrySafe' /\ DraftSurvives'
  BY <1>4 DEF RetrySafe, DraftSurvives
<1> QED BY <1>5, <1>7, <1>8, <1>9, <1>10

\* The composer becomes the owner of a new upload, the last in line.
LEMMA StepSend ==
    ASSUME UploadInv, PressSend
    PROVE  UploadInv'
<1> USE InFlight DEF UploadInv
<1> DEFINE u == [id |-> compose.id + 1, media |-> compose.media]
<1>1. /\ compose.media # 0 /\ ~compose.up
      /\ compose' = [compose EXCEPT !.up = TRUE, !.id = u.id]
      /\ UNCHANGED <<work, evs, link, handle, shown, hist>>
  BY DEF PressSend, CanSend
<1>2. u \in Upload /\ u # None
  BY <1>1, NoneAssumption DEF UploadTypes, Upload
<1>3. /\ compose'.media = compose.media /\ compose'.newest = compose.newest
      /\ compose'.up /\ compose'.id = compose.id + 1
      /\ compose.id \in Nat /\ compose.media \in Nat
  BY <1>1 DEF UploadTypes
<1>4. enc = None
  BY <1>1, NoneAssumption DEF Owned, UploadTypes, Flight, Ahead, Single
<1>5. \/ enc' = u /\ cmds' = cmds
      \/ enc' = None /\ cmds' = Append(cmds, u)
  BY DEF PressSend
<1>6. UploadTypes'
  <2>1. compose' \in [media : Nat, video : BOOLEAN, up : BOOLEAN, id : Nat,
                      pick : BOOLEAN, newest : Nat]
    <3>1. u.id \in Nat
      BY <1>3
    <3> HIDE DEF u
    <3> QED BY <1>1, <3>1 DEF UploadTypes
  <2>2. enc' \in Upload \cup {None} /\ cmds' \in Seq(Upload)
    <3> HIDE DEF u
    <3>1. CASE enc' = u /\ cmds' = cmds
      BY <1>2, <3>1 DEF UploadTypes
    <3>2. CASE enc' = None /\ cmds' = Append(cmds, u)
      BY <1>2, <3>2, Appending DEF UploadTypes
    <3> QED BY <1>5, <3>1, <3>2
  <2> QED BY <1>1, <1>3, <2>1, <2>2 DEF UploadTypes
<1>7. Ahead' = Ahead \cup {u} /\ Told' = Told /\ Flight' = Flight \cup {u}
  <2>1. Told' = Told
    BY <1>1 DEF Told
  <2>2. CASE enc' = u /\ cmds' = cmds
    BY <1>1, <1>2, <1>4, <2>1, <2>2 DEF Ahead, Flight, Single
  <2>3. CASE enc' = None /\ cmds' = Append(cmds, u)
    <3>1. Elements(cmds') = Elements(cmds) \cup {u}
      BY <1>2, <2>3, Appending DEF UploadTypes
    <3> QED BY <1>1, <1>4, <2>1, <2>3, <3>1 DEF Ahead, Flight, Single
  <2> QED BY <1>5, <2>2, <2>3
<1>8. \A v \in Flight : v.id <= compose.id /\ v.id < u.id
  BY <1>3 DEF Owned
<1>9. Ordered'
  <2>1. \A v \in Elements(cmds) : v.id < u.id
    BY <1>8 DEF Flight, Ahead
  <2>2. work # None => work.id < u.id
    BY <1>8 DEF Flight, Ahead, Single
  <2>3. (\A e \in Told, v \in Ahead : e.id < v.id)'
    BY <1>7, <1>8 DEF Ordered, Flight
  <2>4. CASE enc' = u /\ cmds' = cmds
    BY <1>1, <1>4, <2>1, <2>2, <2>3, <2>4 DEF Ordered, Single
  <2>5. CASE enc' = None /\ cmds' = Append(cmds, u)
    <3>1. Elements(cmds') = Elements(cmds) \cup {u}
      BY <1>2, <2>5, Appending DEF UploadTypes
    <3>2. InOrder(cmds')
      BY <1>2, <2>1, <2>5, OrderAppend DEF UploadTypes, Ordered
    <3> QED BY <1>1, <1>4, <2>2, <2>3, <2>5, <3>1, <3>2 DEF Ordered, Single
  <2> QED BY <1>5, <2>4, <2>5
<1>10. Owned'
  <2>1. (compose.media <= compose.newest /\ (enc # None => enc.id = compose.id))'
    BY <1>3, <1>5 DEF Owned
  <2>2. \A v \in Flight : /\ v.id < compose'.id /\ v.media <= compose'.newest
                          /\ v.id \in hist'.given
    BY <1>1, <1>3, <1>8 DEF Owned
  <2>3. u.id = compose'.id /\ u.media = compose'.media /\ u.media <= compose'.newest
    BY <1>3, <2>1
  <2>4. u \in Flight'
    BY <1>7
  <2>5. ASSUME NEW v \in Flight'
        PROVE  /\ v.id <= compose'.id /\ v.media <= compose'.newest
               /\ v.id < compose'.id => v.id \in hist'.given
               /\ v.id = compose'.id =>
                     /\ compose'.up
                     /\ v.media = compose'.media \/ compose'.media \in hist'.late
    <3>1. CASE v = u
      BY <1>3, <2>3, <3>1
    <3>2. CASE v \in Flight
      BY <1>3, <2>2, <3>2
    <3> QED BY <1>7, <3>1, <3>2
  <2> QED BY <2>1, <2>3, <2>4, <2>5 DEF Owned
<1>11. Posted'
  <2> SUFFICES ASSUME NEW i \in 1..Len(hist.posts)
               PROVE  Placed(hist.posts[i])'
    BY <1>1 DEF Posted
  <2> DEFINE p == hist.posts[i]
  <2>1. ~Answering(p)
    BY <1>1 DEF Answering
  <2>2. u.media = compose.media
    OBVIOUS
  <2> HIDE DEF u
  <2>3. Settled(p) => Settled(p)'
    BY <1>1, <1>3, <1>7, <2>2 DEF Settled
  <2> QED BY <1>1, <1>3, <2>1, <2>3 DEF Posted, Placed
<1>12. RetrySafe' /\ DraftSurvives'
  BY <1>1 DEF RetrySafe, DraftSurvives
<1> QED BY <1>6, <1>9, <1>10, <1>11, <1>12

\* A finished PNG goes to the end of the commands.
LEMMA StepEncoded ==
    ASSUME UploadInv, EncodeDone
    PROVE  UploadInv'
<1> USE InFlight DEF UploadInv
<1>1. /\ enc # None /\ enc' = None /\ enc \in Upload /\ enc.id = compose.id
      /\ cmds' = Append(cmds, enc)
      /\ UNCHANGED <<compose, work, evs, link, handle, shown, hist>>
  BY DEF EncodeDone, UploadTypes, Owned
<1>2. UploadTypes'
  BY <1>1, Appending DEF UploadTypes
<1>3. Elements(cmds') = Elements(cmds) \cup {enc}
  BY <1>1, Appending DEF UploadTypes
<1>4. Ahead' = Ahead /\ Told' = Told /\ Flight' = Flight
  BY <1>1, <1>3 DEF Ahead, Told, Flight, Single
<1>5. Ordered'
  <2>1. InOrder(cmds')
    <3>1. \A x \in Elements(cmds) : x.id < enc.id
      BY <1>1 DEF Ordered
    <3> QED BY <1>1, <3>1, OrderAppend DEF UploadTypes, Ordered
  <2> QED BY <1>1, <1>3, <1>4, <2>1 DEF Ordered, Single
<1>6. Owned' /\ Posted' /\ RetrySafe' /\ DraftSurvives'
  BY <1>1, <1>2, <1>4, PassedOn
<1> QED BY <1>2, <1>5, <1>6

\* The upload the encoder has is the last one: nothing of the composer is left.
LEMMA StepEncodeFails ==
    ASSUME UploadInv, EncodeFails
    PROVE  UploadInv'
<1> USE InFlight DEF UploadInv
<1>1. /\ enc # None /\ enc' = None /\ enc \in Upload /\ enc.id = compose.id
      /\ compose' = [compose EXCEPT !.up = FALSE]
      /\ UNCHANGED <<cmds, work, evs, link, handle, shown, hist>>
  BY DEF EncodeFails, UploadTypes, Owned
<1>2. /\ compose'.media = compose.media /\ compose'.newest = compose.newest
      /\ compose'.id = compose.id /\ compose'.up = FALSE
  BY <1>1 DEF UploadTypes
<1>3. UploadTypes'
  BY <1>1 DEF UploadTypes
<1>4. Told' = Told /\ Ahead' \subseteq Ahead /\ Flight' \subseteq Flight /\ enc \in Ahead
  BY <1>1 DEF Ahead, Told, Flight, Single
<1>5. \A u \in Flight' : u.id < compose.id
  <2>1. \A e \in Told' : e.id < enc.id
    BY <1>4 DEF Ordered
  <2>2. \A u \in Ahead' : u.id < enc.id
    BY <1>1 DEF Ordered, Ahead, Single
  <2> QED BY <1>1, <2>1, <2>2 DEF Flight
<1>6. Ordered'
  BY <1>1, <1>4 DEF Ordered, Single
<1>7. Owned'
  BY <1>1, <1>2, <1>4, <1>5 DEF Owned
<1>8. Posted'
  <2> SUFFICES ASSUME NEW i \in 1..Len(hist.posts)
               PROVE  Placed(hist.posts[i])'
    BY <1>1 DEF Posted
  <2> DEFINE p == hist.posts[i]
  <2>1. Placed(p)
    BY DEF Posted
  <2>2. ~Answering(p)
    BY <1>4, <1>5 DEF Answering, Flight
  <2>3. Settled(p) => Settled(p)'
    BY <1>1, <1>2, <1>4 DEF Settled
  <2> QED BY <1>1, <1>2, <2>1, <2>2, <2>3 DEF Placed
<1>9. RetrySafe' /\ DraftSurvives'
  BY <1>1 DEF RetrySafe, DraftSurvives
<1> QED BY <1>3, <1>6, <1>7, <1>8, <1>9

\* Cancel, the watchdog and the removal of the attachment disown the upload.
LEMMA StepDisown ==
    ASSUME UploadInv, GiveUp \/ RemoveMedia
    PROVE  UploadInv'
<1> USE InFlight DEF UploadInv
<1>1. PICK media \in {compose.media, 0}, video \in BOOLEAN :
         compose' = [compose EXCEPT !.media = media, !.video = video, !.up = FALSE,
                                    !.id = compose.id + 1]
  <2>1. CASE GiveUp
    <3>1. compose' = [compose EXCEPT !.media = compose.media, !.video = compose.video,
                                     !.up = FALSE, !.id = compose.id + 1]
      BY <2>1 DEF GiveUp, Cancelled, UploadTypes
    <3> QED BY <3>1 DEF UploadTypes
  <2>2. CASE RemoveMedia
    BY <2>2 DEF RemoveMedia, Cancelled, UploadTypes
  <2> QED BY <2>1, <2>2
<1>2. /\ compose'.media \in {compose.media, 0} /\ compose'.newest = compose.newest
      /\ compose'.id = compose.id + 1 /\ compose'.up = FALSE
      /\ compose.id \in Nat /\ compose.newest \in Nat
  BY <1>1 DEF UploadTypes
<1>3. enc' = None /\ UNCHANGED <<cmds, work, evs, link, handle, shown>>
  BY DEF GiveUp, RemoveMedia
<1>4. /\ hist'.posts = hist.posts /\ hist'.lost = hist.lost /\ hist'.late = hist.late
      /\ hist.given \subseteq hist'.given
      /\ compose.up => compose.id \in hist'.given
      /\ hist' \in [posts : Seq(Upload), given : SUBSET Nat, late : SUBSET Nat,
                    lost : SUBSET Nat]
  <2>1. CASE hist' = [hist EXCEPT !.given = @ \cup {compose.id}]
    BY <1>2, <2>1 DEF UploadTypes
  <2>2. CASE hist' = hist /\ ~compose.up
    BY <2>2 DEF UploadTypes
  <2> QED BY <2>1, <2>2 DEF GiveUp, RemoveMedia
<1>5. UploadTypes'
  <2>1. compose.id + 1 \in Nat /\ media \in Nat
    BY <1>1, <1>2 DEF UploadTypes
  <2>2. compose' \in [media : Nat, video : BOOLEAN, up : BOOLEAN, id : Nat,
                      pick : BOOLEAN, newest : Nat]
    BY <1>1, <2>1 DEF UploadTypes
  <2> QED BY <1>2, <1>3, <1>4, <2>2 DEF UploadTypes
<1>6. Told' = Told /\ Ahead' \subseteq Ahead /\ Flight' \subseteq Flight
  BY <1>3 DEF Ahead, Told, Flight, Single
<1>7. Ordered'
  BY <1>3, <1>6 DEF Ordered, Single
<1>8. Owned'
  <2>1. \A u \in Flight' : u.id < compose'.id /\ u.id \in hist'.given
    BY <1>2, <1>4, <1>6 DEF Owned
  <2> QED BY <1>2, <1>3, <1>6, <2>1 DEF Owned
<1>9. Posted'
  <2> SUFFICES ASSUME NEW i \in 1..Len(hist.posts)
               PROVE  Placed(hist.posts[i])'
    BY <1>4 DEF Posted
  <2> DEFINE p == hist.posts[i]
  <2>1. Placed(p)
    BY DEF Posted
  <2>2. p.media # 0
    <3>1. p \in Upload
      BY DEF UploadTypes
    <3> QED BY <3>1 DEF Upload
  <2>3. Answering(p) => p.id \in hist'.given
    BY <1>4 DEF Answering
  <2>4. Settled(p) => Settled(p)'
    BY <1>2, <1>4, <1>6, <2>2 DEF Settled
  <2> QED BY <1>2, <1>4, <2>1, <2>3, <2>4 DEF Placed
<1>10. RetrySafe' /\ DraftSurvives'
  BY <1>4 DEF RetrySafe, DraftSurvives
<1> QED BY <1>5, <1>7, <1>8, <1>9, <1>10

\* What the net thread reports ends one upload, the first of those ahead.
LEMMA Reporting ==
    ASSUME UploadInv, UploadTypes', NEW x \in Upload, NEW good \in BOOLEAN,
           Reports(x, good), Ahead = Ahead' \cup {x}, \A u \in Ahead' : x.id < u.id,
           InOrder(cmds'), Elements(cmds') \subseteq Elements(cmds),
           work' = None, enc' = enc
    PROVE  /\ Told' = Told \cup {[k |-> "Finished", id |-> x.id, media |-> x.media,
                                  ok |-> good]}
           /\ Ordered'
<1> USE InFlight, NotDown DEF UploadInv
<1> DEFINE e == [k |-> "Finished", id |-> x.id, media |-> x.media, ok |-> good]
<1>1. x.id \in Nat \ {0} /\ x.media \in Nat
  BY DEF Upload
<1>2. e \in Finish /\ e # Down /\ e.id = x.id
  BY <1>1 DEF Finish
<1>3. evs' = Append(evs, e)
  BY DEF Reports
<1> HIDE DEF e
<1>4. Elements(evs') = Elements(evs) \cup {e}
  <2>1. e \in Finish \cup {Down} /\ evs \in Seq(Finish \cup {Down})
    BY <1>2 DEF UploadTypes
  <2> QED BY <1>3, <2>1, Appending
<1>5. Told' = Told \cup {e}
  BY <1>2, <1>4 DEF Told
<1>6. \A t \in Told : t.id < x.id
  BY DEF Ordered
<1>7. InOrder(evs')
  <2>1. \A t \in Elements(evs) : t # Down => t.id < e.id
    BY <1>2, <1>6 DEF Told
  <2> QED BY <1>2, <1>3, <2>1, OrderAppend DEF UploadTypes, Ordered
<1>8. Ordered'
  BY <1>2, <1>5, <1>7 DEF Ordered, Single
<1> QED BY <1>5, <1>8 DEF e

\* A command is taken, or refused when there is no session.
LEMMA StepNetTakes ==
    ASSUME UploadInv, NetTakes
    PROVE  UploadInv'
<1> USE InFlight, NotDown DEF UploadInv
<1> DEFINE x == Head(cmds)
<1>1. /\ work = None /\ cmds # <<>> /\ cmds' = Tail(cmds)
      /\ UNCHANGED <<compose, enc, link, handle, shown, hist>>
  BY DEF NetTakes
<1>2. /\ x \in Upload /\ cmds' \in Seq(Upload)
      /\ Elements(cmds) = Elements(cmds') \cup {x}
  BY <1>1, Removing DEF UploadTypes
<1>3. InOrder(cmds') /\ \A u \in Elements(cmds') : x.id < u.id
  <2>1. \A u \in Elements(cmds') : u \in Upload /\ u # Down
    BY <1>2 DEF Elements
  <2> QED BY <1>1, <1>2, <2>1, OrderTail DEF UploadTypes, Ordered
<1>4. enc # None => x.id < enc.id
  BY <1>2 DEF Ordered
<1> HIDE DEF x
<1>5. CASE handle
  <2>1. work' = x /\ evs' = evs
    BY <1>5 DEF NetTakes, x
  <2>2. UploadTypes'
    BY <1>1, <1>2, <2>1 DEF UploadTypes
  <2>3. x # None
    BY <1>2, NoneAssumption
  <2>4. Ahead' = Ahead /\ Told' = Told /\ Flight' = Flight
    BY <1>1, <1>2, <2>1, <2>3 DEF Ahead, Told, Flight, Single
  <2>5. Ordered'
    <3>1. \A u \in Elements(cmds') \cup Single(enc') : x.id < u.id
      BY <1>1, <1>3, <1>4 DEF Single
    <3> QED BY <1>1, <1>2, <1>3, <2>1, <2>4, <3>1 DEF Ordered
  <2>6. Owned' /\ Posted' /\ RetrySafe' /\ DraftSurvives'
    BY <1>1, <2>2, <2>4, PassedOn
  <2> QED BY <2>2, <2>5, <2>6
<1>6. CASE ~handle
  <2>1. work' = None /\ Reports(x, FALSE)
    BY <1>6 DEF NetTakes, x
  <2>2. UploadTypes'
    <3>1. x.id \in Nat \ {0} /\ x.media \in Nat
      BY <1>2 DEF Upload
    <3>2. [k |-> "Finished", id |-> x.id, media |-> x.media, ok |-> FALSE] \in Finish
      BY <3>1 DEF Finish
    <3>3. evs' \in Seq(Finish \cup {Down})
      BY <2>1, <3>2, Appending DEF UploadTypes, Reports
    <3> QED BY <1>1, <1>2, <2>1, <3>3 DEF UploadTypes
  <2>3. Ahead = Ahead' \cup {x} /\ \A u \in Ahead' : x.id < u.id
    <3>1. \A u \in Single(enc) : x.id < u.id
      BY <1>4 DEF Single
    <3> QED BY <1>1, <1>2, <1>3, <2>1, <3>1 DEF Ahead, Single
  <2> DEFINE e == [k |-> "Finished", id |-> x.id, media |-> x.media, ok |-> FALSE]
  <2>4. Told' = Told \cup {e} /\ Ordered'
    BY <1>1, <1>2, <1>3, <2>1, <2>2, <2>3, Reporting
  <2>5. e.id = x.id /\ e.media = x.media
    OBVIOUS
  <2> HIDE DEF e
  <2>6. /\ \A u \in Flight' : \E v \in Flight : u.id = v.id /\ u.media = v.media
        /\ \A v \in Flight : \E u \in Flight' : u.id = v.id
    BY <2>3, <2>4, <2>5 DEF Flight
  <2>7. Owned' /\ Posted' /\ RetrySafe' /\ DraftSurvives'
    BY <1>1, <2>2, <2>3, <2>4, <2>6, PassedOn
  <2> QED BY <2>2, <2>4, <2>7
<1> QED BY <1>5, <1>6

\* The upload of the net thread ends; it is posted if there is a session.
LEMMA StepUploaded ==
    ASSUME UploadInv, UploadDone \/ UploadFails
    PROVE  UploadInv'
<1> USE InFlight DEF UploadInv
<1>1. /\ work # None /\ work \in Upload /\ work' = None
      /\ UNCHANGED <<compose, enc, cmds, link, handle, shown>>
  BY DEF UploadDone, UploadFails, UploadTypes
<1>2. PICK good \in BOOLEAN :
         /\ Reports(work, good)
         /\ hist' = IF good THEN [hist EXCEPT !.posts = Append(@, work)] ELSE hist
  BY DEF UploadDone, UploadFails, UploadTypes
<1>3. /\ hist'.given = hist.given /\ hist'.late = hist.late /\ hist'.lost = hist.lost
      /\ hist'.posts = IF good THEN Append(hist.posts, work) ELSE hist.posts
  BY <1>2 DEF UploadTypes
<1> DEFINE e == [k |-> "Finished", id |-> work.id, media |-> work.media, ok |-> good]
<1>4. UploadTypes'
  <2>1. work.id \in Nat \ {0} /\ work.media \in Nat
    BY <1>1 DEF Upload
  <2>2. e \in Finish
    BY <2>1 DEF Finish
  <2> HIDE DEF e
  <2>3. evs' = Append(evs, e)
    BY <1>2 DEF Reports, e
  <2>4. evs' \in Seq(Finish \cup {Down})
    BY <2>2, <2>3, Appending DEF UploadTypes
  <2>5. hist' \in [posts : Seq(Upload), given : SUBSET Nat, late : SUBSET Nat,
                   lost : SUBSET Nat]
    <3>1. Append(hist.posts, work) \in Seq(Upload)
      BY <1>1, Appending DEF UploadTypes
    <3>2. CASE good
      BY <1>2, <3>1, <3>2 DEF UploadTypes
    <3>3. CASE ~good
      BY <1>2, <3>3 DEF UploadTypes
    <3> QED BY <3>2, <3>3
  <2> QED BY <1>1, <2>4, <2>5 DEF UploadTypes
<1>5. Ahead = Ahead' \cup {work} /\ \A u \in Ahead' : work.id < u.id
  <2>1. Ahead' = Single(enc) \cup Elements(cmds)
    BY <1>1 DEF Ahead, Single
  <2> QED BY <1>1, <2>1 DEF Ahead, Single, Ordered
<1>6. Told' = Told \cup {e} /\ Ordered'
  BY <1>1, <1>2, <1>4, <1>5, Reporting DEF Ordered
<1>7. e.id = work.id /\ e.media = work.media /\ e.ok = good
  OBVIOUS
<1> HIDE DEF e
<1>8. /\ \A u \in Flight' : \E v \in Flight : u.id = v.id /\ u.media = v.media
      /\ \A v \in Flight : \E u \in Flight' : u.id = v.id
  BY <1>5, <1>6, <1>7 DEF Flight
<1>9. CASE ~good
  <2>1. hist' = hist
    BY <1>2, <1>9
  <2> QED BY <1>1, <1>4, <1>5, <1>6, <1>8, <2>1, PassedOn
<1>10. CASE good
  <2>1. /\ work \in Flight /\ work.id <= compose.id /\ work.media <= compose.newest
        /\ work.id \in Nat /\ compose.id \in Nat
    BY <1>5 DEF Owned, Flight, UploadTypes
  <2>2. Owned'
    <3>1. (enc # None => enc.id = compose.id)'
      BY <1>1 DEF Owned
    <3>2. ASSUME NEW u \in Flight'
          PROVE  /\ u.id <= compose'.id /\ u.media <= compose'.newest
                 /\ u.id < compose'.id => u.id \in hist'.given
                 /\ u.id = compose'.id =>
                       /\ compose'.up
                       /\ u.media = compose'.media \/ compose'.media \in hist'.late
      BY <1>1, <1>3, <1>8 DEF Owned
    <3>3. compose'.up => \E u \in Flight' : u.id = compose'.id
      BY <1>1, <1>8 DEF Owned
    <3> QED BY <1>1, <3>1, <3>2, <3>3 DEF Owned
  <2>3. /\ Len(hist.posts) \in Nat /\ Len(hist'.posts) = Len(hist.posts) + 1
        /\ \A i \in 1..Len(hist.posts) : hist'.posts[i] = hist.posts[i]
        /\ hist'.posts[Len(hist.posts) + 1] = work
    BY <1>1, <1>3, <1>10, Appending DEF UploadTypes
  <2>4. \A i \in 1..Len(hist'.posts) : i \in 1..Len(hist.posts) \/ i = Len(hist.posts) + 1
    BY <2>3
  <2>5. ASSUME NEW i \in 1..Len(hist.posts), hist.posts[i].id \notin hist.given
        PROVE  Settled(hist.posts[i])
    <3>1. ~Answering(hist.posts[i])
      BY <1>5, <2>1 DEF Answering, Ordered
    <3> QED BY <2>5, <3>1 DEF Posted, Placed
  <2>6. Posted'
    <3> SUFFICES ASSUME NEW i \in 1..Len(hist'.posts)
                 PROVE  Placed(hist.posts[i])'
      BY DEF Posted
    <3>1. CASE i \in 1..Len(hist.posts) /\ hist.posts[i].id \in hist.given
      <4>1. Placed(hist.posts[i]) /\ hist'.posts[i] = hist.posts[i]
        BY <2>3, <3>1 DEF Posted
      <4> QED BY <1>1, <1>3, <3>1, <4>1 DEF Placed
    <3>2. CASE i \in 1..Len(hist.posts) /\ hist.posts[i].id \notin hist.given
      <4>1. /\ Placed(hist.posts[i]) /\ hist'.posts[i] = hist.posts[i]
            /\ Settled(hist.posts[i])
        BY <2>3, <2>5, <3>2 DEF Posted
      <4>2. Settled(hist.posts[i])'
        BY <1>1, <1>5, <4>1 DEF Settled
      <4> QED BY <1>1, <4>1, <4>2 DEF Placed
    <3>3. CASE i = Len(hist.posts) + 1
      <4>1. hist'.posts[i] = work
        BY <2>3, <3>3
      <4>2. work.media <= compose'.newest
        BY <1>1, <2>1
      <4>3. CASE work.id = compose.id
        <5>1. compose'.up /\ compose'.id = work.id
          BY <1>1, <2>1, <4>3 DEF Owned
        <5>2. e \in Told' /\ e.id = work.id /\ e.ok
          BY <1>6, <1>7, <1>10
        <5> QED BY <4>1, <4>2, <5>1, <5>2 DEF Placed, Answering
      <4>4. CASE work.id < compose.id
        <5>1. work.id \in hist'.given
          BY <1>3, <2>1, <4>4 DEF Owned
        <5> QED BY <4>1, <4>2, <5>1 DEF Placed
      <4> QED BY <2>1, <4>3, <4>4
    <3> QED BY <2>4, <3>1, <3>2, <3>3
  <2>7. RetrySafe'
    <3> SUFFICES ASSUME NEW i \in 1..Len(hist'.posts), NEW j \in 1..Len(hist'.posts),
                        i < j, hist'.posts[i].media = hist'.posts[j].media
                 PROVE  hist'.posts[i].id \in hist'.given
      <4>1. DOMAIN hist'.posts = 1..Len(hist'.posts)
        BY <1>4 DEF UploadTypes
      <4> QED BY <4>1 DEF RetrySafe
    <3>1. i \in 1..Len(hist.posts)
      BY <2>3
    <3>2. CASE j \in 1..Len(hist.posts)
      BY <1>3, <2>3, <3>1, <3>2 DEF RetrySafe, UploadTypes
    <3>3. CASE j = Len(hist.posts) + 1
      <4>1. hist.posts[i].media = work.media /\ hist'.posts[i] = hist.posts[i]
        BY <2>3, <3>1, <3>3
      <4>2. ~Settled(hist.posts[i])
        BY <1>5, <4>1 DEF Settled
      <4> QED BY <1>3, <2>5, <3>1, <4>1, <4>2
    <3> QED BY <2>4, <3>2, <3>3
  <2>8. DraftSurvives'
    BY <1>3 DEF DraftSurvives
  <2> QED BY <1>4, <1>6, <2>2, <2>6, <2>7, <2>8
<1> QED BY <1>9, <1>10

\* The end of the session is told behind the reports.
LEMMA StepNotices ==
    ASSUME UploadInv, NetNotices
    PROVE  UploadInv'
<1> USE InFlight, NotDown DEF UploadInv
<1>1. /\ evs' = Append(evs, Down) /\ handle' = FALSE
      /\ UNCHANGED <<compose, enc, cmds, work, link, shown, hist>>
  BY DEF NetNotices
<1>2. Elements(evs') = Elements(evs) \cup {Down} /\ evs' \in Seq(Finish \cup {Down})
  BY <1>1, Appending DEF UploadTypes
<1>3. UploadTypes'
  BY <1>1, <1>2 DEF UploadTypes
<1>4. Ahead' = Ahead /\ Told' = Told /\ Flight' = Flight
  BY <1>1, <1>2 DEF Ahead, Told, Flight, Single
<1>5. InOrder(evs')
  <2> DEFINE r == Append(evs, Down)
  <2>1. /\ Len(evs) \in Nat /\ Len(r) = Len(evs) + 1 /\ r[Len(evs) + 1] = Down
        /\ \A i \in 1..Len(evs) : r[i] = evs[i]
    BY Appending DEF UploadTypes
  <2> HIDE DEF r
  <2>2. \A i \in 1..Len(r) : r[i] # Down => i \in 1..Len(evs)
    BY <2>1
  <2>3. InOrder(r)
    BY <2>1, <2>2 DEF InOrder, Ordered
  <2> QED BY <1>1, <2>3 DEF r
<1>6. Ordered'
  BY <1>1, <1>4, <1>5 DEF Ordered, Single
<1>7. Owned' /\ Posted' /\ RetrySafe' /\ DraftSurvives'
  BY <1>1, <1>3, <1>4, PassedOn
<1> QED BY <1>3, <1>6, <1>7

LEMMA StepDown ==
    ASSUME UploadInv, OnDown
    PROVE  UploadInv'
<1> USE InFlight, NotDown DEF UploadInv
<1>1. /\ evs # <<>> /\ Head(evs) = Down /\ evs' = Tail(evs) /\ shown' = FALSE
      /\ UNCHANGED <<compose, enc, cmds, work, link, handle, hist>>
  BY DEF OnDown
<1>2. /\ evs' \in Seq(Finish \cup {Down}) /\ Elements(evs) = Elements(evs') \cup {Down}
      /\ InOrder(evs')
  BY <1>1, Removing, OrderTail DEF UploadTypes, Ordered
<1>3. UploadTypes'
  BY <1>1, <1>2 DEF UploadTypes
<1>4. Ahead' = Ahead /\ Told' = Told /\ Flight' = Flight
  BY <1>1, <1>2 DEF Ahead, Told, Flight, Single
<1>5. Ordered'
  BY <1>1, <1>2, <1>4 DEF Ordered, Single
<1>6. Owned' /\ Posted' /\ RetrySafe' /\ DraftSurvives'
  BY <1>1, <1>3, <1>4, PassedOn
<1> QED BY <1>3, <1>5, <1>6

\* A report the composer waits for is the last thing under way, and the media it
\* is about is the one attached.
LEMMA StepFinished ==
    ASSUME UploadInv, OnFinished
    PROVE  UploadInv'
<1> USE InFlight, NotDown DEF UploadInv
<1> DEFINE e == Head(evs)
<1>1. /\ evs # <<>> /\ e # Down /\ evs' = Tail(evs) /\ compose' = Finished(compose, e)
      /\ enc' = (IF e.id = compose.id THEN None ELSE enc)
      /\ hist' = (IF compose.media \notin {compose'.media, e.media}
                  THEN [hist EXCEPT !.lost = @ \cup {compose.media}] ELSE hist)
      /\ UNCHANGED <<cmds, work, link, handle, shown>>
  BY DEF OnFinished
<1>2. /\ e \in Finish \cup {Down} /\ evs' \in Seq(Finish \cup {Down})
      /\ Elements(evs) = Elements(evs') \cup {e}
  BY <1>1, Removing DEF UploadTypes
<1>3. InOrder(evs') /\ \A t \in Elements(evs') : t # Down => e.id < t.id
  BY <1>1, OrderTail DEF UploadTypes, Ordered
<1> HIDE DEF e
<1>4. Told = Told' \cup {e} /\ e \in Flight /\ \A t \in Told' : e.id < t.id
  BY <1>1, <1>2, <1>3 DEF Told, Flight
<1>5. Ahead' \subseteq Ahead
  BY <1>1 DEF Ahead, Single
<1>6. Flight' \subseteq Flight
  BY <1>4, <1>5 DEF Flight
<1>7. Ordered'
  BY <1>1, <1>3, <1>4, <1>5 DEF Ordered, Single
<1>8. CASE e.id # compose.id
  <2>1. compose' = compose /\ enc' = enc /\ hist' = hist
    BY <1>1, <1>8 DEF Finished
  <2>2. UploadTypes'
    BY <1>1, <1>2, <2>1 DEF UploadTypes
  <2>3. Ahead' = Ahead
    BY <1>1, <2>1 DEF Ahead, Single
  <2>4. Flight = Flight' \cup {e}
    BY <1>4, <2>3 DEF Flight
  <2>5. Owned'
    BY <1>8, <2>1, <2>4 DEF Owned
  <2>6. Posted'
    <3> SUFFICES ASSUME NEW i \in 1..Len(hist.posts)
                 PROVE  Placed(hist.posts[i])'
      BY <2>1 DEF Posted
    <3> DEFINE p == hist.posts[i]
    <3>1. Placed(p)
      BY DEF Posted
    <3>2. Answering(p) => Answering(p)'
      BY <1>4, <1>8, <2>1 DEF Answering
    <3>3. Settled(p) => Settled(p)'
      BY <2>1, <2>3 DEF Settled
    <3> QED BY <2>1, <3>1, <3>2, <3>3 DEF Placed
  <2>7. RetrySafe' /\ DraftSurvives'
    BY <2>1 DEF RetrySafe, DraftSurvives
  <2> QED BY <1>7, <2>2, <2>5, <2>6, <2>7
<1>9. CASE e.id = compose.id
  <2>1. PICK media \in {compose.media, 0}, video \in BOOLEAN :
           /\ compose' = [compose EXCEPT !.up = FALSE, !.media = media, !.video = video]
           /\ e.ok => media = 0
    <3>1. CASE e.ok
      BY <1>1, <1>9, <3>1 DEF Finished, UploadTypes
    <3>2. CASE ~e.ok
      <4>1. compose' = [compose EXCEPT !.up = FALSE, !.media = compose.media,
                                       !.video = compose.video]
        BY <1>1, <1>9, <3>2 DEF Finished, UploadTypes
      <4> QED BY <3>2, <4>1 DEF UploadTypes
    <3> QED BY <3>1, <3>2
  <2>2. /\ compose'.media = media /\ compose'.up = FALSE /\ compose'.id = compose.id
        /\ compose'.newest = compose.newest /\ compose.media \in Nat /\ media \in Nat
        /\ compose.newest \in Nat
    BY <2>1 DEF UploadTypes
  <2>3. compose.up /\ (e.media = compose.media \/ compose.media \in hist.late)
    BY <1>4, <1>9 DEF Owned
  <2>4. /\ hist'.posts = hist.posts /\ hist'.given = hist.given /\ hist'.late = hist.late
        /\ hist'.lost \subseteq hist.lost \cup hist.late
        /\ hist' \in [posts : Seq(Upload), given : SUBSET Nat, late : SUBSET Nat,
                      lost : SUBSET Nat]
    <3>1. CASE hist' = hist
      BY <3>1 DEF UploadTypes
    <3>2. CASE hist' = [hist EXCEPT !.lost = @ \cup {compose.media}]
               /\ compose.media # e.media
      BY <2>2, <2>3, <3>2 DEF UploadTypes
    <3> QED BY <1>1, <3>1, <3>2
  <2>5. UploadTypes'
    <3>1. compose' \in [media : Nat, video : BOOLEAN, up : BOOLEAN, id : Nat,
                        pick : BOOLEAN, newest : Nat]
      BY <2>1, <2>2 DEF UploadTypes
    <3> QED BY <1>1, <1>2, <2>2, <2>4, <3>1 DEF UploadTypes
  <2>6. Flight' = {}
    <3>1. e \in Told
      BY <1>4
    <3>2. \A u \in Flight' : compose.id < u.id
      BY <1>4, <1>5, <1>9, <3>1 DEF Flight, Ordered
    <3>3. \A u \in Flight' : u.id <= compose.id
      BY <1>6 DEF Owned
    <3>4. \A u \in Flight' : u.id \in Nat /\ compose.id \in Nat
      BY <1>6 DEF UploadTypes
    <3>5. \A u \in Flight' : FALSE
      BY <3>2, <3>3, <3>4
    <3> QED BY <3>5
  <2>7. Owned'
    <3>1. compose'.media <= compose'.newest
      BY <2>1, <2>2 DEF Owned
    <3> QED BY <1>1, <1>9, <2>2, <2>6, <3>1 DEF Owned
  <2>8. Posted'
    <3> SUFFICES ASSUME NEW i \in 1..Len(hist.posts)
                 PROVE  Placed(hist.posts[i])'
      BY <2>4 DEF Posted
    <3> DEFINE p == hist.posts[i]
    <3>1. Placed(p)
      BY DEF Posted
    <3>2. p.media # 0
      <4>1. p \in Upload
        BY DEF UploadTypes
      <4> QED BY <4>1 DEF Upload
    <3>3. Answering(p) => e.ok
      <4> SUFFICES ASSUME Answering(p) PROVE e.ok
        OBVIOUS
      <4>1. PICK t \in Told : t.id = compose.id /\ t.ok
        BY DEF Answering
      <4>2. t \notin Told'
        BY <2>6, <4>1 DEF Flight
      <4> QED BY <1>4, <4>1, <4>2
    <3>4. Answering(p) \/ Settled(p) => Settled(p)'
      BY <2>1, <2>2, <2>4, <2>6, <3>2, <3>3 DEF Settled, Flight
    <3> QED BY <2>2, <2>4, <3>1, <3>4 DEF Placed
  <2>9. RetrySafe' /\ DraftSurvives'
    BY <2>4 DEF RetrySafe, DraftSurvives
  <2> QED BY <1>7, <2>5, <2>7, <2>8, <2>9
<1> QED BY <1>8, <1>9

LEMMA InitUpload == Init => UploadInv
<1> SUFFICES ASSUME Init PROVE UploadInv
  OBVIOUS
<1>1. UploadTypes
  BY DEF Init, UploadTypes
<1>2. Ahead = {} /\ Told = {} /\ Flight = {}
  BY DEF Init, Ahead, Told, Flight, Single, Elements
<1>3. Ordered /\ Owned
  BY <1>2 DEF Init, Ordered, Owned, InOrder
<1>4. Posted /\ RetrySafe /\ DraftSurvives
  BY DEF Init, Posted, RetrySafe, DraftSurvives
<1> QED BY <1>1, <1>3, <1>4 DEF UploadInv

\* Gates leave the uploads alone.
LEMMA StepUpload ==
    ASSUME UploadInv, UploadStep \/ UNCHANGED uploadVars
    PROVE  UploadInv'
<1>1. CASE UNCHANGED uploadVars
  <2>1. UploadTypes'
    BY <1>1 DEF uploadVars, UploadInv, UploadTypes
  <2> QED BY <1>1, <2>1, StaysPut DEF uploadVars
<1>2. CASE Paste \/ Picked
  BY <1>2, StepAttach
<1>3. CASE OpenPicker \/ PickEnds \/ LinkDrops \/ Reconnected
  BY <1>3, StepAside
<1>4. CASE GiveUp \/ RemoveMedia
  BY <1>4, StepDisown
<1>5. CASE UploadDone \/ UploadFails
  BY <1>5, StepUploaded
<1> QED BY <1>1, <1>2, <1>3, <1>4, <1>5, StepSend, StepEncoded, StepEncodeFails,
           StepFinished, StepDown, StepNetTakes, StepNotices DEF UploadStep

---------------------------------------------------------------------------
(* Gates and typeahead: a step of one keeps the other two, whose requests  *)
(* stay the same.                                                          *)

SameKind(kind, reqs, reqs2) ==
    {r \in reqs : r.k = kind} = {r \in reqs2 : r.k = kind}

LEMMA OthersKeep ==
    ASSUME NEW g, NEW reqs, NEW reqs2
    PROVE  /\ SameKind("profile", reqs, reqs2) /\ ProfileInv(g, reqs)
                => ProfileInv(g, reqs2)
           /\ SameKind("policy", reqs, reqs2) /\ PolicyInv(g, reqs)
                => PolicyInv(g, reqs2)
           /\ SameKind("handles", reqs, reqs2) /\ HandlesInv(g, reqs)
                => HandlesInv(g, reqs2)
<1>1. ASSUME NEW kind, SameKind(kind, reqs, reqs2)
      PROVE  \A r : r.k = kind => (r \in reqs <=> r \in reqs2)
  <2> SUFFICES ASSUME NEW r, r.k = kind PROVE r \in reqs <=> r \in reqs2
    OBVIOUS
  <2>1. /\ r \in {x \in reqs : x.k = kind} <=> r \in reqs
        /\ r \in {x \in reqs2 : x.k = kind} <=> r \in reqs2
    OBVIOUS
  <2> QED BY <1>1, <2>1 DEF SameKind
<1>2. SameKind("profile", reqs, reqs2) /\ ProfileInv(g, reqs) => ProfileInv(g, reqs2)
  BY <1>1 DEF ProfileInv
<1>3. SameKind("policy", reqs, reqs2) /\ PolicyInv(g, reqs) => PolicyInv(g, reqs2)
  BY <1>1 DEF PolicyInv
<1>4. SameKind("handles", reqs, reqs2) /\ HandlesInv(g, reqs) => HandlesInv(g, reqs2)
  BY <1>1 DEF HandlesInv
<1> QED BY <1>2, <1>3, <1>4

\* A request that is asked or answered is of one kind only.
LEMMA OneKind ==
    ASSUME NEW reqs, NEW r, NEW kind, r.k # kind
    PROVE  SameKind(kind, reqs, reqs \cup {r}) /\ SameKind(kind, reqs, reqs \ {r})
BY DEF SameKind

---------------------------------------------------------------------------
(* The profile gate                                                        *)

LEMMA StepFetch ==
    ASSUME GateInv, NEW g \in ProfileGate, ProfileInv(g, asked), Fetch(g),
           UNCHANGED <<pol, ta>>
    PROVE  GateInv'
<1> USE DEF GateInv
<1>1. CASE Fetches(g)
  <2> DEFINE r == [k |-> "profile", id |-> g.fid, of |-> g.nick]
  <2>1. /\ pg' = [g EXCEPT !.busy = TRUE, !.loading = TRUE]
        /\ asked' = asked \cup {r}
    BY <1>1 DEF Fetch
  <2>2. g.nick \in Nicks /\ g.fid \in Nat /\ g.nick # None
    BY <1>1 DEF ProfileGate, Fetches
  <2>3. r \in Request
    BY <2>2 DEF Request
  <2>4. pg' \in ProfileGate /\ pg'.nick = g.nick /\ pg'.fid = g.fid
        /\ pg'.profile = g.profile
    BY <2>1 DEF ProfileGate
  <2>5. ProfileInv(pg', asked')
    <3>1. r \in asked' /\ r.k = "profile" /\ r.id = pg'.fid /\ r.of = pg'.nick
      BY <2>1, <2>4
    <3>2. \A x \in asked' : x \in asked \/ x = r
      BY <2>1
    <3> HIDE DEF r
    <3> QED BY <2>2, <2>4, <3>1, <3>2 DEF ProfileInv
  <2>6. PolicyInv(pol', asked') /\ HandlesInv(ta', asked')
    <3>1. r.k # "policy" /\ r.k # "handles"
      OBVIOUS
    <3> HIDE DEF r
    <3> QED BY <2>1, <3>1, OneKind, OthersKeep
  <2>7. asked' \subseteq Request
    BY <2>1, <2>3
  <2> QED BY <2>4, <2>5, <2>6, <2>7
<1>2. CASE ~Fetches(g)
  <2>1. asked' = asked /\ (pg' = g \/ pg' = [g EXCEPT !.loading = FALSE])
    BY <1>2 DEF Fetch
  <2>2. pg' \in ProfileGate /\ ProfileInv(pg', asked')
    BY <2>1 DEF ProfileGate, ProfileInv
  <2> QED BY <2>1, <2>2
<1> QED BY <1>1, <1>2

LEMMA StepProfile ==
    ASSUME GateInv, OpenProfile \/ CloseProfile \/ ProfileDid \/ ProfileWhois
    PROVE  GateInv'
<1> USE DEF GateInv
<1>0. pg.fid \in Nat /\ pg.fid + 1 \in Nat /\ None \notin Nicks
  BY NamesAssumption DEF ProfileGate
<1>1. CASE OpenProfile
  <2>1. PICK n \in Nicks, known \in BOOLEAN :
           Fetch([ClosedProfile(pg.fid + 1) EXCEPT !.nick = n, !.did = known])
    BY <1>1 DEF OpenProfile
  <2> DEFINE g == [ClosedProfile(pg.fid + 1) EXCEPT !.nick = n, !.did = known]
  <2>2. PICK c : c = ClosedProfile(pg.fid + 1)
    OBVIOUS
  <2>3. /\ g \in ProfileGate
        /\ g.fid = pg.fid + 1 /\ g.loading = FALSE /\ g.profile = None
    <3>1. /\ c \in ProfileGate
          /\ c.fid = pg.fid + 1 /\ c.loading = FALSE /\ c.profile = None
      BY <1>0, <2>2 DEF ClosedProfile, ProfileGate
    <3>2. g = [c EXCEPT !.nick = n, !.did = known]
      BY <2>2
    <3> HIDE DEF g
    <3> QED BY <3>1, <3>2 DEF ProfileGate
  <2>4. \A r \in asked : r.k = "profile" => r.id <= pg.fid /\ r.id \in Nat
    BY DEF ProfileInv, Request
  <2>5. ProfileInv(g, asked)
    <3> HIDE DEF g
    <3> QED BY <1>0, <2>3, <2>4 DEF ProfileInv
  <2> HIDE DEF g
  <2>6. Fetch(g) /\ UNCHANGED <<pol, ta>>
    BY <1>1, <2>1 DEF OpenProfile, g
  <2> QED BY <2>3, <2>5, <2>6, StepFetch
<1>2. CASE CloseProfile
  <2>1. /\ pg' = [nick |-> None, did |-> FALSE, fid |-> pg.fid, busy |-> FALSE,
                  loading |-> FALSE, profile |-> None]
        /\ UNCHANGED <<pol, ta, asked>>
    BY <1>2 DEF CloseProfile, ClosedProfile
  <2>2. pg' \in ProfileGate
    BY <1>0, <2>1 DEF ProfileGate
  <2>3. ProfileInv(pg', asked')
    BY <2>1 DEF ProfileInv
  <2> QED BY <2>1, <2>2, <2>3
<1>3. CASE ProfileDid
  <2> DEFINE g == [pg EXCEPT !.did = TRUE]
  <2>1. g \in ProfileGate /\ ProfileInv(g, asked)
    BY DEF ProfileGate, ProfileInv
  <2>2. Fetch(g) /\ UNCHANGED <<pol, ta>>
    BY <1>3 DEF ProfileDid
  <2> HIDE DEF g
  <2> QED BY <2>1, <2>2, StepFetch
<1>4. CASE ProfileWhois
  <2>1. UNCHANGED <<pol, ta>>
    BY <1>4 DEF ProfileWhois
  <2>2. CASE Fetch(pg)
    BY <2>1, <2>2, StepFetch
  <2>3. CASE asked' = asked /\ (pg' = pg \/ pg' = [pg EXCEPT !.loading = FALSE])
    <3>1. pg' \in ProfileGate /\ ProfileInv(pg', asked')
      BY <2>3 DEF ProfileGate, ProfileInv
    <3> QED BY <2>1, <2>3, <3>1
  <2> QED BY <1>4, <2>2, <2>3 DEF ProfileWhois
<1> QED BY <1>1, <1>2, <1>3, <1>4

LEMMA StepProfileAnswered ==
    ASSUME GateInv, NEW r \in asked, r.k = "profile", NEW good \in BOOLEAN,
           ProfileAnswered(r, good)
    PROVE  GateInv'
<1> USE DEF GateInv
<1>1. asked' = asked \ {r} /\ UNCHANGED <<pol, ta>>
  BY DEF ProfileAnswered
<1>2. PolicyInv(pol', asked') /\ HandlesInv(ta', asked')
  <2>1. r.k # "policy" /\ r.k # "handles"
    OBVIOUS
  <2> QED BY <1>1, <2>1, OneKind, OthersKeep
<1>3. r.of \in Nicks /\ r.id \in Nat
  BY DEF Request
<1>4. CASE r.id # pg.fid
  <2>1. pg' = pg
    BY <1>4 DEF ProfileAnswered
  <2>2. ProfileInv(pg', asked')
    BY <1>1, <1>4, <2>1 DEF ProfileInv
  <2> QED BY <1>1, <1>2, <2>1, <2>2
<1>5. CASE r.id = pg.fid
  <2>1. PICK did \in BOOLEAN, p \in {r.of, None} :
           pg' = [pg EXCEPT !.busy = FALSE, !.loading = FALSE, !.did = did, !.profile = p]
    <3>1. (pg.did \/ good) \in BOOLEAN
      BY DEF ProfileGate
    <3>2. pg' = [pg EXCEPT !.busy = FALSE, !.loading = FALSE, !.did = pg.did \/ good,
                           !.profile = IF good THEN r.of ELSE None]
      BY <1>5 DEF ProfileAnswered, ProfileGate
    <3>3. (IF good THEN r.of ELSE None) \in {r.of, None}
      OBVIOUS
    <3> QED BY <3>1, <3>2, <3>3
  <2>2. pg' \in ProfileGate /\ pg'.nick = pg.nick /\ pg'.fid = pg.fid /\ ~pg'.loading
        /\ pg'.profile = p
    BY <1>3, <2>1 DEF ProfileGate
  <2>3. ProfileInv(pg', asked')
    BY <1>1, <1>5, <2>2 DEF ProfileInv
  <2> QED BY <1>1, <1>2, <2>2, <2>3
<1> QED BY <1>4, <1>5

---------------------------------------------------------------------------
(* The policy gate                                                         *)

\* A request of the policy gate is the last of its opening.
LEMMA StepAsk ==
    ASSUME GateInv, NEW g \in PolicyGate, AskPolicy(g), UNCHANGED <<pg, ta>>,
           g.chan # None, g.round = pol.round, g.fid = pol.fid,
           g.check # None /\ g.checkRound = g.round => g.check = g.chan
    PROVE  GateInv'
<1> USE DEF GateInv
<1> DEFINE r == [k |-> "policy", id |-> g.fid + 1, of |-> g.chan, round |-> g.round]
<1>1. asked' = asked \cup {r} /\ pol' = [g EXCEPT !.loading = TRUE, !.fid = g.fid + 1]
  BY DEF AskPolicy, PolicyGate
<1>2. g.chan \in Channels /\ g.fid \in Nat /\ g.fid + 1 \in Nat /\ g.round \in Nat
  BY DEF PolicyGate
<1>3. r \in Request
  BY <1>2 DEF Request
<1>4. /\ pol' \in PolicyGate /\ pol'.chan = g.chan /\ pol'.fid = g.fid + 1 /\ pol'.loading
      /\ pol'.round = g.round /\ pol'.check = g.check /\ pol'.checkRound = g.checkRound
  BY <1>1, <1>2 DEF PolicyGate
<1>5. \A x \in asked : x.k = "policy" =>
         /\ 0 < x.id /\ x.round <= g.round /\ x.id \in Nat
         /\ x.round = g.round => x.id <= g.fid
  BY DEF PolicyInv, Request
<1>6. PolicyInv(pol', asked')
  <2>1. \A x \in asked' : x.k = "policy" =>
          /\ 0 < x.id /\ x.round <= pol'.round
          /\ x.round = pol'.round => x.id <= pol'.fid
          /\ x.round = pol'.round /\ x.id = pol'.fid => x.of = pol'.chan
    BY <1>1, <1>2, <1>4, <1>5
  <2>2. r \in asked' /\ r.k = "policy" /\ r.id = pol'.fid
    BY <1>1, <1>4
  <2> QED BY <1>4, <2>1, <2>2 DEF PolicyInv
<1>7. ProfileInv(pg', asked') /\ HandlesInv(ta', asked')
  <2>1. r.k # "profile" /\ r.k # "handles"
    OBVIOUS
  <2> HIDE DEF r
  <2> QED BY <1>1, <2>1, OneKind, OthersKeep
<1>8. asked' \subseteq Request
  BY <1>1, <1>3
<1> QED BY <1>4, <1>6, <1>7, <1>8

LEMMA StepPolicy ==
    ASSUME GateInv, OpenPolicy \/ ClosePolicy \/ RefreshPolicy \/ AcceptRules
                       \/ RefreshDue \/ PolicyAccepted
    PROVE  GateInv'
<1> USE DEF GateInv
<1>0. None \notin Channels
  BY NamesAssumption
<1>1. CASE OpenPolicy
  <2>1. PICK ch \in Channels :
           AskPolicy([pol EXCEPT !.chan = ch, !.accepting = FALSE, !.refresh = FALSE,
                                 !.check = None, !.checkRound = 0])
    BY <1>1 DEF OpenPolicy
  <2> DEFINE g == [pol EXCEPT !.chan = ch, !.accepting = FALSE, !.refresh = FALSE,
                              !.check = None, !.checkRound = 0]
  <2>2. g \in PolicyGate /\ g.chan = ch /\ g.round = pol.round /\ g.fid = pol.fid
        /\ g.check = None
    BY DEF PolicyGate
  <2>3. AskPolicy(g) /\ UNCHANGED <<pg, ta>>
    BY <1>1, <2>1 DEF OpenPolicy
  <2> HIDE DEF g
  <2> QED BY <1>0, <2>2, <2>3, StepAsk
<1>2. CASE ClosePolicy
  <2>1. /\ pol' = [chan |-> None, fid |-> 0, loading |-> FALSE, accepting |-> FALSE,
                   refresh |-> FALSE, check |-> None, checkRound |-> 0,
                   round |-> pol.round + 1]
        /\ UNCHANGED <<pg, ta, asked>>
    BY <1>2 DEF ClosePolicy, ClosedPolicy
  <2>2. pol.round \in Nat /\ pol.round + 1 \in Nat
    BY DEF PolicyGate
  <2>3. pol' \in PolicyGate
    BY <2>1, <2>2 DEF PolicyGate
  <2>4. \A x \in asked : x.k = "policy" => x.round <= pol.round /\ x.round \in Nat
    BY DEF PolicyInv, Request
  <2>5. PolicyInv(pol', asked')
    BY <2>1, <2>2, <2>4 DEF PolicyInv
  <2> QED BY <2>1, <2>3, <2>5
<1>3. CASE RefreshPolicy
  <2>1. AskPolicy(pol) /\ UNCHANGED <<pg, ta>> /\ pol.chan # None
    BY <1>3 DEF RefreshPolicy
  <2>2. pol.check # None /\ pol.checkRound = pol.round => pol.check = pol.chan
    BY DEF PolicyInv
  <2> QED BY <2>1, <2>2, StepAsk
<1>4. CASE AcceptRules
  <2>1. /\ pol' = [pol EXCEPT !.accepting = TRUE, !.refresh = TRUE]
        /\ UNCHANGED <<pg, ta, asked>> /\ pol.check # None
    BY <1>4 DEF AcceptRules
  <2>2. pol' \in PolicyGate
    BY <2>1 DEF PolicyGate
  <2>3. pol.chan # None
    BY <2>1 DEF PolicyInv
  <2>4. PolicyInv(pol', asked')
    BY <2>1, <2>3 DEF PolicyGate, PolicyInv
  <2> QED BY <2>1, <2>2, <2>4
<1>5. CASE RefreshDue
  <2> DEFINE g == [pol EXCEPT !.refresh = FALSE]
  <2>1. AskPolicy(g) /\ UNCHANGED <<pg, ta>> /\ pol.refresh
    BY <1>5 DEF RefreshDue
  <2>2. g \in PolicyGate /\ g.chan = pol.chan /\ g.round = pol.round /\ g.fid = pol.fid
        /\ g.check = pol.check /\ g.checkRound = pol.checkRound
    BY DEF PolicyGate
  <2>3. g.chan # None /\ (g.check # None /\ g.checkRound = g.round => g.check = g.chan)
    BY <2>1, <2>2 DEF PolicyInv
  <2> HIDE DEF g
  <2> QED BY <2>1, <2>2, <2>3, StepAsk
<1>6. CASE PolicyAccepted
  <2> DEFINE g == [pol EXCEPT !.accepting = FALSE]
  <2>1. CASE UNCHANGED <<pol, asked>>
    BY <1>6, <2>1 DEF PolicyAccepted
  <2>2. CASE AskPolicy(g) /\ pol.chan \in Channels
    <3>1. g \in PolicyGate /\ g.chan = pol.chan /\ g.round = pol.round /\ g.fid = pol.fid
          /\ g.check = pol.check /\ g.checkRound = pol.checkRound
      BY DEF PolicyGate
    <3>2. g.chan # None /\ (g.check # None /\ g.checkRound = g.round => g.check = g.chan)
      BY <1>0, <2>2, <3>1 DEF PolicyInv
    <3>3. AskPolicy(g) /\ UNCHANGED <<pg, ta>>
      BY <1>6, <2>2 DEF PolicyAccepted
    <3> HIDE DEF g
    <3> QED BY <3>1, <3>2, <3>3, StepAsk
  <2> QED BY <1>6, <2>1, <2>2 DEF PolicyAccepted
<1> QED BY <1>1, <1>2, <1>3, <1>4, <1>5, <1>6

LEMMA StepPolicyAnswered ==
    ASSUME GateInv, NEW r \in asked, r.k = "policy", NEW good \in BOOLEAN,
           PolicyAnswered(r, good)
    PROVE  GateInv'
<1> USE DEF GateInv
<1>1. asked' = asked \ {r} /\ UNCHANGED <<pg, ta>>
  BY DEF PolicyAnswered
<1>2. ProfileInv(pg', asked') /\ HandlesInv(ta', asked')
  <2>1. r.k # "profile" /\ r.k # "handles"
    OBVIOUS
  <2> QED BY <1>1, <2>1, OneKind, OthersKeep
<1>3. r.of \in Channels /\ r.id \in Nat /\ r.round \in Nat
  BY DEF Request
<1>4. CASE r.id # pol.fid
  <2>1. pol' = pol
    BY <1>4 DEF PolicyAnswered
  <2>2. PolicyInv(pol', asked')
    BY <1>1, <1>4, <2>1 DEF PolicyInv
  <2> QED BY <1>1, <1>2, <2>1, <2>2
<1>5. CASE r.id = pol.fid
  <2>1. PICK check \in Channels \cup {None}, round \in Nat :
           /\ pol' = [pol EXCEPT !.loading = FALSE, !.accepting = FALSE,
                                 !.check = check, !.checkRound = round]
           /\ check # None => check = r.of /\ round = r.round
    <3>1. pol' = [pol EXCEPT !.loading = FALSE, !.accepting = FALSE,
                             !.check = IF good THEN r.of ELSE None,
                             !.checkRound = IF good THEN r.round ELSE 0]
      BY <1>5 DEF PolicyAnswered
    <3> QED BY <1>3, <3>1
  <2>2. /\ pol' \in PolicyGate /\ pol'.chan = pol.chan /\ pol'.fid = pol.fid
        /\ pol'.round = pol.round /\ pol'.refresh = pol.refresh
        /\ ~pol'.loading /\ ~pol'.accepting
        /\ pol'.check = check /\ pol'.checkRound = round
    BY <2>1 DEF PolicyGate
  <2>3. pol.chan # None
    BY <1>3, <1>5 DEF PolicyInv
  <2>4. PolicyInv(pol', asked')
    BY <1>1, <1>5, <2>1, <2>2, <2>3 DEF PolicyInv
  <2> QED BY <1>1, <1>2, <2>2, <2>4
<1> QED BY <1>4, <1>5

---------------------------------------------------------------------------
(* The handle typeahead                                                    *)

LEMMA StepHandles ==
    ASSUME GateInv, Type \/ SearchHandles \/ ChooseHandle \/ Dismiss
    PROVE  GateInv'
<1> USE DEF GateInv
<1>1. CASE Type
  <2>1. PICK q \in Queries \cup {Short} :
           ta' = IF q = Short
                   THEN [ta EXCEPT !.last = q, !.at = FALSE, !.found = None, !.open = FALSE,
                                   !.loading = ta.inflight # 0]
                   ELSE [ta EXCEPT !.last = q, !.at = TRUE, !.open = TRUE]
    BY <1>1 DEF Type
  <2>2. UNCHANGED <<pg, pol, asked>>
    BY <1>1 DEF Type
  <2>3. CASE q = Short
    <3> DEFINE busy == ta.inflight # 0
    <3>1. busy \in BOOLEAN
      OBVIOUS
    <3>2. ta' = [ta EXCEPT !.last = q, !.at = FALSE, !.found = None, !.open = FALSE,
                           !.loading = busy]
      BY <2>1, <2>3
    <3> HIDE DEF busy
    <3>3. ta' \in Typeahead
      BY <3>1, <3>2 DEF Typeahead
    <3>4. HandlesInv(ta', asked')
      BY <2>2, <3>2 DEF Typeahead, HandlesInv
    <3> QED BY <2>2, <3>3, <3>4
  <2>4. CASE q # Short
    <3>1. ta' = [ta EXCEPT !.last = q, !.at = TRUE, !.open = TRUE]
      BY <2>1, <2>4
    <3>2. ta' \in Typeahead
      BY <3>1 DEF Typeahead
    <3>3. HandlesInv(ta', asked')
      BY <2>2, <2>4, <3>1 DEF Typeahead, HandlesInv
    <3> QED BY <2>2, <3>2, <3>3
  <2> QED BY <2>3, <2>4
<1>2. CASE SearchHandles
  <2> DEFINE r == [k |-> "handles", id |-> ta.rid + 1, of |-> ta.last]
  <2>1. /\ ta' = [ta EXCEPT !.at = FALSE, !.rid = ta.rid + 1, !.inflight = ta.rid + 1,
                            !.loading = TRUE]
        /\ asked' = asked \cup {r} /\ UNCHANGED <<pg, pol>> /\ ta.at
    BY <1>2 DEF SearchHandles, Typeahead
  <2>2. ta.last \in Queries /\ ta.rid \in Nat /\ ta.rid + 1 \in Nat
    BY <2>1 DEF HandlesInv, Typeahead
  <2>3. r \in Request
    BY <2>2 DEF Request
  <2>4. /\ ta' \in Typeahead /\ ta'.at = FALSE /\ ta'.rid = ta.rid + 1
        /\ ta'.inflight = ta.rid + 1 /\ ta'.last = ta.last
    BY <2>1, <2>2 DEF Typeahead
  <2>5. HandlesInv(ta', asked')
    <3>1. r \in asked' /\ r.k = "handles" /\ r.id = ta'.inflight /\ r.of = ta'.last
      BY <2>1, <2>4
    <3>2. \A x \in asked' : x \in asked \/ x = r
      BY <2>1
    <3>3. \A x \in asked : x.k = "handles" => 0 < x.id /\ x.id <= ta.rid /\ x.id \in Nat
      BY DEF HandlesInv, Request
    <3> HIDE DEF r
    <3> QED BY <2>2, <2>4, <3>1, <3>2, <3>3 DEF HandlesInv
  <2>6. ProfileInv(pg', asked') /\ PolicyInv(pol', asked')
    <3>1. r.k # "profile" /\ r.k # "policy"
      OBVIOUS
    <3> HIDE DEF r
    <3> QED BY <2>1, <3>1, OneKind, OthersKeep
  <2>7. asked' \subseteq Request
    BY <2>1, <2>3
  <2> QED BY <2>1, <2>4, <2>5, <2>6, <2>7
<1>3. CASE ChooseHandle
  <2>1. PICK q \in Queries :
           ta' = [ta EXCEPT !.last = q, !.at = FALSE, !.open = FALSE, !.found = None]
    BY <1>3 DEF ChooseHandle
  <2>2. UNCHANGED <<pg, pol, asked>>
    BY <1>3 DEF ChooseHandle
  <2>3. ta' \in Typeahead
    BY <2>1 DEF Typeahead
  <2>4. HandlesInv(ta', asked')
    BY <2>1, <2>2 DEF Typeahead, HandlesInv
  <2> QED BY <2>2, <2>3, <2>4
<1>4. CASE Dismiss
  <2>1. ta' = [ta EXCEPT !.open = FALSE] /\ UNCHANGED <<pg, pol, asked>>
    BY <1>4 DEF Dismiss
  <2>2. ta' \in Typeahead
    BY <2>1 DEF Typeahead
  <2>3. HandlesInv(ta', asked')
    BY <2>1 DEF Typeahead, HandlesInv
  <2> QED BY <2>1, <2>2, <2>3
<1> QED BY <1>1, <1>2, <1>3, <1>4

LEMMA StepHandlesAnswered ==
    ASSUME GateInv, NEW r \in asked, r.k = "handles", NEW good \in BOOLEAN,
           NEW some \in BOOLEAN, HandlesAnswered(r, good, some)
    PROVE  GateInv'
<1> USE DEF GateInv
<1>1. asked' = asked \ {r} /\ UNCHANGED <<pg, pol>>
  BY DEF HandlesAnswered
<1>2. ProfileInv(pg', asked') /\ PolicyInv(pol', asked')
  <2>1. r.k # "profile" /\ r.k # "policy"
    OBVIOUS
  <2> QED BY <1>1, <2>1, OneKind, OthersKeep
<1>3. r.of \in Queries /\ r.id \in Nat
  BY DEF Request
<1>4. CASE r.id # ta.inflight
  <2>1. ta' = ta
    BY <1>4 DEF HandlesAnswered
  <2>2. HandlesInv(ta', asked')
    BY <1>1, <1>4, <2>1 DEF HandlesInv
  <2> QED BY <1>1, <1>2, <2>1, <2>2
<1>5. CASE r.id = ta.inflight
  <2>1. PICK found \in Queries \cup {None}, open \in BOOLEAN, kept \in BOOLEAN :
           /\ ta' = [ta EXCEPT !.inflight = 0, !.loading = ta.at, !.found = found,
                               !.open = open, !.kept = kept]
           /\ \/ kept
              \/ ta.last # r.of /\ open = ta.open
              \/ open => found \in {ta.last, None}
    <3> DEFINE t == [ta EXCEPT !.inflight = 0, !.loading = ta.at]
    <3>0. t \in Typeahead /\ t.found = ta.found /\ t.open = ta.open /\ t.kept = ta.kept
      BY DEF Typeahead
    <3>1. CASE ~good
      <4>1. ta' = [t EXCEPT !.kept = TRUE]
        BY <1>5, <3>1 DEF HandlesAnswered
      <4>2. ta' = [ta EXCEPT !.inflight = 0, !.loading = ta.at, !.found = ta.found,
                             !.open = ta.open, !.kept = TRUE]
        BY <4>1 DEF Typeahead
      <4> QED BY <4>2 DEF Typeahead
    <3>2. CASE good /\ ta.last # r.of /\ ta' = t
      <4>2. ta' = [ta EXCEPT !.inflight = 0, !.loading = ta.at, !.found = ta.found,
                             !.open = ta.open, !.kept = ta.kept]
        BY <3>2 DEF Typeahead
      <4> QED BY <3>2, <4>2 DEF Typeahead
    <3> DEFINE listed == [t EXCEPT !.found = IF some THEN r.of ELSE None, !.kept = FALSE,
                                   !.open = some /\ ta.last # Short]
    <3>3. CASE good /\ ta.last \in {r.of, Short} /\ ta' = listed
      <4> DEFINE found == IF some THEN r.of ELSE None
                 open  == some /\ ta.last # Short
      <4>1. ta' = [ta EXCEPT !.inflight = 0, !.loading = ta.at, !.found = found,
                             !.open = open, !.kept = FALSE]
        BY <3>3 DEF Typeahead
      <4>2. found \in Queries \cup {None} /\ open \in BOOLEAN
            /\ (open => found \in {ta.last, None})
        BY <1>3, <3>3
      <4> HIDE DEF found, open
      <4> QED BY <4>1, <4>2
    <3>4. \/ ~good
          \/ good /\ ta.last # r.of /\ ta' = t
          \/ good /\ ta.last \in {r.of, Short} /\ ta' = listed
      BY <1>5 DEF HandlesAnswered
    <3> QED BY <3>1, <3>2, <3>3, <3>4
  <2>2. /\ ta' \in Typeahead /\ ta'.last = ta.last /\ ta'.at = ta.at /\ ta'.loading = ta.at
        /\ ta'.inflight = 0 /\ ta'.rid = ta.rid /\ ta'.found = found /\ ta'.open = open
        /\ ta'.kept = kept
    BY <2>1 DEF Typeahead
  <2>3. ta.open /\ ~ta.at => r.of = ta.last
    BY <1>5 DEF HandlesInv
  <2>4. \A x \in asked' : x.k = "handles" => 0 < x.id /\ x.id <= ta.rid /\ x.id # 0
    BY <1>1 DEF HandlesInv, Request
  <2>5. ta.rid \in Nat /\ (ta.at => ta.last # Short)
    BY DEF HandlesInv, Typeahead
  <2>6. HandlesInv(ta', asked')
    BY <2>1, <2>2, <2>3, <2>4, <2>5 DEF HandlesInv
  <2> QED BY <1>1, <1>2, <2>2, <2>6
<1> QED BY <1>4, <1>5

LEMMA InitGate == Init => GateInv
<1> SUFFICES ASSUME Init PROVE GateInv
  OBVIOUS
<1>1. pg = ClosedProfile(0) /\ pol = ClosedPolicy(0) /\ asked = {}
  BY DEF Init
<1>2. pg \in ProfileGate /\ ProfileInv(pg, asked)
  BY <1>1 DEF ClosedProfile, ProfileGate, ProfileInv
<1>3. pol \in PolicyGate /\ PolicyInv(pol, asked)
  BY <1>1 DEF ClosedPolicy, PolicyGate, PolicyInv
<1>4. ta \in Typeahead /\ HandlesInv(ta, asked)
  BY <1>1 DEF Init, Typeahead, HandlesInv
<1> QED BY <1>1, <1>2, <1>3, <1>4 DEF GateInv

\* Uploads leave the gates alone.
LEMMA StepGate ==
    ASSUME GateInv, GateStep \/ UNCHANGED gateVars
    PROVE  GateInv'
<1>1. CASE UNCHANGED gateVars
  BY <1>1 DEF gateVars, GateInv
<1>2. CASE Answered
  BY <1>2, StepProfileAnswered, StepPolicyAnswered, StepHandlesAnswered DEF Answered
<1> QED BY <1>1, <1>2, StepProfile, StepPolicy, StepHandles DEF GateStep

---------------------------------------------------------------------------
(* The specification                                                       *)

LEMMA Apart ==
    /\ UploadStep => UNCHANGED gateVars
    /\ GateStep => UNCHANGED uploadVars
<1>1. UploadStep => UNCHANGED gateVars
  BY DEF UploadStep, Paste, OpenPicker, Picked, PickEnds, PressSend, EncodeDone,
         EncodeFails, GiveUp, RemoveMedia, OnFinished, OnDown, NetTakes, UploadDone,
         UploadFails, LinkDrops, NetNotices, Reconnected
<1>2. GateStep => UNCHANGED uploadVars
  BY DEF GateStep, OpenProfile, CloseProfile, ProfileDid, ProfileWhois, OpenPolicy,
         ClosePolicy, RefreshPolicy, AcceptRules, RefreshDue, PolicyAccepted, Type,
         SearchHandles, ChooseHandle, Dismiss, Answered, ProfileAnswered,
         PolicyAnswered, HandlesAnswered
<1> QED BY <1>1, <1>2

LEMMA Invariance == Spec => []IInv
<1>1. Init => IInv
  BY InitUpload, InitGate DEF IInv
<1>2. IInv /\ [Next]_vars => IInv'
  <2> SUFFICES ASSUME IInv, [Next]_vars PROVE IInv'
    OBVIOUS
  <2>1. /\ UploadStep \/ UNCHANGED uploadVars
        /\ GateStep \/ UNCHANGED gateVars
    BY Apart DEF Next, vars
  <2> QED BY <2>1, StepUpload, StepGate DEF IInv
<1> QED BY <1>1, <1>2, PTL DEF Spec

\* In every state the composer, the queues between the threads, the gates and the
\* requests under way have the types of their fields, and the composer is locked
\* only over an attachment (compose_uploading, compose_attach).
THEOREM TypeCorrect == Spec => []TypeOK
<1>1. IInv => TypeOK
  BY DEF IInv, UploadInv, UploadTypes, GateInv, ProfileGate, PolicyGate, Typeahead, TypeOK
<1> QED BY <1>1, Invariance, PTL

\* After a reported error, pressing Send again never posts a media twice: whatever
\* is posted a second time was given up by Cancel or by the watchdog (UploadAndSend).
THEOREM RetriesSafe == Spec => []RetrySafe
<1>1. IInv => RetrySafe
  BY DEF IInv, UploadInv
<1> QED BY <1>1, Invariance, PTL

\* UploadFinished, however late, empties the composer only of the media it reports,
\* unless a file dialog answered while the upload ran.
THEOREM DraftsSurvive == Spec => []DraftSurvives
<1>1. IInv => DraftSurvives
  BY DEF IInv, UploadInv
<1> QED BY <1>1, Invariance, PTL

\* Whatever shows a spinner, or locks the composer, waits for an answer that is
\* still under way and bears the id that will be compared.
THEOREM SpinnersStop == Spec => []SpinnersEnd
<1>1. IInv => SpinnersEnd
  <2> SUFFICES ASSUME IInv PROVE SpinnersEnd
    OBVIOUS
  <2>1. compose.up => UploadUnderWay(compose.id)
    <3> SUFFICES ASSUME compose.up PROVE UploadUnderWay(compose.id)
      OBVIOUS
    <3>1. PICK u \in Flight : u.id = compose.id
      BY DEF IInv, UploadInv, Owned
    <3>2. DOMAIN cmds = 1..Len(cmds) /\ DOMAIN evs = 1..Len(evs)
      BY DEF IInv, UploadInv, UploadTypes
    <3>3. CASE u \in Single(enc) \/ u \in Single(work)
      BY <3>1, <3>3 DEF Single, UploadUnderWay
    <3>4. CASE u \in Elements(cmds)
      BY <3>1, <3>2, <3>4 DEF Elements, UploadUnderWay
    <3>5. CASE u \in Told
      BY <3>1, <3>2, <3>5 DEF Told, Elements, UploadUnderWay
    <3> QED BY <3>3, <3>4, <3>5 DEF Flight, Ahead
  <2>2. /\ pg.loading => \E r \in asked : r.k = "profile" /\ r.id = pg.fid
        /\ pol.loading => \E r \in asked : r.k = "policy" /\ r.id = pol.fid
        /\ pol.accepting => pol.refresh \/ pol.loading
        /\ ta.open /\ ta.loading =>
              ta.at \/ \E r \in asked : r.k = "handles" /\ r.id = ta.inflight
    BY DEF IInv, GateInv, ProfileInv, PolicyInv, HandlesInv
  <2> QED BY <2>1, <2>2 DEF SpinnersEnd
<1> QED BY <1>1, Invariance, PTL

\* A gate shows the answer about its own nick or channel and the typeahead at rest
\* lists its own query, in whatever order answers come (ProfileFetched,
\* PolicyFetched, HandleSuggestions), with the exceptions ShownIsAsked names.
THEOREM AnswersMatch == Spec => []ShownIsAsked
<1>1. IInv => ShownIsAsked
  BY DEF IInv, GateInv, ProfileInv, PolicyInv, HandlesInv, ShownIsAsked, Visible
<1> QED BY <1>1, Invariance, PTL

===========================================================================
