-------------------------- MODULE DmThreads_proofs --------------------------
(***************************************************************************)
(* Theorems about DmThreads for every set of nicks and accounts and every  *)
(* budget.  A message is followed from the command or the line that        *)
(* carries it, through the event, to its thread; what the SDK knows of a   *)
(* nick, from the lines it has read to those that are still on their way.  *)
(***************************************************************************)
EXTENDS DmThreads, FiniteSetTheorems, SequenceTheorems, TLAPS

---------------------------------------------------------------------------
(* The inductive invariant                                                 *)

\* What travels, and what of it carries a message
Letters   == [cmd : {"PRIVMSG"}, nick : Nicks, who : Who, id : Nat]
        \cup [cmd : {"ECHO"}, nick : Keys, id : Nat]
Lines     == Letters
        \cup [cmd : {"JOIN"}, nick : Nicks, who : Who]
        \cup [cmd : {"QUIT"}, nick : Nicks]
        \cup [cmd : {"NICK"}, nick : Nicks, new : Nicks]
        \cup [cmd : {"330", "TARGETS"}, nick : Nicks, who : Dids]
Arrivals  == [ev : {"Message"}, nick : Keys, id : Nat, key : Keys, mine : BOOLEAN]
Events    == Arrivals
        \cup [ev : {"Joined"}, nick : Nicks, who : Who]
        \cup [ev : {"UserQuit"}, nick : Nicks]
        \cup [ev : {"NickChanged"}, nick : Nicks, new : Nicks]
        \cup [ev : {"MemberDid", "ChatHistoryTarget"}, nick : Nicks, did : Dids]
Sendings  == [cmd : {"Privmsg"}, to : Keys, id : Nat]
Commands  == Sendings \cup [cmd : {"Whois"}, to : Nicks]

Owners == Who \cup {Nobody, Unknown}
Views  == [Nicks -> Owners]
Route  == [nick : Nicks \cup {Unknown}, who : Owners]

Types ==
    /\ addr \in [Nicks -> Dids \cup {Unknown}] /\ disp \in [Dids -> Nicks \cup {Unknown}]
    /\ bound \in [Nicks -> Dids \cup {Unknown}]
    /\ shown \subseteq Keys /\ open \in shown \cup {Unknown}
    /\ rows \in [Keys -> SUBSET Ids] /\ local \in [Keys -> SUBSET Ids]
    /\ \A k \in Keys \ shown : rows[k] = {} /\ local[k] = {}
    /\ online \in BOOLEAN /\ owner \in [Nicks -> Who \cup {Nobody}]
    /\ wire \in Seq(Lines) /\ evs \in Seq(Events) /\ cmds \in Seq(Commands)
    /\ said \in Seq([from : Who \cup {Unknown}, to : Keys \cup {Unknown}, route : Route])
    /\ seen \in Views /\ met \in Views /\ chosen \in Route
    /\ refused \subseteq Ids
    /\ budget.past \subseteq Nicks \X Dids /\ IsFiniteSet(budget.past) /\ spent.drops \in Nat
    /\ spent = [moves |-> spent.moves, drops |-> spent.drops, whois |-> spent.whois]

\* Without a session nothing is known and nothing travels.
OfflineQuiet ==
    ~online => /\ wire = <<>> /\ evs = <<>> /\ cmds = <<>>
               /\ addr = [n \in Nicks |-> Unknown]

\* How a line changes the owners of nicks, and when the server sends it.
Shows(v, l, v2) ==
    \/ l.cmd = "JOIN" /\ v[l.nick] = Nobody /\ v2 = [v EXCEPT ![l.nick] = l.who]
    \/ l.cmd = "QUIT" /\ v2 = [v EXCEPT ![l.nick] = Nobody]
    \/ /\ l.cmd = "NICK" /\ v[l.new] = Nobody /\ l.new # l.nick
       /\ v2 = [v EXCEPT ![l.nick] = Nobody, ![l.new] = v[l.nick]]
    \/ /\ l.cmd \in {"PRIVMSG", "330"} /\ v[l.nick] \in {l.who, Unknown}
       /\ v2 = [v EXCEPT ![l.nick] = l.who]
    \/ l.cmd \in {"ECHO", "TARGETS"} /\ v2 = v

\* Reading q takes what is known of the nicks from v to w.
Replays(q, v, w) ==
    \E h \in [0..Len(q) -> Views] :
        /\ h[0] = v /\ h[Len(q)] = w
        /\ \A i \in 1..Len(q) : Shows(h[i - 1], q[i], h[i])

\* Who a nick stood for when the session began may be unknown.
Fits(v) == \A n \in Nicks : v[n] = owner[n] \/ (v[n] = Unknown /\ owner[n] # Nobody)

SeenInv == online => \E v \in Views : Replays(wire, seen, v) /\ Fits(v)

\* The messages carried by the elements of q that are in C, each by one of them
Mail(q, C) == {q[i].id : i \in {j \in 1..Len(q) : q[j] \in C}}
Once(q, C) == \A i, j \in 1..Len(q) :
                 q[i] \in C /\ q[j] \in C /\ q[i].id = q[j].id => i = j

Filing == UNION {rows[k] : k \in Keys}

\* A message is in one place at a time, and in none only if it is refused.
MailInv ==
    /\ Mail(cmds, Sendings) \cup Mail(wire, Letters) \cup Mail(evs, Arrivals) \subseteq Ids
    /\ spent.drops = 0 =>
          /\ Once(cmds, Sendings) /\ Once(wire, Letters) /\ Once(evs, Arrivals)
          /\ Mail(cmds, Sendings) \cap Mail(wire, Letters) = {}
          /\ Mail(cmds, Sendings) \cap Mail(evs, Arrivals) = {}
          /\ Mail(wire, Letters) \cap Mail(evs, Arrivals) = {}
          /\ Filing \cap (Mail(cmds, Sendings) \cup Mail(wire, Letters)
                             \cup Mail(evs, Arrivals)) = {}
          /\ \A k, j \in Keys : rows[k] \cap rows[j] # {} => k = j
          /\ Ids \subseteq Mail(cmds, Sendings) \cup Mail(wire, Letters)
                              \cup Mail(evs, Arrivals) \cup Filing \cup refused

\* Everything that carries a message agrees with who said it.
From(m, w) == said[m].from = w
AuthorInv ==
    /\ \A m \in Mail(cmds, Sendings) \cup refused : From(m, Unknown)
    /\ \A i \in 1..Len(wire) :
          /\ wire[i].cmd = "PRIVMSG" => From(wire[i].id, wire[i].who)
          /\ wire[i].cmd = "ECHO" => From(wire[i].id, Unknown)
    /\ \A i \in 1..Len(evs) : evs[i].ev = "Message" =>
          IF evs[i].mine THEN From(evs[i].id, Unknown)
          ELSE said[evs[i].id].from \in Dids => From(evs[i].id, evs[i].key)
    /\ \A k \in Keys : \A m \in rows[k] : said[m].from \in Dids => From(m, k)

IInv == Types /\ OfflineQuiet /\ SeenInv /\ SdkNeverStale /\ MailInv /\ AuthorInv
---------------------------------------------------------------------------
(* Queues and the mail in them                                             *)

LEMMA Added ==
    ASSUME NEW S, NEW q \in Seq(S), NEW e \in S
    PROVE  /\ Append(q, e) \in Seq(S) /\ Len(q) \in Nat
           /\ Len(Append(q, e)) = Len(q) + 1
           /\ \A i \in 1..Len(q) : Append(q, e)[i] = q[i]
           /\ Append(q, e)[Len(q) + 1] = e
           /\ 1..Len(Append(q, e)) = 1..Len(q) \cup {Len(q) + 1}
           /\ Len(q) + 1 \notin 1..Len(q)
<1>1. /\ Append(q, e) \in Seq(S) /\ Len(q) \in Nat
      /\ Len(Append(q, e)) = Len(q) + 1
      /\ \A i \in 1..Len(q) : Append(q, e)[i] = q[i]
      /\ Append(q, e)[Len(q) + 1] = e
  OBVIOUS
<1>2. 1..Len(q) + 1 = 1..Len(q) \cup {Len(q) + 1} /\ Len(q) + 1 \notin 1..Len(q)
  BY <1>1
<1> QED BY <1>1, <1>2

LEMMA Taken ==
    ASSUME NEW S, NEW q \in Seq(S), q # <<>>
    PROVE  /\ Tail(q) \in Seq(S) /\ Len(q) \in Nat /\ Len(q) >= 1 /\ q[1] \in S
           /\ Len(Tail(q)) = Len(q) - 1 /\ Len(Tail(q)) \in Nat
           /\ \A i \in 1..Len(Tail(q)) : Tail(q)[i] = q[i + 1] /\ i + 1 \in 1..Len(q)
           /\ \A i \in 1..Len(q) : i = 1 \/ (i - 1 \in 1..Len(Tail(q)) /\ q[i] = Tail(q)[i - 1])
<1>1. /\ Tail(q) \in Seq(S) /\ Len(q) \in Nat /\ Len(q) >= 1 /\ q[1] \in S
      /\ Len(Tail(q)) = Len(q) - 1 /\ Len(Tail(q)) \in Nat
      /\ \A i \in 1..Len(q) - 1 : Tail(q)[i] = q[i + 1]
  OBVIOUS
<1>2. \A i \in 1..Len(q) - 1 : i + 1 \in 1..Len(q)
  BY <1>1
<1>3. \A i \in 1..Len(q) : i = 1 \/ (i - 1 \in 1..Len(q) - 1 /\ i = (i - 1) + 1)
  BY <1>1
<1> QED BY <1>1, <1>2, <1>3

\* What a queue gains and loses of the mail, and that it stays single.
Post(e, C) == IF e \in C THEN {e.id} ELSE {}

LEMMA MailIn ==
    ASSUME NEW S, NEW q \in Seq(S), NEW e \in S, NEW C
    PROVE  /\ Mail(Append(q, e), C) = Mail(q, C) \cup Post(e, C)
           /\ Once(q, C) /\ Mail(q, C) \cap Post(e, C) = {} => Once(Append(q, e), C)
<1> DEFINE r == Append(q, e)
           n == Len(q) + 1
<1>1. /\ 1..Len(r) = 1..Len(q) \cup {n} /\ n \notin 1..Len(q)
      /\ r[n] = e /\ \A i \in 1..Len(q) : r[i] = q[i]
  BY Added
<1> HIDE DEF r, n
<1>2. Mail(r, C) = Mail(q, C) \cup Post(e, C)
  BY <1>1 DEF Mail, Post
<1>3. ASSUME Once(q, C), Mail(q, C) \cap Post(e, C) = {}
      PROVE  Once(r, C)
  <2>1. \A i \in 1..Len(q) : q[i] \in C /\ e \in C => q[i].id # e.id
    BY <1>3 DEF Mail, Post
  <2> QED BY <1>1, <1>3, <2>1 DEF Once
<1> QED BY <1>2, <1>3 DEF r

LEMMA MailOut ==
    ASSUME NEW S, NEW q \in Seq(S), q # <<>>, NEW C
    PROVE  /\ Mail(q, C) = Mail(Tail(q), C) \cup Post(q[1], C)
           /\ Once(q, C) => Once(Tail(q), C) /\ Mail(Tail(q), C) \cap Post(q[1], C) = {}
<1> DEFINE r == Tail(q)
<1>1. /\ 1 \in 1..Len(q) /\ Len(q) \in Nat /\ Len(r) \in Nat
      /\ \A i \in 1..Len(r) : r[i] = q[i + 1] /\ i + 1 \in 1..Len(q)
      /\ \A i \in 1..Len(q) : i = 1 \/ (i - 1 \in 1..Len(r) /\ q[i] = r[i - 1])
  BY Taken
<1> HIDE DEF r
<1>2. Mail(q, C) \subseteq Mail(r, C) \cup Post(q[1], C)
  <2> SUFFICES ASSUME NEW i \in 1..Len(q), q[i] \in C
               PROVE  q[i].id \in Mail(r, C) \cup Post(q[1], C)
    BY DEF Mail
  <2> QED BY <1>1 DEF Mail, Post
<1>3. Mail(r, C) \cup Post(q[1], C) \subseteq Mail(q, C)
  <2>1. \A i \in 1..Len(r) : r[i] \in C => r[i].id \in Mail(q, C)
    <3> SUFFICES ASSUME NEW i \in 1..Len(r), r[i] \in C PROVE r[i].id \in Mail(q, C)
      OBVIOUS
    <3>1. i + 1 \in 1..Len(q) /\ r[i] = q[i + 1]
      BY <1>1
    <3> QED BY <3>1 DEF Mail
  <2>2. q[1] \in C => q[1].id \in Mail(q, C)
    BY <1>1 DEF Mail
  <2> QED BY <2>1, <2>2 DEF Mail, Post
<1>4. ASSUME Once(q, C)
      PROVE  Once(r, C) /\ Mail(r, C) \cap Post(q[1], C) = {}
  <2>1. \A i \in 1..Len(r) : q[i + 1] \in C /\ q[1] \in C => q[i + 1].id # q[1].id
    <3> SUFFICES ASSUME NEW i \in 1..Len(r), q[i + 1] \in C, q[1] \in C, q[i + 1].id = q[1].id
                 PROVE  FALSE
      OBVIOUS
    <3>1. i + 1 = 1
      BY <1>1, <1>4 DEF Once
    <3> QED BY <1>1, <3>1
  <2>2. Once(r, C)
    <3> SUFFICES ASSUME NEW i \in 1..Len(r), NEW j \in 1..Len(r), r[i] \in C, r[j] \in C,
                        r[i].id = r[j].id
                 PROVE  i = j
      BY DEF Once
    <3>1. i + 1 \in 1..Len(q) /\ j + 1 \in 1..Len(q) /\ r[i] = q[i + 1] /\ r[j] = q[j + 1]
      BY <1>1
    <3>2. i + 1 = j + 1
      BY <1>4, <3>1 DEF Once
    <3> QED BY <3>2
  <2> QED BY <1>1, <2>1, <2>2 DEF Mail, Post
<1> QED BY <1>2, <1>3, <1>4 DEF r

LEMMA NoMail == ASSUME NEW C PROVE Mail(<<>>, C) = {} /\ Once(<<>>, C)
BY DEF Mail, Once

\* What the elements of a queue are
LEMMA Kinds ==
    /\ \A l \in Lines : l \in Letters <=> l.cmd \in {"PRIVMSG", "ECHO"}
    /\ \A e \in Events : e \in Arrivals <=> e.ev = "Message"
    /\ \A c \in Commands : c \in Sendings <=> c.cmd = "Privmsg"
<1>1. \A l \in Lines : l \in Letters <=> l.cmd \in {"PRIVMSG", "ECHO"}
  BY DEF Lines, Letters
<1>2. \A e \in Events : e \in Arrivals <=> e.ev = "Message"
  BY DEF Events, Arrivals
<1>3. \A c \in Commands : c \in Sendings <=> c.cmd = "Privmsg"
  BY DEF Commands, Sendings
<1> QED BY <1>1, <1>2, <1>3

---------------------------------------------------------------------------
(* Replays                                                                 *)

LEMMA ReplayNothing == ASSUME NEW v \in Views PROVE Replays(<<>>, v, v)
<1>1. [i \in 0..Len(<<>>) |-> v] \in [0..Len(<<>>) -> Views]
  OBVIOUS
<1>2. Len(<<>>) = 0 /\ 0 \in 0..0 /\ 1..0 = {}
  OBVIOUS
<1> QED BY <1>1, <1>2 DEF Replays

LEMMA ReplayMore ==
    ASSUME NEW S, NEW q \in Seq(S), NEW v, NEW w, Replays(q, v, w),
           NEW l \in S, NEW w2 \in Views, Shows(w, l, w2)
    PROVE  Replays(Append(q, l), v, w2)
<1> DEFINE r == Append(q, l)
           n == Len(q) + 1
<1>1. /\ 1..Len(r) = 1..Len(q) \cup {n} /\ n \notin 1..Len(q) /\ Len(q) \in Nat
      /\ r[n] = l /\ (\A i \in 1..Len(q) : r[i] = q[i]) /\ Len(r) = n
  BY Added
<1>2. PICK h \in [0..Len(q) -> Views] :
         /\ h[0] = v /\ h[Len(q)] = w
         /\ \A i \in 1..Len(q) : Shows(h[i - 1], q[i], h[i])
  BY DEF Replays
<1> DEFINE g == [i \in 0..n |-> IF i = n THEN w2 ELSE h[i]]
<1>3. g \in [0..n -> Views] /\ g[0] = v /\ g[n] = w2 /\ g[n - 1] = w
  BY <1>1, <1>2
<1>4. \A i \in 1..Len(q) : g[i - 1] = h[i - 1] /\ g[i] = h[i]
  BY <1>1, <1>2
<1>5. \A i \in 1..n : Shows(g[i - 1], r[i], g[i])
  <2> SUFFICES ASSUME NEW i \in 1..n PROVE Shows(g[i - 1], r[i], g[i])
    OBVIOUS
  <2>1. CASE i = n
    BY <1>1, <1>3, <2>1
  <2>2. CASE i \in 1..Len(q)
    <3> HIDE DEF g, r
    <3> QED BY <1>1, <1>2, <1>4, <2>2
  <2> QED BY <1>1, <2>1, <2>2
<1> HIDE DEF g, r, n
<1>6. Replays(r, v, w2)
  BY <1>1, <1>3, <1>5 DEF Replays
<1> QED BY <1>6 DEF r

LEMMA ReplayLess ==
    ASSUME NEW S, NEW q \in Seq(S), q # <<>>, NEW v, NEW w, Replays(q, v, w)
    PROVE  \E v2 \in Views : Shows(v, q[1], v2) /\ Replays(Tail(q), v2, w)
<1> DEFINE r == Tail(q)
<1>1. /\ Len(q) \in Nat /\ Len(q) >= 1 /\ Len(r) = Len(q) - 1
      /\ \A i \in 1..Len(r) : r[i] = q[i + 1] /\ i + 1 \in 1..Len(q)
  BY Taken
<1>2. PICK h \in [0..Len(q) -> Views] :
         /\ h[0] = v /\ h[Len(q)] = w
         /\ \A i \in 1..Len(q) : Shows(h[i - 1], q[i], h[i])
  BY DEF Replays
<1> DEFINE g == [i \in 0..Len(r) |-> h[i + 1]]
<1> HIDE DEF r
<1>3. g \in [0..Len(r) -> Views] /\ g[0] = h[1] /\ g[Len(r)] = w
  <2>1. \A i \in 0..Len(r) : i + 1 \in 0..Len(q)
    BY <1>1
  <2> QED BY <1>1, <1>2, <2>1
<1>4. \A i \in 1..Len(r) : Shows(g[i - 1], r[i], g[i])
  <2> SUFFICES ASSUME NEW i \in 1..Len(r) PROVE Shows(g[i - 1], r[i], g[i])
    OBVIOUS
  <2>1. Shows(h[(i + 1) - 1], q[i + 1], h[i + 1])
    BY <1>1, <1>2
  <2>2. (i + 1) - 1 = i /\ (i - 1) + 1 = i /\ i - 1 \in 0..Len(r) /\ i \in 0..Len(r)
    BY <1>1
  <2>3. g[i - 1] = h[i] /\ g[i] = h[i + 1]
    BY <2>2
  <2> HIDE DEF g
  <2> QED BY <1>1, <2>1, <2>2, <2>3
<1>5. Replays(r, h[1], w)
  <2> HIDE DEF g
  <2> QED BY <1>3, <1>4 DEF Replays
<1>6. Shows(v, q[1], h[1]) /\ h[1] \in Views
  <2>1. 1 \in 1..Len(q) /\ 1 \in 0..Len(q) /\ 1 - 1 = 0
    BY <1>1
  <2> QED BY <1>2, <2>1
<1> QED BY <1>5, <1>6 DEF r

---------------------------------------------------------------------------
(* Threads                                                                 *)

Tidy(t, ids) ==
    /\ t \in [shown : SUBSET Keys, rows : [Keys -> SUBSET ids],
              local : [Keys -> SUBSET ids], open : Keys \cup {Unknown}]
    /\ t.open \in t.shown \cup {Unknown}
    /\ \A k \in Keys \ t.shown : t.rows[k] = {} /\ t.local[k] = {}

\* What the nick's thread had is now the DID's.
Joins(r2, r, n, d) ==
    \A k \in Keys : r2[k] = IF k = n THEN {} ELSE IF k = d THEN r[d] \cup r[n] ELSE r[k]

LEMMA Merging ==
    ASSUME NEW ids, NEW t, Tidy(t, ids), NEW n \in Nicks, NEW d \in Dids
    PROVE  /\ Tidy(Merged(t, n, d), ids)
           /\ Joins(Merged(t, n, d).rows, t.rows, n, d)
           /\ Joins(Merged(t, n, d).local, t.local, n, d)
<1>1. n \in Keys /\ d \in Keys /\ n # d
  BY NamesAssumption DEF Keys
<1>2. CASE n \notin t.shown
  <2>1. Merged(t, n, d) = t /\ t.rows[n] = {} /\ t.local[n] = {}
    BY <1>1, <1>2 DEF Merged, Tidy
  <2> QED BY <1>1, <2>1 DEF Joins
<1>3. CASE n \in t.shown
  <2> DEFINE u == [shown |-> (t.shown \ {n}) \cup {d},
          rows |-> [t.rows EXCEPT ![n] = {}, ![d] = @ \cup t.rows[n]],
          local |-> [t.local EXCEPT ![n] = {}, ![d] = @ \cup t.local[n]],
          open |-> IF t.open = n THEN d ELSE t.open]
  <2>1. Merged(t, n, d) = u
    BY <1>3 DEF Merged
  <2>2. /\ u.shown = (t.shown \ {n}) \cup {d}
        /\ u.open = IF t.open = n THEN d ELSE t.open
        /\ DOMAIN u = {"shown", "rows", "local", "open"}
    OBVIOUS
  <2>3. /\ u.rows \in [Keys -> SUBSET ids]
        /\ \A k \in Keys : u.rows[k] =
                 IF k = n THEN {} ELSE IF k = d THEN t.rows[d] \cup t.rows[n] ELSE t.rows[k]
    BY <1>1 DEF Tidy
  <2>4. /\ u.local \in [Keys -> SUBSET ids]
        /\ \A k \in Keys : u.local[k] =
                 IF k = n THEN {} ELSE IF k = d THEN t.local[d] \cup t.local[n] ELSE t.local[k]
    BY <1>1 DEF Tidy
  <2>5. u.shown \subseteq Keys /\ u.open \in Keys \cup {Unknown}
        /\ u.open \in u.shown \cup {Unknown}
    BY <1>1, <2>2 DEF Tidy
  <2>6. u \in [shown : SUBSET Keys, rows : [Keys -> SUBSET ids],
               local : [Keys -> SUBSET ids], open : Keys \cup {Unknown}]
    BY <2>3, <2>4, <2>5
  <2> HIDE DEF u
  <2>7. \A k \in Keys \ u.shown : u.rows[k] = {} /\ u.local[k] = {}
    BY <1>1, <2>2, <2>3, <2>4 DEF Tidy
  <2> QED BY <2>1, <2>3, <2>4, <2>5, <2>6, <2>7 DEF Tidy, Joins
<1> QED BY <1>2, <1>3

Gains(r2, r, k, m) == \A j \in Keys : r2[j] = IF j = k THEN r[k] \cup {m} ELSE r[j]

LEMMA FilingIn ==
    ASSUME NEW ids, NEW t, Tidy(t, ids), NEW k \in Keys, NEW m \in ids
    PROVE  /\ Tidy(Filed(t, k, m), ids)
           /\ Gains(Filed(t, k, m).rows, t.rows, k, m)
<1> DEFINE u == Filed(t, k, m)
<1>1. /\ u.shown = t.shown \cup {k} /\ u.open = t.open
      /\ u.rows = [t.rows EXCEPT ![k] = @ \cup {m}]
      /\ u.local = [t.local EXCEPT ![k] = @ \ {m}]
  BY DEF Filed, Tidy
<1>2. /\ u.rows \in [Keys -> SUBSET ids] /\ u.local \in [Keys -> SUBSET ids]
      /\ u.shown \in SUBSET Keys /\ u.open \in Keys \cup {Unknown}
  BY <1>1 DEF Tidy
<1>3. /\ \A j \in Keys : u.rows[j] = IF j = k THEN t.rows[k] \cup {m} ELSE t.rows[j]
      /\ \A j \in Keys : u.local[j] = IF j = k THEN t.local[k] \ {m} ELSE t.local[j]
  BY <1>1 DEF Tidy
<1>4. u \in [shown : SUBSET Keys, rows : [Keys -> SUBSET ids],
             local : [Keys -> SUBSET ids], open : Keys \cup {Unknown}]
  <2> DEFINE R == [t.rows EXCEPT ![k] = @ \cup {m}]
             L == [t.local EXCEPT ![k] = @ \ {m}]
  <2>1. u = [t EXCEPT !.shown = t.shown \cup {k}, !.rows = R, !.local = L]
    BY DEF Filed, Tidy
  <2>2. R \in [Keys -> SUBSET ids] /\ L \in [Keys -> SUBSET ids]
    BY <1>1, <1>2
  <2> HIDE DEF u, R, L
  <2> QED BY <2>1, <2>2 DEF Tidy
<1> HIDE DEF u
<1>5. Tidy(u, ids)
  BY <1>1, <1>3, <1>4 DEF Tidy
<1>6. Gains(u.rows, t.rows, k, m)
  BY <1>3 DEF Gains
<1> QED BY <1>5, <1>6 DEF u

\* Types, with the threads as one value
LEMMA ThreadTypes ==
    /\ Types => Tidy(Threads, Ids)
    /\ \A t : SetThreads(t) /\ Tidy(t, Ids) =>
          /\ shown' \subseteq Keys /\ open' \in shown' \cup {Unknown}
          /\ rows' \in [Keys -> SUBSET Ids] /\ local' \in [Keys -> SUBSET Ids]
          /\ \A k \in Keys \ shown' : rows'[k] = {} /\ local'[k] = {}
<1>1. Types => Tidy(Threads, Ids)
  BY DEF Types, Tidy, Threads
<1>2. ASSUME NEW t, SetThreads(t), Tidy(t, Ids)
      PROVE  /\ shown' \subseteq Keys /\ open' \in shown' \cup {Unknown}
             /\ rows' \in [Keys -> SUBSET Ids] /\ local' \in [Keys -> SUBSET Ids]
             /\ \A k \in Keys \ shown' : rows'[k] = {} /\ local'[k] = {}
  BY <1>2 DEF Tidy, SetThreads
<1> QED BY <1>1, <1>2

---------------------------------------------------------------------------
(* Types                                                                   *)

LEMMA LineFields ==
    \A l \in Lines :
        /\ l.cmd \in {"JOIN", "PRIVMSG"} => l.nick \in Nicks /\ l.who \in Who
        /\ l.cmd \in {"QUIT", "NICK"} => l.nick \in Nicks
        /\ l.cmd = "NICK" => l.new \in Nicks
        /\ l.cmd \in {"330", "TARGETS"} => l.nick \in Nicks /\ l.who \in Dids
        /\ l.cmd = "ECHO" => l.nick \in Keys
        /\ l.cmd \in {"PRIVMSG", "ECHO"} => l.id \in Nat
        /\ l.cmd \in {"PRIVMSG", "ECHO", "JOIN", "QUIT", "NICK", "330", "TARGETS"}
BY DEF Lines, Letters, Keys

LEMMA EventFields ==
    \A e \in Events :
        /\ e.ev = "Joined" => e.nick \in Nicks /\ e.who \in Who
        /\ e.ev \in {"UserQuit", "NickChanged"} => e.nick \in Nicks
        /\ e.ev = "NickChanged" => e.new \in Nicks
        /\ e.ev \in {"MemberDid", "ChatHistoryTarget"} => e.nick \in Nicks /\ e.did \in Dids
        /\ e.ev = "Message" => /\ e.nick \in Keys /\ e.key \in Keys /\ e.id \in Nat
                               /\ e.mine \in BOOLEAN
        /\ e.ev \in {"Message", "Joined", "UserQuit", "NickChanged", "MemberDid",
                     "ChatHistoryTarget"}
BY DEF Events, Arrivals

LEMMA CommandFields ==
    \A c \in Commands :
        /\ c.cmd = "Privmsg" => c.to \in Keys /\ c.id \in Nat
        /\ c.cmd = "Whois" => c.to \in Nicks
        /\ c.cmd \in {"Privmsg", "Whois"}
BY DEF Commands, Sendings

LEMMA Elements ==
    ASSUME NEW S, NEW q \in Seq(S), NEW i \in 1..Len(q)
    PROVE  q[i] \in S
OBVIOUS

LEMMA SaidTypes ==
    ASSUME Types, NEW m \in Ids
    PROVE  said[m] \in [from : Who \cup {Unknown}, to : Keys \cup {Unknown}, route : Route]
<1> DEFINE S == [from : Who \cup {Unknown}, to : Keys \cup {Unknown}, route : Route]
<1>1. said \in Seq(S) /\ m \in 1..Len(said)
  BY DEF Types, Ids
<1> HIDE DEF S
<1>2. said[m] \in S
  BY <1>1, Elements
<1> QED BY <1>2 DEF S

LEMMA KeyTypes ==
    ASSUME NEW peer \in Keys, NEW a \in [Nicks -> Dids \cup {Unknown}], NEW dsp
    PROVE  /\ Resolved(peer, IF peer \in Nicks THEN a[peer] ELSE Unknown) \in Keys
           /\ DmKeys(peer, a, dsp) \subseteq Keys
           /\ peer \in Nicks /\ a[peer] \in Dids => DmKeys(peer, a, dsp) = {a[peer]}
<1>1. Resolved(peer, IF peer \in Nicks THEN a[peer] ELSE Unknown) \in Keys
  BY DEF Resolved, Keys
<1>2. DmKeys(peer, a, dsp) \subseteq Keys
  BY <1>1 DEF DmKeys, Keys
<1>3. ASSUME peer \in Nicks, a[peer] \in Dids
      PROVE  DmKeys(peer, a, dsp) = {a[peer]}
  <2>1. a[peer] # Unknown /\ peer \notin Dids
    BY <1>3, NamesAssumption DEF Keys
  <2> QED BY <1>3, <2>1 DEF DmKeys, Resolved
<1> QED BY <1>1, <1>2, <1>3

\* At most two events for a line, the message last
LEMMA Emitting ==
    ASSUME NEW q \in Seq(Events), NEW a \in Events, NEW b \in Events
    PROVE  /\ q \o <<>> = q /\ q \o <<a>> = Append(q, a)
           /\ q \o (<<>> \o <<a>>) = Append(q, a)
           /\ q \o (<<b>> \o <<a>>) = Append(Append(q, b), a)
<1>1. q \o <<a>> = Append(q, a)
  BY AppendIsConcat
<1>2. q \o <<>> = q /\ <<>> \o <<a>> = <<a>>
  BY ConcatEmptySeq
<1>3. <<a>> \in Seq(Events) /\ <<b>> \in Seq(Events)
  OBVIOUS
<1>4. q \o (<<b>> \o <<a>>) = (q \o <<b>>) \o <<a>>
  BY <1>3, ConcatAssociative
<1>5. q \o <<b>> = Append(q, b) /\ Append(q, b) \in Seq(Events)
  BY AppendIsConcat
<1>6. Append(q, b) \o <<a>> = Append(Append(q, b), a)
  BY <1>5, AppendIsConcat
<1> QED BY <1>1, <1>2, <1>4, <1>5, <1>6

\* The event of a letter is about its message, in a thread of its author.
Agrees(a, l) ==
    /\ a \in Arrivals /\ a.id = l.id
    /\ IF a.mine THEN l.cmd = "ECHO"
                 ELSE l.cmd = "PRIVMSG" /\ (l.who \in Dids => a.key = l.who)

Bears(a, l) == IF l \in Letters THEN Agrees(a, l) ELSE a.ev # "Message"

Passes ==
    /\ wire # <<>> /\ wire' = Tail(wire)
    /\ \/ evs' = evs /\ wire[1] \notin Letters
       \/ \E a \in Events : evs' = Append(evs, a) /\ Bears(a, wire[1])
       \/ \E a, b \in Events : /\ b.ev = "MemberDid" /\ Bears(a, wire[1])
                              /\ evs' = Append(Append(evs, b), a)

LEMMA LearnTypes ==
    ASSUME Types, NEW n \in Nicks, NEW d \in Dids, Learn(n, d)
    PROVE  /\ addr' \in [Nicks -> Dids \cup {Unknown}]
           /\ disp' \in [Dids -> Nicks \cup {Unknown}]
           /\ addr'[n] = d /\ \A o \in Nicks \ {n} : addr'[o] = addr[o]
BY DEF Types, Learn

LEMMA NewsOf ==
    ASSUME NEW n \in Nicks, NEW d \in Dids
    PROVE  /\ [ev |-> "MemberDid", nick |-> n, did |-> d] \in Events
           /\ News(n, d) \in {<<>>, <<[ev |-> "MemberDid", nick |-> n, did |-> d]>>}
BY DEF News, Events

LEMMA ReadPasses ==
    ASSUME Types, Read
    PROVE  Passes
<1> USE LineFields
<1>1. wire # <<>> /\ wire' = Tail(wire) /\ wire[1] \in Lines /\ evs \in Seq(Events)
  <2>1. wire # <<>> /\ wire' = Tail(wire)
    BY DEF Read, ReadJoin, ReadQuit, ReadNick, ReadPrivmsg, ReadEcho, ReadWhois, ReadTargets, Line
  <2> QED BY <2>1, Taken DEF Types
<1> DEFINE l == wire[1]
<1>2. l \in Letters <=> l.cmd \in {"PRIVMSG", "ECHO"}
  BY <1>1, Kinds
<1>3. ASSUME NEW a \in Events, Bears(a, l), Emit(<<a>>)
      PROVE  Passes
  BY <1>1, <1>3, Emitting DEF Passes, Emit
<1>4. ASSUME NEW a \in Events, NEW n \in Nicks, NEW d \in Dids, Bears(a, l),
             Emit(News(n, d) \o <<a>>)
      PROVE  Passes
  <2> DEFINE b == [ev |-> "MemberDid", nick |-> n, did |-> d]
  <2>1. b \in Events /\ b.ev = "MemberDid" /\ News(n, d) \in {<<>>, <<b>>}
    BY NewsOf
  <2> HIDE DEF b
  <2>2. evs' \in {Append(evs, a), Append(Append(evs, b), a)}
    BY <1>1, <1>4, <2>1, Emitting DEF Emit
  <2> QED BY <1>1, <1>4, <2>1, <2>2 DEF Passes
<1>5. CASE ReadJoin
  <2> DEFINE a == [ev |-> "Joined", nick |-> l.nick, who |-> l.who]
  <2>1. l.cmd = "JOIN" /\ l.nick \in Nicks /\ l.who \in Who
    BY <1>1, <1>5 DEF ReadJoin, Line
  <2>2. a \in Events /\ Bears(a, l)
    BY <1>2, <2>1 DEF Events, Bears
  <2>3. \/ l.who \in Dids /\ Emit(News(l.nick, l.who) \o <<a>>)
        \/ Emit(<<a>>)
    BY <1>5 DEF ReadJoin
  <2> QED BY <1>3, <1>4, <2>1, <2>2, <2>3
<1>6. CASE ReadQuit
  <2> DEFINE a == [ev |-> "UserQuit", nick |-> l.nick]
  <2>1. l.cmd = "QUIT" /\ l.nick \in Nicks /\ Emit(<<a>>)
    BY <1>1, <1>6 DEF ReadQuit, Line
  <2>2. a \in Events /\ Bears(a, l)
    BY <1>2, <2>1 DEF Events, Bears
  <2> QED BY <1>3, <2>1, <2>2
<1>7. CASE ReadNick
  <2> DEFINE a == [ev |-> "NickChanged", nick |-> l.nick, new |-> l.new]
  <2>1. l.cmd = "NICK" /\ l.nick \in Nicks /\ l.new \in Nicks /\ Emit(<<a>>)
    BY <1>1, <1>7 DEF ReadNick, Line
  <2>2. a \in Events /\ Bears(a, l)
    BY <1>2, <2>1 DEF Events, Bears
  <2> QED BY <1>3, <2>1, <2>2
<1>8. CASE ReadPrivmsg
  <2>1. l.cmd = "PRIVMSG" /\ l.nick \in Nicks /\ l.who \in Who /\ l.id \in Nat
        /\ l.nick \in Keys
    BY <1>1, <1>8 DEF ReadPrivmsg, Line, Keys
  <2>2. PICK k \in DmKeys(l.nick, addr', disp') :
           Emit((IF l.who \in Dids THEN News(l.nick, l.who) ELSE <<>>)
                 \o <<[ev |-> "Message", nick |-> l.nick, id |-> l.id, key |-> k,
                       mine |-> FALSE]>>)
    BY <1>8 DEF ReadPrivmsg
  <2> DEFINE a == [ev |-> "Message", nick |-> l.nick, id |-> l.id, key |-> k, mine |-> FALSE]
  <2>3. addr' \in [Nicks -> Dids \cup {Unknown}] /\ (l.who \in Dids => addr'[l.nick] = l.who)
    <3>1. CASE l.who \in Dids /\ Learn(l.nick, l.who)
      BY <2>1, <3>1, LearnTypes
    <3>2. CASE l.who = Guest /\ UNCHANGED sdkVars
      BY <3>2, NamesAssumption DEF Keys, sdkVars, Types
    <3> QED BY <1>8, <3>1, <3>2 DEF ReadPrivmsg
  <2>4. k \in Keys /\ (l.who \in Dids => k = l.who)
    BY <2>1, <2>3, KeyTypes
  <2>5. a \in Arrivals /\ a \in Events /\ Bears(a, l)
    BY <1>2, <2>1, <2>4 DEF Events, Arrivals, Bears, Agrees
  <2>6. CASE l.who \in Dids
    <3>1. Emit(News(l.nick, l.who) \o <<a>>)
      BY <2>2, <2>6
    <3> QED BY <1>4, <2>1, <2>5, <2>6, <3>1
  <2>7. CASE l.who \notin Dids
    <3>1. Emit(<<>> \o <<a>>)
      BY <2>2, <2>7
    <3> HIDE DEF a
    <3>2. Emit(<<a>>)
      BY <1>1, <2>5, <3>1, Emitting DEF Emit
    <3> QED BY <1>3, <2>5, <3>2
  <2> QED BY <2>6, <2>7
<1>9. CASE ReadEcho
  <2>1. l.cmd = "ECHO" /\ l.nick \in Keys /\ l.id \in Nat
    BY <1>1, <1>9 DEF ReadEcho, Line
  <2>2. PICK k \in DmKeys(l.nick, addr, disp) :
           Emit(<<[ev |-> "Message", nick |-> l.nick, id |-> l.id, key |-> k,
                   mine |-> TRUE]>>)
    BY <1>9 DEF ReadEcho
  <2> DEFINE a == [ev |-> "Message", nick |-> l.nick, id |-> l.id, key |-> k, mine |-> TRUE]
  <2>3. k \in Keys
    BY <2>1, KeyTypes DEF Types
  <2>4. a \in Arrivals /\ a \in Events /\ Bears(a, l)
    BY <1>2, <2>1, <2>3 DEF Events, Arrivals, Bears, Agrees
  <2> QED BY <1>3, <2>2, <2>4
<1>10. CASE ReadWhois
  <2>1. l.cmd = "330" /\ l.nick \in Nicks /\ l.who \in Dids /\ Emit(News(l.nick, l.who))
    BY <1>1, <1>10 DEF ReadWhois, Line
  <2> DEFINE a == [ev |-> "MemberDid", nick |-> l.nick, did |-> l.who]
  <2>2. a \in Events /\ Bears(a, l) /\ News(l.nick, l.who) \in {<<>>, <<a>>}
    BY <1>2, <2>1, NewsOf DEF Bears
  <2> HIDE DEF a
  <2>3. evs' = evs \/ Emit(<<a>>)
    BY <1>1, <2>1, <2>2, Emitting DEF Emit
  <2> QED BY <1>1, <1>2, <1>3, <2>1, <2>2, <2>3 DEF Passes
<1>11. CASE ReadTargets
  <2> DEFINE a == [ev |-> "ChatHistoryTarget", nick |-> l.nick, did |-> l.who]
  <2>1. l.cmd = "TARGETS" /\ l.nick \in Nicks /\ l.who \in Dids /\ Emit(<<a>>)
    BY <1>1, <1>11 DEF ReadTargets, Line
  <2>2. a \in Events /\ Bears(a, l)
    BY <1>2, <2>1 DEF Events, Bears
  <2> QED BY <1>3, <2>1, <2>2
<1> QED BY <1>5, <1>6, <1>7, <1>8, <1>9, <1>10, <1>11 DEF Read

\* Of a line that was read, the owner of the nick becomes known, and the address
\* follows it.
LEMMA ReadMaps ==
    ASSUME Types, OfflineQuiet, SeenInv, SdkNeverStale, Read
    PROVE  /\ addr' \in [Nicks -> Dids \cup {Unknown}]
           /\ disp' \in [Dids -> Nicks \cup {Unknown}]
           /\ seen' \in Views /\ online /\ SeenInv' /\ SdkNeverStale'
<1> USE LineFields, NamesAssumption DEF Types, Keys, Who
<1>1. /\ wire # <<>> /\ wire' = Tail(wire) /\ wire[1] \in Lines
      /\ UNCHANGED <<appVars, cmds, online, serverVars, said, spent, budget, met, chosen,
                     historyVars>>
  <2>1. wire # <<>> /\ wire' = Tail(wire)
    BY DEF Read, ReadJoin, ReadQuit, ReadNick, ReadPrivmsg, ReadEcho, ReadWhois, ReadTargets, Line
  <2>2. ReadKeeps
    BY DEF Read, ReadJoin, ReadQuit, ReadNick, ReadPrivmsg, ReadEcho, ReadWhois, ReadTargets
  <2> QED BY <2>1, <2>2, Taken DEF ReadKeeps
<1>2. online
  BY <1>1 DEF OfflineQuiet
<1> DEFINE l == wire[1]
<1>3. PICK v \in Views : Replays(wire, seen, v) /\ Fits(v)
  BY <1>2 DEF SeenInv
<1>4. PICK v2 \in Views : Shows(seen, l, v2) /\ Replays(Tail(wire), v2, v)
  BY <1>1, <1>3, ReplayLess
<1>5. SeenInv' /\ seen' \in Views
  <2>1. seen' = v2
    <3>1. CASE ReadJoin
      BY <1>1, <1>4, <3>1 DEF ReadJoin, Line, Saw, Shows
    <3>2. CASE ReadQuit
      BY <1>1, <1>4, <3>2 DEF ReadQuit, Line, Saw, Shows
    <3>3. CASE ReadNick
      BY <1>1, <1>4, <3>3 DEF ReadNick, Line, Saw, Shows
    <3>4. CASE ReadPrivmsg
      BY <1>1, <1>4, <3>4 DEF ReadPrivmsg, Line, Saw, Shows
    <3>5. CASE ReadEcho
      BY <1>1, <1>4, <3>5 DEF ReadEcho, Line, Shows
    <3>6. CASE ReadWhois
      BY <1>1, <1>4, <3>6 DEF ReadWhois, Line, Saw, Shows
    <3>7. CASE ReadTargets
      BY <1>1, <1>4, <3>7 DEF ReadTargets, Line, Shows
    <3> QED BY <3>1, <3>2, <3>3, <3>4, <3>5, <3>6, <3>7 DEF Read
  <2>2. Fits(v)'
    BY <1>1, <1>3 DEF Fits, serverVars
  <2> QED BY <1>1, <1>4, <2>1, <2>2 DEF SeenInv
<1>6. ASSUME NEW n \in Nicks, NEW w \in Who, Saw(n, w), seen[n] \in {w, Nobody, Unknown},
             \/ w \in Dids /\ Learn(n, w)
             \/ w = Guest /\ UNCHANGED sdkVars
      PROVE  /\ addr' \in [Nicks -> Dids \cup {Unknown}]
             /\ disp' \in [Dids -> Nicks \cup {Unknown}] /\ SdkNeverStale'
  <2>1. seen'[n] = w /\ \A o \in Nicks \ {n} : seen'[o] = seen[o]
    BY <1>6 DEF Saw, Views
  <2>2. CASE w \in Dids /\ Learn(n, w)
    <3>1. /\ addr' \in [Nicks -> Dids \cup {Unknown}]
          /\ disp' \in [Dids -> Nicks \cup {Unknown}]
          /\ addr'[n] = w /\ \A o \in Nicks \ {n} : addr'[o] = addr[o]
      BY <2>2, LearnTypes
    <3>2. \A o \in Nicks : addr'[o] # Unknown => addr'[o] = seen'[o]
      BY <2>1, <3>1 DEF SdkNeverStale
    <3> QED BY <3>1, <3>2 DEF SdkNeverStale
  <2>3. CASE w = Guest /\ UNCHANGED sdkVars
    <3>1. addr[n] = Unknown
      BY <1>6, <2>3 DEF SdkNeverStale
    <3> QED BY <2>1, <2>3, <3>1 DEF SdkNeverStale, sdkVars
  <2> QED BY <1>6, <2>2, <2>3
<1>7. CASE ReadJoin
  <2>1. l.cmd = "JOIN" /\ l.nick \in Nicks /\ l.who \in Who /\ seen[l.nick] = Nobody
    BY <1>1, <1>4, <1>7 DEF ReadJoin, Line, Shows
  <2> QED BY <1>2, <1>5, <1>6, <1>7, <2>1 DEF ReadJoin
<1>8. CASE ReadPrivmsg
  <2>1. l.cmd = "PRIVMSG" /\ l.nick \in Nicks /\ l.who \in Who
        /\ seen[l.nick] \in {l.who, Unknown}
    BY <1>1, <1>4, <1>8 DEF ReadPrivmsg, Line, Shows
  <2> QED BY <1>2, <1>5, <1>6, <1>8, <2>1 DEF ReadPrivmsg
<1>9. CASE ReadWhois
  <2>1. l.cmd = "330" /\ l.nick \in Nicks /\ l.who \in Dids
        /\ seen[l.nick] \in {l.who, Unknown}
    BY <1>1, <1>4, <1>9 DEF ReadWhois, Line, Shows
  <2> QED BY <1>2, <1>5, <1>6, <1>9, <2>1 DEF ReadWhois
<1>10. CASE ReadQuit
  <2>1. l.nick \in Nicks /\ addr' = [addr EXCEPT ![l.nick] = Unknown] /\ disp' = disp
        /\ seen' = [seen EXCEPT ![l.nick] = Nobody]
    BY <1>1, <1>10 DEF ReadQuit, Line, Forget, Saw
  <2> QED BY <1>2, <1>5, <2>1 DEF SdkNeverStale, Views
<1>11. CASE ReadNick
  <2>1. /\ l.nick \in Nicks /\ l.new \in Nicks /\ l.new # l.nick /\ seen[l.new] = Nobody
        /\ Rename(l.nick, l.new)
        /\ seen' = [seen EXCEPT ![l.nick] = Nobody, ![l.new] = seen[l.nick]]
    BY <1>1, <1>4, <1>11 DEF ReadNick, Line, Shows
  <2>2. addr[l.new] = Unknown
    BY <2>1 DEF SdkNeverStale
  <2>3. CASE addr[l.nick] = Unknown
    BY <1>2, <1>5, <2>1, <2>2, <2>3 DEF SdkNeverStale, Views, Rename, sdkVars
  <2>4. CASE addr[l.nick] # Unknown
    <3> DEFINE d == addr[l.nick]
    <3>1. d \in Dids /\ d = seen[l.nick]
      BY <2>1, <2>4 DEF SdkNeverStale
    <3>2. /\ addr' = [addr EXCEPT ![l.nick] = Unknown, ![l.new] = d]
          /\ disp' = [disp EXCEPT ![d] = l.new]
      BY <2>1, <2>4 DEF Rename
    <3>3. /\ addr' \in [Nicks -> Dids \cup {Unknown}]
          /\ disp' \in [Dids -> Nicks \cup {Unknown}]
      BY <2>1, <3>1, <3>2
    <3>4. /\ addr'[l.nick] = Unknown /\ addr'[l.new] = d /\ seen'[l.new] = seen[l.nick]
          /\ \A o \in Nicks \ {l.nick, l.new} : addr'[o] = addr[o] /\ seen'[o] = seen[o]
      BY <2>1, <3>2 DEF Views
    <3>5. \A o \in Nicks : addr'[o] # Unknown => addr'[o] = seen'[o]
      BY <3>1, <3>4 DEF SdkNeverStale
    <3> QED BY <1>2, <1>5, <3>3, <3>5 DEF SdkNeverStale
  <2> QED BY <2>3, <2>4
<1>12. CASE ReadEcho
  BY <1>2, <1>5, <1>12 DEF ReadEcho, sdkVars, SdkNeverStale
<1>13. CASE ReadTargets
  <2>1. l.nick \in Nicks /\ l.who \in Dids
    BY <1>1, <1>13 DEF ReadTargets, Line
  <2> QED BY <1>2, <1>5, <1>13, <2>1 DEF ReadTargets, SdkNeverStale
<1> QED BY <1>7, <1>8, <1>9, <1>10, <1>11, <1>12, <1>13 DEF Read

LEMMA StepRead ==
    ASSUME IInv, Read
    PROVE  IInv'
<1> USE DEF IInv
<1>1. /\ UNCHANGED <<bound, shown, rows, local, open, cmds, online, owner, held, said, spent,
                     budget, met, chosen, refused, routes>>
  BY DEF Read, ReadJoin, ReadQuit, ReadNick, ReadPrivmsg, ReadEcho, ReadWhois, ReadTargets,
         ReadKeeps, appVars, serverVars, historyVars
<1>2. Passes
  BY ReadPasses
<1>3. wire \in Seq(Lines) /\ evs \in Seq(Events)
  BY DEF Types
<1>4. wire' \in Seq(Lines) /\ evs' \in Seq(Events)
  <2>1. \A q \in Seq(Events), a \in Events : Append(q, a) \in Seq(Events)
    OBVIOUS
  <2>2. wire' \in Seq(Lines)
    BY <1>2, <1>3, Taken DEF Passes
  <2> QED BY <1>2, <1>3, <2>1, <2>2 DEF Passes
<1>5. Types'
  BY <1>1, <1>4, ReadMaps DEF Types, Ids
<1>6. OfflineQuiet' /\ SeenInv' /\ SdkNeverStale'
  BY <1>1, ReadMaps DEF OfflineQuiet
<1>7. wire[1] \in Lines /\ Ids' = Ids /\ Filing' = Filing
  BY <1>1, <1>2, <1>3, Taken DEF Passes, Filing, Ids
<1>8. /\ Mail(wire, Letters) = Mail(wire', Letters) \cup Post(wire[1], Letters)
      /\ Once(wire, Letters) => /\ Once(wire', Letters)
                                /\ Mail(wire', Letters) \cap Post(wire[1], Letters) = {}
  BY <1>2, <1>3, MailOut DEF Passes
<1>9. /\ Mail(evs', Arrivals) = Mail(evs, Arrivals) \cup Post(wire[1], Letters)
      /\ Once(evs, Arrivals) /\ Mail(evs, Arrivals) \cap Post(wire[1], Letters) = {}
            => Once(evs', Arrivals)
  <2>1. ASSUME NEW a \in Events, Bears(a, wire[1])
        PROVE  Post(a, Arrivals) = Post(wire[1], Letters)
    BY <1>7, <2>1, Kinds DEF Bears, Agrees, Post
  <2>2. CASE evs' = evs /\ wire[1] \notin Letters
    BY <2>2 DEF Post
  <2>3. ASSUME NEW a \in Events, evs' = Append(evs, a), Bears(a, wire[1])
        PROVE  <1>9
    BY <1>3, <2>1, <2>3, MailIn
  <2>4. ASSUME NEW a \in Events, NEW b \in Events, b.ev = "MemberDid", Bears(a, wire[1]),
               evs' = Append(Append(evs, b), a)
        PROVE  <1>9
    <3>1. Post(b, Arrivals) = {}
      BY <2>4, Kinds DEF Post
    <3>2. Append(evs, b) \in Seq(Events)
      BY <1>3, Added
    <3>3. Mail(Append(evs, b), Arrivals) = Mail(evs, Arrivals)
          /\ (Once(evs, Arrivals) => Once(Append(evs, b), Arrivals))
      <4>1. /\ Mail(Append(evs, b), Arrivals) = Mail(evs, Arrivals) \cup Post(b, Arrivals)
            /\ Once(evs, Arrivals) /\ Mail(evs, Arrivals) \cap Post(b, Arrivals) = {}
                  => Once(Append(evs, b), Arrivals)
        BY <1>3, MailIn
      <4> QED BY <3>1, <4>1
    <3> DEFINE q == Append(evs, b)
    <3>4. /\ Mail(Append(q, a), Arrivals) = Mail(q, Arrivals) \cup Post(a, Arrivals)
          /\ Once(q, Arrivals) /\ Mail(q, Arrivals) \cap Post(a, Arrivals) = {}
                  => Once(Append(q, a), Arrivals)
      BY <3>2, MailIn
    <3> QED BY <2>1, <2>4, <3>3, <3>4
  <2> QED BY <1>2, <2>2, <2>3, <2>4 DEF Passes
<1>10. MailInv'
  <2> DEFINE K == Mail(cmds, Sendings)
             W == Mail(wire, Letters)
             W2 == Mail(wire', Letters)
             E == Mail(evs, Arrivals)
             E2 == Mail(evs', Arrivals)
             P == Post(wire[1], Letters)
  <2>1. K \cup W2 \cup E2 \subseteq Ids
    BY <1>8, <1>9 DEF MailInv
  <2>2. ASSUME spent.drops = 0
        PROVE  /\ Once(wire', Letters) /\ Once(evs', Arrivals)
               /\ K \cap W2 = {} /\ K \cap E2 = {} /\ W2 \cap E2 = {}
               /\ Filing \cap (K \cup W2 \cup E2) = {}
               /\ Ids \subseteq K \cup W2 \cup E2 \cup Filing \cup refused
    BY <1>8, <1>9, <2>2 DEF MailInv
  <2> QED BY <1>1, <1>7, <2>1, <2>2 DEF MailInv
<1>11. AuthorInv'
  <2>1. \A m, w : From(m, w)' = From(m, w)
    BY <1>1 DEF From
  <2>2. \A i \in 1..Len(wire') :
          /\ wire'[i].cmd = "PRIVMSG" => From(wire'[i].id, wire'[i].who)
          /\ wire'[i].cmd = "ECHO" => From(wire'[i].id, Unknown)
    BY <1>2, <1>3, Taken DEF AuthorInv, Passes
  <2> DEFINE Ok(e) == e.ev = "Message" =>
                         IF e.mine THEN From(e.id, Unknown)
                         ELSE said[e.id].from \in Dids => From(e.id, e.key)
  <2>3. \A i \in 1..Len(evs) : Ok(evs[i])
    BY DEF AuthorInv
  <2>4. ASSUME NEW a \in Events, Bears(a, wire[1]) PROVE Ok(a)
    <3>1. 1 \in 1..Len(wire)
      BY <1>2, <1>3, Taken DEF Passes
    <3> QED BY <2>4, <3>1, <1>7, Kinds DEF Bears, Agrees, AuthorInv, From
  <2>5. \A i \in 1..Len(evs') : Ok(evs'[i])
    <3> HIDE DEF Ok
    <3>1. ASSUME NEW a \in Events, Ok(a), NEW q \in Seq(Events), \A i \in 1..Len(q) : Ok(q[i])
          PROVE  \A i \in 1..Len(Append(q, a)) : Ok(Append(q, a)[i])
      BY <3>1, Added
    <3>2. CASE evs' = evs
      BY <2>3, <3>2
    <3>3. ASSUME NEW a \in Events, Bears(a, wire[1]), evs' = Append(evs, a)
          PROVE  <2>5
      BY <1>3, <2>3, <2>4, <3>1, <3>3
    <3>4. ASSUME NEW a \in Events, NEW b \in Events, b.ev = "MemberDid", Bears(a, wire[1]),
                 evs' = Append(Append(evs, b), a)
          PROVE  <2>5
      <4>1. Ok(b)
        BY <3>4 DEF Ok
      <4>2. Append(evs, b) \in Seq(Events)
        BY <1>3, Added
      <4>3. \A i \in 1..Len(Append(evs, b)) : Ok(Append(evs, b)[i])
        BY <1>3, <2>3, <3>1, <4>1
      <4> QED BY <2>4, <3>1, <3>4, <4>2, <4>3
    <3> QED BY <1>2, <3>2, <3>3, <3>4 DEF Passes
  <2> QED BY <1>1, <2>1, <2>2, <2>5 DEF AuthorInv, From
<1> QED BY <1>5, <1>6, <1>10, <1>11

---------------------------------------------------------------------------
(* The UI handles an event                                                 *)

\* What MailInv and AuthorInv say of the rows alone
Kept(r)      == UNION {r[k] : k \in Keys}
Lone(r)      == \A k, j \in Keys : r[k] \cap r[j] # {} => k = j
AuthorRows(r) == \A k \in Keys : \A m \in r[k] : said[m].from \in Dids => From(m, k)

LEMMA MergingKeeps ==
    ASSUME NEW ids, NEW t, Tidy(t, ids), NEW n \in Nicks, NEW d \in Dids
    PROVE  LET u == Merged(t, n, d)
           IN  /\ Kept(u.rows) = Kept(t.rows)
               /\ Lone(t.rows) => Lone(u.rows)
               /\ AuthorRows(t.rows) => AuthorRows(u.rows)
<1> DEFINE u == Merged(t, n, d)
<1>0. Joins(u.rows, t.rows, n, d)
  BY Merging
<1>1. \A k \in Keys : u.rows[k] =
         IF k = n THEN {} ELSE IF k = d THEN t.rows[d] \cup t.rows[n] ELSE t.rows[k]
  BY <1>0 DEF Joins
<1>2. n \in Keys /\ d \in Keys /\ n # d /\ n \notin Dids
  BY NamesAssumption DEF Keys
<1> HIDE DEF u
<1>3. Kept(u.rows) = Kept(t.rows)
  <2>1. \A m : (\E k \in Keys : m \in u.rows[k]) => (\E k \in Keys : m \in t.rows[k])
    BY <1>1, <1>2
  <2>2. \A m : (\E k \in Keys : m \in t.rows[k]) => (\E k \in Keys : m \in u.rows[k])
    BY <1>1, <1>2
  <2>3. \A m : m \in Kept(u.rows) <=> m \in Kept(t.rows)
    BY <2>1, <2>2 DEF Kept
  <2> QED BY <2>3
<1>4. Lone(t.rows) => Lone(u.rows)
  <2> SUFFICES ASSUME Lone(t.rows), NEW k \in Keys, NEW j \in Keys, NEW m,
                      m \in u.rows[k], m \in u.rows[j]
               PROVE  k = j
    BY DEF Lone
  <2>1. \A i \in Keys : m \in u.rows[i] =>
           i # n /\ (m \in t.rows[i] \/ (i = d /\ m \in t.rows[n]))
    BY <1>1
  <2>2. \A i1, i2 \in Keys : m \in t.rows[i1] /\ m \in t.rows[i2] => i1 = i2
    BY DEF Lone
  <2> QED BY <1>2, <2>1, <2>2
<1>5. AuthorRows(t.rows) => AuthorRows(u.rows)
  <2> SUFFICES ASSUME AuthorRows(t.rows), NEW k \in Keys, NEW m \in u.rows[k],
                      said[m].from \in Dids
               PROVE  From(m, k)
    BY DEF AuthorRows
  <2>1. k # n /\ (m \in t.rows[k] \/ (k = d /\ m \in t.rows[n]))
    BY <1>1
  <2>2. m \notin t.rows[n]
    BY <1>2 DEF AuthorRows, From
  <2> QED BY <2>1, <2>2 DEF AuthorRows
<1> QED BY <1>3, <1>4, <1>5 DEF u

LEMMA FilingKeeps ==
    ASSUME NEW ids, NEW t, Tidy(t, ids), NEW k \in Keys, NEW m \in ids
    PROVE  LET u == Filed(t, k, m)
           IN  /\ Kept(u.rows) = Kept(t.rows) \cup {m}
               /\ Lone(t.rows) /\ m \notin Kept(t.rows) => Lone(u.rows)
               /\ AuthorRows(t.rows) /\ (said[m].from \in Dids => From(m, k))
                     => AuthorRows(u.rows)
<1> DEFINE u == Filed(t, k, m)
<1>0. Gains(u.rows, t.rows, k, m)
  BY FilingIn
<1>1. \A j \in Keys : u.rows[j] = IF j = k THEN t.rows[k] \cup {m} ELSE t.rows[j]
  BY <1>0 DEF Gains
<1> HIDE DEF u
<1>2. Kept(u.rows) = Kept(t.rows) \cup {m}
  <2>1. \A x : (\E j \in Keys : x \in u.rows[j]) <=> (\E j \in Keys : x \in t.rows[j]) \/ x = m
    BY <1>1
  <2>2. \A x : x \in Kept(u.rows) <=> x \in Kept(t.rows) \/ x = m
    BY <2>1 DEF Kept
  <2> QED BY <2>2
<1>3. Lone(t.rows) /\ m \notin Kept(t.rows) => Lone(u.rows)
  BY <1>1 DEF Lone, Kept
<1>4. AuthorRows(t.rows) /\ (said[m].from \in Dids => From(m, k)) => AuthorRows(u.rows)
  BY <1>1 DEF AuthorRows
<1> QED BY <1>2, <1>3, <1>4 DEF u

\* The same of what filing makes, by a name of its own.
LEMMA FilingResult ==
    ASSUME NEW ids, NEW t, Tidy(t, ids), NEW k \in Keys, NEW m \in ids, NEW u, u = Filed(t, k, m),
           AuthorRows(t.rows), said[m].from \in Dids => From(m, k)
    PROVE  /\ Kept(u.rows) = Kept(t.rows) \cup {m}
           /\ Lone(t.rows) /\ m \notin Kept(t.rows) => Lone(u.rows)
           /\ AuthorRows(u.rows)
  BY FilingKeeps

\* An event that is handled: the threads are arranged anew, and only its message
\* is added.
Arranged(t) ==
    /\ SetThreads(t) /\ Tidy(t, Ids)
    /\ Kept(t.rows) = Kept(rows) \cup Post(evs[1], Arrivals)
    /\ Lone(rows) /\ Kept(rows) \cap Post(evs[1], Arrivals) = {} => Lone(t.rows)
    /\ AuthorRows(t.rows)

LEMMA HandleArranges ==
    ASSUME Types, MailInv, AuthorInv, Handle
    PROVE  /\ evs # <<>> /\ evs' = Tail(evs) /\ EventKeeps
           /\ chosen' = chosen /\ met' \in Views
           /\ bound' \in [Nicks -> Dids \cup {Unknown}]
           /\ \E t : Arranged(t)
<1> USE EventFields
<1>1. /\ evs # <<>> /\ evs' = Tail(evs) /\ EventKeeps /\ chosen' = chosen
      /\ evs[1] \in Events /\ 1 \in 1..Len(evs)
  <2>1. evs # <<>> /\ evs' = Tail(evs) /\ EventKeeps /\ chosen' = chosen
    BY DEF Handle, OnMemberDid, OnJoined, OnUserQuit, OnNickChanged, OnMessage, OnTarget, Event
  <2> QED BY <2>1, Taken DEF Types
<1> DEFINE e == evs[1]
<1>2. /\ Tidy(Threads, Ids) /\ Threads.rows = rows
      /\ AuthorRows(rows) /\ (UNCHANGED appVars => SetThreads(Threads))
  BY ThreadTypes DEF Threads, AuthorInv, AuthorRows, SetThreads, appVars
<1>3. e \in Arrivals <=> e.ev = "Message"
  BY <1>1, Kinds
<1>4. ASSUME e.ev # "Message", UNCHANGED appVars
      PROVE  /\ bound' \in [Nicks -> Dids \cup {Unknown}]
             /\ \E t : Arranged(t)
  <2>1. Post(e, Arrivals) = {}
    BY <1>3, <1>4 DEF Post
  <2>2. Arranged(Threads)
    BY <1>2, <1>4, <2>1 DEF Arranged
  <2> QED BY <1>4, <2>2 DEF Types, appVars
<1>5. ASSUME e.ev # "Message", NEW n \in Nicks, NEW d \in Dids, Adopt(n, d)
      PROVE  /\ bound' \in [Nicks -> Dids \cup {Unknown}]
             /\ \E t : Arranged(t)
  <2>1. Post(e, Arrivals) = {}
    BY <1>3, <1>5 DEF Post
  <2>2. Tidy(Merged(Threads, n, d), Ids)
    BY <1>2, Merging
  <2>3. /\ Kept(Merged(Threads, n, d).rows) = Kept(rows)
        /\ Lone(rows) => Lone(Merged(Threads, n, d).rows)
        /\ AuthorRows(Merged(Threads, n, d).rows)
    BY <1>2, MergingKeeps
  <2>4. SetThreads(Merged(Threads, n, d)) /\ bound' = [bound EXCEPT ![n] = d]
    BY <1>5 DEF Adopt
  <2>5. Arranged(Merged(Threads, n, d))
    BY <2>1, <2>2, <2>3, <2>4 DEF Arranged
  <2> QED BY <2>4, <2>5 DEF Types
<1>6. CASE OnMemberDid
  <2>1. e.ev = "MemberDid" /\ met' = met /\ Adopt(e.nick, e.did)
    BY <1>6 DEF OnMemberDid, Event
  <2> QED BY <1>1, <1>5, <2>1 DEF Types
<1>7. CASE OnJoined
  <2>1. e.ev = "Joined" /\ met' = [met EXCEPT ![e.nick] = e.who]
        /\ (UNCHANGED appVars \/ (e.who \in Dids /\ Adopt(e.nick, e.who)))
    BY <1>7 DEF OnJoined, Event
  <2>2. met' \in Views
    BY <1>1, <2>1 DEF Types, Views, Owners
  <2> QED BY <1>1, <1>4, <1>5, <2>1, <2>2
<1>8. CASE OnUserQuit
  <2>1. e.ev = "UserQuit" /\ met' = [met EXCEPT ![e.nick] = Nobody] /\ UNCHANGED appVars
    BY <1>8 DEF OnUserQuit, Event
  <2>2. met' \in Views
    BY <1>1, <2>1 DEF Types, Views, Owners
  <2> QED BY <1>1, <1>4, <2>1, <2>2
<1>9. CASE OnNickChanged
  <2>1. e.ev = "NickChanged" /\ UNCHANGED appVars
        /\ met' = [met EXCEPT ![e.nick] = Nobody, ![e.new] = met[e.nick]]
    BY <1>9 DEF OnNickChanged, Event
  <2>2. met' \in Views
    BY <1>1, <2>1 DEF Types, Views, Owners
  <2> QED BY <1>1, <1>4, <2>1, <2>2
<1>10. CASE OnMessage
  <2>1. e.ev = "Message" /\ e \in Arrivals
    BY <1>3, <1>10 DEF OnMessage, Event
  <2>2. e.id \in Ids /\ Post(e, Arrivals) = {e.id}
    BY <1>1, <2>1 DEF MailInv, Mail, Post
  <2>3. said[e.id].from \in Dids => From(e.id, e.key)
    BY <1>1, <2>1, NamesAssumption DEF AuthorInv, From, Keys
  <2>4. met' \in Views
    <3>1. said[e.id].from \in Owners
      <4>1. said[e.id] \in [from : Who \cup {Unknown}, to : Keys \cup {Unknown}, route : Route]
        BY <2>2, SaidTypes
      <4> QED BY <4>1 DEF Owners
    <3>2. ~e.mine => e.nick \in Keys
      BY <1>1, <2>1
    <3>3. met' = IF e.mine THEN met ELSE [met EXCEPT ![e.nick] = said[e.id].from]
      BY <1>10 DEF OnMessage
    <3> QED BY <3>1, <3>2, <3>3 DEF Types, Views
  <2>5. CASE /\ e.key \in Dids /\ e.nick \in Nicks
             /\ bound' = [bound EXCEPT ![e.nick] = e.key]
             /\ SetThreads(Filed(Merged(Threads, e.nick, e.key), e.key, e.id))
    <3> DEFINE t == Merged(Threads, e.nick, e.key)
    <3>1. Tidy(t, Ids)
      BY <1>2, <2>5, Merging
    <3>2. Kept(t.rows) = Kept(rows) /\ (Lone(rows) => Lone(t.rows)) /\ AuthorRows(t.rows)
      BY <1>2, <2>5, MergingKeeps
    <3> HIDE DEF t
    <3>3. e.key \in Keys
      BY <1>1, <2>1
    <3>4. Tidy(Filed(t, e.key, e.id), Ids)
      BY <2>2, <3>1, <3>3, FilingIn
    <3>5. /\ Kept(Filed(t, e.key, e.id).rows) = Kept(t.rows) \cup {e.id}
          /\ Lone(t.rows) /\ e.id \notin Kept(t.rows) => Lone(Filed(t, e.key, e.id).rows)
          /\ AuthorRows(Filed(t, e.key, e.id).rows)
      <4>1. PICK k \in Keys : k = e.key
        BY <3>3
      <4>2. PICK m \in Ids : m = e.id
        BY <2>2
      <4>3. PICK u : u = Filed(t, k, m)
        OBVIOUS
      <4>4. AuthorRows(t.rows) /\ (said[m].from \in Dids => From(m, k))
        BY <2>3, <3>2, <4>1, <4>2
      <4>5. /\ Kept(u.rows) = Kept(t.rows) \cup {m}
            /\ Lone(t.rows) /\ m \notin Kept(t.rows) => Lone(u.rows)
            /\ AuthorRows(u.rows)
        BY <3>1, <4>3, <4>4, FilingResult
      <4> QED BY <4>1, <4>2, <4>3, <4>5
    <3>6. Arranged(Filed(t, e.key, e.id))
      BY <2>2, <2>5, <3>2, <3>4, <3>5 DEF Arranged, t
    <3> QED BY <1>1, <2>4, <2>5, <3>6 DEF Types
  <2>6. CASE bound' = bound /\ SetThreads(Filed(Threads, e.key, e.id))
    <3>1. e.key \in Keys
      BY <1>1, <2>1
    <3>2. Tidy(Filed(Threads, e.key, e.id), Ids)
      BY <1>2, <2>2, <3>1, FilingIn
    <3>3. /\ Kept(Filed(Threads, e.key, e.id).rows) = Kept(rows) \cup {e.id}
          /\ Lone(rows) /\ e.id \notin Kept(rows) => Lone(Filed(Threads, e.key, e.id).rows)
          /\ AuthorRows(Filed(Threads, e.key, e.id).rows)
      <4>1. PICK k \in Keys : k = e.key
        BY <3>1
      <4>2. PICK m \in Ids : m = e.id
        BY <2>2
      <4>3. PICK t : t = Threads
        OBVIOUS
      <4>4. PICK u : u = Filed(t, k, m)
        OBVIOUS
      <4>5. /\ Tidy(t, Ids) /\ t.rows = rows /\ AuthorRows(t.rows)
            /\ said[m].from \in Dids => From(m, k)
        BY <1>2, <2>3, <4>1, <4>2, <4>3
      <4>6. /\ Kept(u.rows) = Kept(t.rows) \cup {m}
            /\ Lone(t.rows) /\ m \notin Kept(t.rows) => Lone(u.rows)
            /\ AuthorRows(u.rows)
        BY <4>4, <4>5, FilingResult
      <4> QED BY <4>1, <4>2, <4>3, <4>4, <4>5, <4>6
    <3>4. Arranged(Filed(Threads, e.key, e.id))
      BY <2>2, <2>6, <3>2, <3>3 DEF Arranged
    <3> QED BY <1>1, <2>4, <2>6, <3>4 DEF Types
  <2> QED BY <1>10, <2>5, <2>6 DEF OnMessage, CopyFiled
<1>11. CASE OnTarget
  <2> DEFINE t == Merged(Threads, e.nick, e.did)
             u == [t EXCEPT !.shown = @ \cup {e.did}]
  <2>1. /\ e.ev = "ChatHistoryTarget" /\ met' = met /\ SetThreads(u)
        /\ bound' = [bound EXCEPT ![e.nick] = e.did]
    BY <1>11 DEF OnTarget, Event
  <2>2. e.nick \in Nicks /\ e.did \in Dids /\ e.did \in Keys
    BY <1>1, <2>1 DEF Keys
  <2>3. Tidy(t, Ids)
    BY <1>2, <2>2, Merging
  <2>4. Kept(t.rows) = Kept(rows) /\ (Lone(rows) => Lone(t.rows)) /\ AuthorRows(t.rows)
    BY <1>2, <2>2, MergingKeeps
  <2> HIDE DEF t
  <2>5. u.rows = t.rows /\ Tidy(u, Ids)
    BY <2>2, <2>3 DEF Tidy
  <2>6. Post(e, Arrivals) = {}
    BY <1>3, <2>1 DEF Post
  <2> HIDE DEF u
  <2>7. Arranged(u)
    BY <2>1, <2>4, <2>5, <2>6 DEF Arranged
  <2> QED BY <1>1, <2>1, <2>2, <2>7 DEF Types
<1> QED BY <1>6, <1>7, <1>8, <1>9, <1>10, <1>11 DEF Handle

LEMMA StepHandle ==
    ASSUME IInv, Handle
    PROVE  IInv'
<1> USE DEF IInv
<1>1. /\ evs # <<>> /\ evs' = Tail(evs) /\ EventKeeps /\ chosen' = chosen
      /\ met' \in Views /\ bound' \in [Nicks -> Dids \cup {Unknown}]
  BY HandleArranges
<1>2. PICK t : Arranged(t)
  BY HandleArranges
<1>3. /\ UNCHANGED <<addr, disp, cmds, online, wire, owner, held, said, spent, budget, seen,
                     refused, routes>>
      /\ Ids' = Ids /\ rows' = t.rows
  BY <1>1, <1>2 DEF EventKeeps, sdkVars, serverVars, historyVars, Ids, Arranged, SetThreads
<1>4. evs \in Seq(Events) /\ evs' \in Seq(Events)
  BY <1>1, Taken DEF Types
<1>5. Types'
  <2>1. /\ shown' \subseteq Keys /\ open' \in shown' \cup {Unknown}
        /\ rows' \in [Keys -> SUBSET Ids] /\ local' \in [Keys -> SUBSET Ids]
        /\ \A k \in Keys \ shown' : rows'[k] = {} /\ local'[k] = {}
    BY <1>2, ThreadTypes DEF Arranged
  <2> QED BY <1>1, <1>3, <1>4, <2>1 DEF Types
<1>6. OfflineQuiet' /\ SeenInv' /\ SdkNeverStale'
  BY <1>1, <1>3 DEF OfflineQuiet, SeenInv, SdkNeverStale, Fits
<1>7. /\ Mail(evs, Arrivals) = Mail(evs', Arrivals) \cup Post(evs[1], Arrivals)
      /\ Once(evs, Arrivals) => /\ Once(evs', Arrivals)
                                /\ Mail(evs', Arrivals) \cap Post(evs[1], Arrivals) = {}
  BY <1>1, <1>4, MailOut
<1>8. MailInv'
  <2> DEFINE K == Mail(cmds, Sendings)
             W == Mail(wire, Letters)
             E == Mail(evs, Arrivals)
             E2 == Mail(evs', Arrivals)
             F == Filing
             F2 == Kept(rows')
             P == Post(evs[1], Arrivals)
  <2>1. K \cup W \cup E2 \subseteq Ids
    BY <1>7 DEF MailInv
  <2>2. F2 = F \cup P /\ Kept(rows) = F
    BY <1>2, <1>3 DEF Arranged, Kept, Filing
  <2>3. ASSUME spent.drops = 0
        PROVE  /\ Once(evs', Arrivals)
               /\ K \cap E2 = {} /\ W \cap E2 = {}
               /\ F2 \cap (K \cup W \cup E2) = {}
               /\ Lone(rows')
               /\ Ids \subseteq K \cup W \cup E2 \cup F2 \cup refused
    <3>1. Lone(rows) /\ F \cap P = {}
      BY <1>7, <2>3 DEF MailInv, Lone
    <3>2. Lone(rows')
      BY <1>2, <1>3, <2>2, <3>1 DEF Arranged
    <3> QED BY <1>7, <2>2, <2>3, <3>2 DEF MailInv
  <2>4. Filing' = F2
    BY DEF Filing, Kept
  <2> QED BY <1>3, <2>1, <2>3, <2>4 DEF MailInv, Lone
<1>9. AuthorInv'
  <2>1. \A i \in 1..Len(evs') : evs'[i].ev = "Message" =>
           IF evs'[i].mine THEN From(evs'[i].id, Unknown)
           ELSE said[evs'[i].id].from \in Dids => From(evs'[i].id, evs'[i].key)
    BY <1>1, <1>4, Taken DEF AuthorInv
  <2>2. AuthorRows(rows')
    BY <1>2, <1>3 DEF Arranged
  <2> QED BY <1>3, <2>1, <2>2 DEF AuthorInv, AuthorRows, From
<1> QED BY <1>5, <1>6, <1>8, <1>9

---------------------------------------------------------------------------
(* The steps that leave the rows alone                                     *)

\* A message that is said
LEMMA Saying ==
    ASSUME Types, NEW r \in [from : Who \cup {Unknown}, to : Keys \cup {Unknown}, route : Route],
           said' = Append(said, r)
    PROVE  LET m == Len(said) + 1
           IN  /\ said' \in Seq([from : Who \cup {Unknown}, to : Keys \cup {Unknown},
                                 route : Route])
               /\ m \in Nat /\ Ids' = Ids \cup {m} /\ m \notin Ids /\ said'[m] = r
               /\ \A x \in Ids : said'[x] = said[x]
<1> DEFINE S == [from : Who \cup {Unknown}, to : Keys \cup {Unknown}, route : Route]
<1>1. said \in Seq(S) /\ r \in S
  BY DEF Types
<1> HIDE DEF S
<1>2. /\ Append(said, r) \in Seq(S) /\ Len(said) \in Nat
      /\ \A i \in 1..Len(said) : Append(said, r)[i] = said[i]
      /\ Append(said, r)[Len(said) + 1] = r
      /\ 1..Len(Append(said, r)) = 1..Len(said) \cup {Len(said) + 1}
      /\ Len(said) + 1 \notin 1..Len(said)
  BY <1>1, Added
<1> QED BY <1>2 DEF S, Ids

\* A line that the server sends, in step with the owners of the nicks
Timely(l) == \A v \in Views : Fits(v) => \E v2 \in Views : Shows(v, l, v2) /\ Fits(v2)'

LEMMA Telling ==
    ASSUME Types, SeenInv, NEW l \in Lines, wire' = Append(wire, l), Timely(l), online,
           UNCHANGED seen
    PROVE  SeenInv'
<1>1. PICK v \in Views : Replays(wire, seen, v) /\ Fits(v)
  BY DEF SeenInv
<1>2. PICK v2 \in Views : Shows(v, l, v2) /\ Fits(v2)'
  BY <1>1 DEF Timely
<1>3. Replays(Append(wire, l), seen, v2)
  BY <1>1, <1>2, ReplayMore DEF Types
<1> QED BY <1>2, <1>3 DEF SeenInv

\* Who said what is not forgotten.
LEMMA AuthorsStay ==
    ASSUME Types, MailInv, AuthorInv, UNCHANGED <<evs, rows>>,
           \A x \in Ids : said'[x] = said[x],
           \A x \in Mail(cmds', Sendings) \cup refused' :
              x \in Mail(cmds, Sendings) \cup refused \/ said'[x].from = Unknown,
           \A i \in 1..Len(wire') :
              \/ i \in 1..Len(wire) /\ wire'[i] = wire[i]
              \/ /\ wire'[i].cmd = "PRIVMSG" => said'[wire'[i].id].from = wire'[i].who
                 /\ wire'[i].cmd = "ECHO" => said'[wire'[i].id].from = Unknown
    PROVE  AuthorInv'
<1>1. \A x \in Mail(cmds', Sendings) \cup refused' : said'[x].from = Unknown
  BY DEF MailInv, AuthorInv, From, Types
<1>2. \A i \in 1..Len(wire') :
         /\ wire'[i].cmd = "PRIVMSG" => said'[wire'[i].id].from = wire'[i].who
         /\ wire'[i].cmd = "ECHO" => said'[wire'[i].id].from = Unknown
  <2>1. \A i \in 1..Len(wire) : wire[i].cmd \in {"PRIVMSG", "ECHO"} => wire[i].id \in Ids
    <3>1. \A i \in 1..Len(wire) : wire[i] \in Lines
      BY Elements DEF Types
    <3> QED BY <3>1, Kinds DEF MailInv, Mail
  <2> QED BY <2>1 DEF AuthorInv, From
<1>3. \A i \in 1..Len(evs) : evs[i].ev = "Message" => evs[i].id \in Ids
  <2>1. \A i \in 1..Len(evs) : evs[i] \in Events
    BY Elements DEF Types
  <2> QED BY <2>1, Kinds DEF MailInv, Mail
<1>4. \A k \in Keys : rows[k] \subseteq Ids
  BY DEF Types
<1> QED BY <1>1, <1>2, <1>3, <1>4 DEF AuthorInv, From

\* What became of the queues in a step that files nothing: the commands are kept,
\* the lines too, and what comes is no mail.
Chatter ==
    /\ \/ cmds' = cmds
       \/ \E c \in Commands : cmds' = Append(cmds, c) /\ c \notin Sendings
    /\ \/ wire' = wire
       \/ \E l \in Lines : wire' = Append(wire, l) /\ l \notin Letters
    /\ UNCHANGED <<evs, rows, said, refused>> /\ spent'.drops = spent.drops

LEMMA ChatterKeeps ==
    ASSUME Types, MailInv, AuthorInv, Chatter
    PROVE  /\ MailInv' /\ AuthorInv'
           /\ wire' \in Seq(Lines) /\ evs' \in Seq(Events) /\ cmds' \in Seq(Commands)
<1>1. wire \in Seq(Lines) /\ evs \in Seq(Events) /\ cmds \in Seq(Commands)
  BY DEF Types
<1>2. /\ cmds' \in Seq(Commands) /\ Mail(cmds', Sendings) = Mail(cmds, Sendings)
      /\ Once(cmds, Sendings) => Once(cmds', Sendings)
  <2>1. CASE cmds' = cmds
    BY <1>1, <2>1
  <2>2. ASSUME NEW c \in Commands, cmds' = Append(cmds, c), c \notin Sendings
        PROVE  <1>2
    <3>1. Post(c, Sendings) = {}
      BY <2>2 DEF Post
    <3>2. /\ Mail(Append(cmds, c), Sendings) = Mail(cmds, Sendings) \cup Post(c, Sendings)
          /\ Once(cmds, Sendings) /\ Mail(cmds, Sendings) \cap Post(c, Sendings) = {}
                => Once(Append(cmds, c), Sendings)
      BY <1>1, MailIn
    <3>3. Append(cmds, c) \in Seq(Commands)
      BY <1>1, Added
    <3> QED BY <2>2, <3>1, <3>2, <3>3
  <2> QED BY <2>1, <2>2 DEF Chatter
<1>3. /\ wire' \in Seq(Lines) /\ Mail(wire', Letters) = Mail(wire, Letters)
      /\ Once(wire, Letters) => Once(wire', Letters)
      /\ \A i \in 1..Len(wire') : \/ i \in 1..Len(wire) /\ wire'[i] = wire[i]
                                  \/ wire'[i].cmd \notin {"PRIVMSG", "ECHO"}
  <2>1. CASE wire' = wire
    BY <1>1, <2>1
  <2>2. ASSUME NEW l \in Lines, wire' = Append(wire, l), l \notin Letters
        PROVE  <1>3
    <3>1. Post(l, Letters) = {} /\ l.cmd \notin {"PRIVMSG", "ECHO"}
      BY <2>2, Kinds DEF Post
    <3>2. /\ Mail(Append(wire, l), Letters) = Mail(wire, Letters) \cup Post(l, Letters)
          /\ Once(wire, Letters) /\ Mail(wire, Letters) \cap Post(l, Letters) = {}
                => Once(Append(wire, l), Letters)
      BY <1>1, MailIn
    <3>3. /\ Append(wire, l) \in Seq(Lines)
          /\ \A i \in 1..Len(Append(wire, l)) :
                \/ i \in 1..Len(wire) /\ Append(wire, l)[i] = wire[i]
                \/ Append(wire, l)[i] = l
      BY <1>1, Added
    <3> QED BY <2>2, <3>1, <3>2, <3>3
  <2> QED BY <2>1, <2>2 DEF Chatter
<1>4. UNCHANGED <<evs, rows, said, refused>> /\ spent'.drops = spent.drops
  BY DEF Chatter
<1>5. Ids' = Ids /\ Filing' = Filing
  BY <1>4 DEF Ids, Filing
<1>6. MailInv'
  BY <1>2, <1>3, <1>4, <1>5 DEF MailInv
<1>7. AuthorInv'
  BY <1>2, <1>3, <1>4 DEF AuthorInv, From
<1> QED BY <1>1, <1>2, <1>3, <1>4, <1>6, <1>7

\* People come, go and change their nicks.
LEMMA Moving ==
    ASSUME IInv, NEW l \in Lines, l \notin Letters, Tells(l), Timely(l),
           Moves, OutsideKeeps, said' = said, owner' \in [Nicks -> Who \cup {Nobody}]
    PROVE  IInv'
<1> USE DEF IInv
<1>1. /\ UNCHANGED <<addr, disp, bound, shown, rows, local, open, cmds, evs, online, budget,
                     seen, met, chosen, refused, routes, said>>
      /\ spent' = [spent EXCEPT !.moves = @ + 1]
  BY DEF OutsideKeeps, Moves, sdkVars, appVars, historyVars
<1>2. /\ spent'.drops = spent.drops
      /\ spent' = [moves |-> spent'.moves, drops |-> spent'.drops, whois |-> spent'.whois]
  <2>1. spent' = [moves |-> spent.moves + 1, drops |-> spent.drops, whois |-> spent.whois]
    BY <1>1 DEF Types
  <2> QED BY <2>1
<1>3. wire' = wire \/ wire' = Append(wire, l)
  BY DEF Tells
<1>4. Chatter
  BY <1>1, <1>2, <1>3 DEF Chatter
<1>5. Types'
  BY <1>1, <1>2, <1>4, ChatterKeeps DEF Types, Ids
<1>6. OfflineQuiet' /\ SdkNeverStale'
  BY <1>1 DEF OfflineQuiet, SdkNeverStale, Tells
<1>7. SeenInv'
  <2>1. CASE online
    BY <1>1, <2>1, Telling DEF Tells
  <2>2. CASE ~online
    BY <1>1, <2>2 DEF SeenInv
  <2> QED BY <2>1, <2>2
<1> QED BY <1>4, <1>5, <1>6, <1>7, ChatterKeeps

LEMMA StepMove ==
    ASSUME IInv, NEW n \in Nicks, NEW o \in Nicks, NEW w \in Who,
           Leave(n) \/ Arrive(n, w) \/ ChangeNick(n, o)
    PROVE  IInv'
<1> USE NamesAssumption DEF Who, Keys
<1>1. owner \in [Nicks -> Who \cup {Nobody}]
  BY DEF IInv, Types
<1>2. CASE Leave(n)
  <2> DEFINE l == [cmd |-> "QUIT", nick |-> n]
  <2>1. l \in Lines /\ l \notin Letters
    BY DEF Lines, Letters
  <2>2. owner' = [owner EXCEPT ![n] = Nobody] /\ owner' \in [Nicks -> Who \cup {Nobody}]
    BY <1>1, <1>2 DEF Leave
  <2>3. Timely(l)
    <3> SUFFICES ASSUME NEW v \in Views, Fits(v)
                 PROVE  \E v2 \in Views : Shows(v, l, v2) /\ Fits(v2)'
      BY DEF Timely
    <3> DEFINE v2 == [v EXCEPT ![n] = Nobody]
    <3>1. v2 \in Views /\ Shows(v, l, v2)
      BY DEF Views, Owners, Shows
    <3>2. Fits(v2)'
      BY <1>1, <2>2 DEF Fits, Views
    <3> QED BY <3>1, <3>2
  <2> HIDE DEF l
  <2>4. Moves /\ OutsideKeeps /\ said' = said /\ Tells(l)
    BY <1>2 DEF Leave, l
  <2> QED BY <2>1, <2>2, <2>3, <2>4, Moving
<1>3. CASE Arrive(n, w)
  <2> DEFINE l == [cmd |-> "JOIN", nick |-> n, who |-> w]
  <2>1. l \in Lines /\ l \notin Letters
    BY DEF Lines, Letters
  <2>2. /\ owner[n] = Nobody
        /\ owner' = [owner EXCEPT ![n] = w] /\ owner' \in [Nicks -> Who \cup {Nobody}]
    BY <1>1, <1>3 DEF Arrive
  <2>3. Timely(l)
    <3> SUFFICES ASSUME NEW v \in Views, Fits(v)
                 PROVE  \E v2 \in Views : Shows(v, l, v2) /\ Fits(v2)'
      BY DEF Timely
    <3> DEFINE v2 == [v EXCEPT ![n] = w]
    <3>1. v[n] = Nobody
      BY <2>2 DEF Fits
    <3>2. v2 \in Views /\ Shows(v, l, v2)
      BY <3>1 DEF Views, Owners, Shows
    <3>3. Fits(v2)'
      BY <1>1, <2>2 DEF Fits, Views
    <3> QED BY <3>2, <3>3
  <2> HIDE DEF l
  <2>4. Moves /\ OutsideKeeps /\ said' = said /\ Tells(l)
    BY <1>3 DEF Arrive, l
  <2> QED BY <2>1, <2>2, <2>3, <2>4, Moving
<1>4. CASE ChangeNick(n, o)
  <2> DEFINE l == [cmd |-> "NICK", nick |-> n, new |-> o]
  <2>1. l \in Lines /\ l \notin Letters
    BY DEF Lines, Letters
  <2>2. /\ owner[n] # Nobody /\ owner[o] = Nobody /\ n # o
        /\ owner' = [owner EXCEPT ![n] = Nobody, ![o] = owner[n]]
        /\ owner' \in [Nicks -> Who \cup {Nobody}]
    BY <1>1, <1>4 DEF ChangeNick
  <2>3. Timely(l)
    <3> SUFFICES ASSUME NEW v \in Views, Fits(v)
                 PROVE  \E v2 \in Views : Shows(v, l, v2) /\ Fits(v2)'
      BY DEF Timely
    <3> DEFINE v2 == [v EXCEPT ![n] = Nobody, ![o] = v[n]]
    <3>1. v[o] = Nobody
      BY <2>2 DEF Fits
    <3>2. v2 \in Views /\ Shows(v, l, v2)
      BY <2>2, <3>1 DEF Views, Owners, Shows
    <3>3. Fits(v2)'
      BY <1>1, <2>2 DEF Fits, Views
    <3> QED BY <3>2, <3>3
  <2> HIDE DEF l
  <2>4. Moves /\ OutsideKeeps /\ said' = said /\ Tells(l)
    BY <1>4 DEF ChangeNick, l
  <2> QED BY <2>1, <2>2, <2>3, <2>4, Moving
<1> QED BY <1>2, <1>3, <1>4

\* A peer writes.
LEMMA StepWhisper ==
    ASSUME IInv, NEW n \in Nicks, Whisper(n)
    PROVE  IInv'
<1> USE NamesAssumption DEF IInv
<1> DEFINE m == Len(said) + 1
           r == [from |-> owner[n], to |-> Unknown, route |-> NoRoute]
           l == [cmd |-> "PRIVMSG", nick |-> n, who |-> owner[n], id |-> m]
<1>1. /\ UNCHANGED <<addr, disp, bound, shown, rows, local, open, cmds, evs, online, budget,
                     seen, met, chosen, refused, routes, owner, spent>>
      /\ online /\ owner[n] \in Who /\ said' = Append(said, r) /\ wire' = Append(wire, l)
  BY DEF Whisper, Tells, OutsideKeeps, sdkVars, appVars, historyVars, Types
<1>2. r \in [from : Who \cup {Unknown}, to : Keys \cup {Unknown}, route : Route]
  BY <1>1 DEF NoRoute, Route, Owners
<1> HIDE DEF r
<1>3. /\ said' \in Seq([from : Who \cup {Unknown}, to : Keys \cup {Unknown}, route : Route])
      /\ m \in Nat /\ Ids' = Ids \cup {m} /\ m \notin Ids /\ said'[m] = r
      /\ \A x \in Ids : said'[x] = said[x]
  BY <1>1, <1>2, Saying
<1> HIDE DEF m
<1>4. l \in Letters /\ l \in Lines /\ l.cmd = "PRIVMSG" /\ l.id = m /\ l.who = owner[n]
  BY <1>1, <1>3 DEF Letters, Lines
<1>5. Timely(l)
  <2> SUFFICES ASSUME NEW v \in Views, Fits(v)
               PROVE  \E v2 \in Views : Shows(v, l, v2) /\ Fits(v2)'
    BY DEF Timely
  <2>0. PICK v2 \in Views : v2 = [v EXCEPT ![n] = owner[n]]
    BY <1>1 DEF Views, Owners
  <2>1. Shows(v, l, v2)
    BY <1>1, <2>0 DEF Shows, Fits
  <2>2. Fits(v2)'
    BY <1>1, <2>0 DEF Fits, Views
  <2> QED BY <2>1, <2>2
<1> HIDE DEF l
<1>6. wire \in Seq(Lines)
  BY DEF Types
<1>7. wire' \in Seq(Lines)
  BY <1>1, <1>4, <1>6, Added
<1>8. Types'
  BY <1>1, <1>3, <1>7 DEF Types
<1>9. OfflineQuiet' /\ SdkNeverStale' /\ SeenInv'
  <2>1. SeenInv'
    BY <1>1, <1>4, <1>5, Telling
  <2> QED BY <1>1, <2>1 DEF OfflineQuiet, SdkNeverStale
<1>10. /\ Mail(wire', Letters) = Mail(wire, Letters) \cup {m}
       /\ Once(wire, Letters) /\ m \notin Mail(wire, Letters) => Once(wire', Letters)
  <2>1. /\ Mail(Append(wire, l), Letters) = Mail(wire, Letters) \cup Post(l, Letters)
        /\ Once(wire, Letters) /\ Mail(wire, Letters) \cap Post(l, Letters) = {}
              => Once(Append(wire, l), Letters)
    BY <1>4, <1>6, MailIn
  <2>2. Post(l, Letters) = {m}
    BY <1>4 DEF Post
  <2> QED BY <1>1, <2>1, <2>2
<1>11. Filing' = Filing /\ Filing \subseteq Ids
  BY <1>1 DEF Filing, Types
<1>12. MailInv'
  <2>1. (Mail(cmds, Sendings) \cup Mail(wire', Letters) \cup Mail(evs, Arrivals)) \subseteq Ids'
    BY <1>3, <1>10 DEF MailInv
  <2>2. ASSUME spent.drops = 0
        PROVE  /\ Once(wire', Letters)
               /\ Mail(cmds, Sendings) \cap Mail(wire', Letters) = {}
               /\ Mail(wire', Letters) \cap Mail(evs, Arrivals) = {}
               /\ Filing \cap (Mail(cmds, Sendings) \cup Mail(wire', Letters)
                                  \cup Mail(evs, Arrivals)) = {}
               /\ Ids' \subseteq Mail(cmds, Sendings) \cup Mail(wire', Letters)
                                    \cup Mail(evs, Arrivals) \cup Filing \cup refused
    BY <1>3, <1>10, <1>11, <2>2 DEF MailInv
  <2> QED BY <1>1, <1>11, <2>1, <2>2 DEF MailInv
<1>13. AuthorInv'
  <2>1. \A i \in 1..Len(wire') : \/ i \in 1..Len(wire) /\ wire'[i] = wire[i]
                                 \/ wire'[i] = l
    BY <1>1, <1>4, <1>6, Added
  <2>2. said'[m].from = owner[n]
    BY <1>3 DEF r
  <2> QED BY <1>1, <1>3, <1>4, <2>1, <2>2, AuthorsStay
<1> QED BY <1>8, <1>9, <1>12, <1>13

---------------------------------------------------------------------------
(* The net thread, the user and the connection                             *)

\* What a command that is executed becomes: the copy of its message, or nothing
\* when there is nobody to take it.
LEMMA ExecuteSends ==
    ASSUME Types, Execute
    PROVE  /\ cmds # <<>> /\ cmds' = Tail(cmds) /\ cmds[1] \in Commands
           /\ \/ wire' = wire /\ Post(cmds[1], Sendings) \subseteq refused'
              \/ \E l \in Lines : /\ wire' = Append(wire, l) /\ l \notin Letters
                                  /\ Timely(l) /\ cmds[1] \notin Sendings
              \/ \E l \in Lines : /\ wire' = Append(wire, l) /\ l.cmd = "ECHO"
                                  /\ cmds[1] \in Sendings /\ l.id = cmds[1].id
           /\ refused \subseteq refused'
           /\ refused' \subseteq refused \cup Post(cmds[1], Sendings)
<1> DEFINE c == cmds[1]
<1>1. /\ cmds # <<>> /\ cmds' = Tail(cmds) /\ c \in Commands
      /\ UNCHANGED owner
  BY Taken DEF Execute, Types, serverVars
<1>2. c \in Sendings <=> c.cmd = "Privmsg"
  BY <1>1, Kinds
<1>3. CASE c.cmd = "Whois"
  <2>1. c \notin Sendings /\ Post(c, Sendings) = {} /\ refused' = refused
    BY <1>2, <1>3 DEF Execute, Post, historyVars
  <2>2. c.to \in Nicks
    BY <1>1, <1>3, CommandFields
  <2>3. CASE owner[c.to] \in Dids
    <3> DEFINE l == [cmd |-> "330", nick |-> c.to, who |-> owner[c.to]]
    <3>1. wire' = Append(wire, l)
      BY <1>3, <2>3 DEF Execute
    <3>2. l \in Lines /\ l \notin Letters
      BY <2>2, <2>3 DEF Lines, Letters
    <3>3. Timely(l)
      <4> SUFFICES ASSUME NEW v \in Views, Fits(v)
                   PROVE  \E v2 \in Views : Shows(v, l, v2) /\ Fits(v2)'
        BY DEF Timely
      <4>1. PICK v2 \in Views : v2 = [v EXCEPT ![c.to] = owner[c.to]]
        BY <2>2, <2>3 DEF Views, Owners, Who
      <4>2. Shows(v, l, v2)
        BY <2>2, <4>1 DEF Shows, Fits
      <4>3. Fits(v2)'
        BY <1>1, <2>2, <4>1 DEF Fits, Views
      <4> QED BY <4>2, <4>3
    <3> HIDE DEF l
    <3> QED BY <1>1, <2>1, <3>1, <3>2, <3>3
  <2>4. CASE owner[c.to] \notin Dids
    BY <1>1, <1>3, <2>1, <2>4 DEF Execute
  <2> QED BY <2>3, <2>4
<1>4. CASE c.cmd = "Privmsg"
  <2> DEFINE to == WireTarget(c.to)
  <2>1. c \in Sendings /\ Post(c, Sendings) = {c.id} /\ c.to \in Keys /\ c.id \in Nat
    BY <1>1, <1>2, <1>4, CommandFields DEF Post
  <2>2. to \in Keys
    BY <2>1, KeyTypes DEF WireTarget, Types
  <2>3. Reached(to) \subseteq Nicks
    BY <2>2 DEF Reached, Keys
  <2> HIDE DEF to
  <2>4. \A k \in Keys : /\ [cmd |-> "ECHO", nick |-> k, id |-> c.id] \in Lines
                        /\ [cmd |-> "ECHO", nick |-> k, id |-> c.id].cmd = "ECHO"
                        /\ [cmd |-> "ECHO", nick |-> k, id |-> c.id].id = c.id
    BY <2>1 DEF Lines, Letters
  <2>5. \/ /\ \E n \in Reached(to) :
                 wire' = Append(wire, [cmd |-> "ECHO", nick |-> n, id |-> c.id])
           /\ refused' = refused
        \/ /\ wire' = IF to \in Dids
                      THEN Append(wire, [cmd |-> "ECHO", nick |-> to, id |-> c.id])
                      ELSE wire
           /\ refused' = refused \cup {c.id}
    BY <1>4 DEF Execute, to
  <2>6. CASE /\ \E n \in Reached(to) :
                 wire' = Append(wire, [cmd |-> "ECHO", nick |-> n, id |-> c.id])
             /\ refused' = refused
    <3>1. PICK n \in Reached(to) :
             wire' = Append(wire, [cmd |-> "ECHO", nick |-> n, id |-> c.id])
      BY <2>6
    <3>2. n \in Keys
      BY <2>3 DEF Keys
    <3> QED BY <1>1, <2>1, <2>4, <2>6, <3>1, <3>2
  <2>7. CASE /\ wire' = IF to \in Dids
                        THEN Append(wire, [cmd |-> "ECHO", nick |-> to, id |-> c.id])
                        ELSE wire
             /\ refused' = refused \cup {c.id}
    <3>1. CASE to \in Dids
      BY <1>1, <2>1, <2>2, <2>4, <2>7, <3>1
    <3>2. CASE to \notin Dids
      BY <1>1, <2>1, <2>7, <3>2
    <3> QED BY <3>1, <3>2
  <2> QED BY <2>5, <2>6, <2>7
<1> QED BY <1>1, <1>3, <1>4, CommandFields

LEMMA StepExecute ==
    ASSUME IInv, Execute
    PROVE  IInv'
<1> USE DEF IInv
<1> DEFINE c == cmds[1]
           P == Post(c, Sendings)
           K == Mail(cmds, Sendings)
           K2 == Mail(cmds', Sendings)
           W == Mail(wire, Letters)
           W2 == Mail(wire', Letters)
           E == Mail(evs, Arrivals)
<1>1. /\ UNCHANGED <<addr, disp, bound, shown, rows, local, open, evs, online, owner, held, said,
                     spent, budget, seen, met, chosen>>
      /\ Ids' = Ids /\ Filing' = Filing
  BY DEF Execute, sdkVars, appVars, serverVars, Ids, Filing
<1>2. /\ cmds # <<>> /\ cmds' = Tail(cmds) /\ c \in Commands
      /\ refused \subseteq refused' /\ refused' \subseteq refused \cup P
  BY ExecuteSends
<1>3. online /\ cmds \in Seq(Commands) /\ wire \in Seq(Lines)
  BY <1>2 DEF OfflineQuiet, Types
<1>4. /\ cmds' \in Seq(Commands) /\ K = K2 \cup P
      /\ Once(cmds, Sendings) => Once(cmds', Sendings) /\ K2 \cap P = {}
  BY <1>2, <1>3, MailOut, Taken
<1>5. P \subseteq Ids /\ \A m \in P : said[m].from = Unknown
  BY <1>4 DEF MailInv, AuthorInv, From
<1> HIDE DEF P, K, K2
<1>6. /\ wire' \in Seq(Lines) /\ W \subseteq W2 /\ W2 \subseteq W \cup P
      /\ P \subseteq W2 \cup refused'
      /\ Once(wire, Letters) /\ W \cap P = {} => Once(wire', Letters)
      /\ \A i \in 1..Len(wire') :
            \/ i \in 1..Len(wire) /\ wire'[i] = wire[i]
            \/ /\ wire'[i].cmd # "PRIVMSG"
               /\ wire'[i].cmd = "ECHO" => wire'[i].id \in P
  <2>1. CASE wire' = wire /\ P \subseteq refused'
    BY <1>3, <2>1
  <2>2. ASSUME NEW l \in Lines, wire' = Append(wire, l), Post(l, Letters) \subseteq P,
               P \subseteq Post(l, Letters) \cup refused',
               l.cmd # "PRIVMSG", l.cmd = "ECHO" => l.id \in P
        PROVE  <1>6
    <3>1. /\ Mail(Append(wire, l), Letters) = W \cup Post(l, Letters)
          /\ Once(wire, Letters) /\ W \cap Post(l, Letters) = {}
                => Once(Append(wire, l), Letters)
      BY <1>3, MailIn
    <3>2. /\ Append(wire, l) \in Seq(Lines)
          /\ \A i \in 1..Len(Append(wire, l)) :
                \/ i \in 1..Len(wire) /\ Append(wire, l)[i] = wire[i]
                \/ Append(wire, l)[i] = l
      BY <1>3, Added
    <3> QED BY <2>2, <3>1, <3>2
  <2>3. ASSUME NEW l \in Lines, wire' = Append(wire, l), l \notin Letters, c \notin Sendings
        PROVE  <1>6
    <3>1. Post(l, Letters) = {} /\ P = {} /\ l.cmd \notin {"PRIVMSG", "ECHO"}
      BY <2>3, Kinds DEF Post, P
    <3> QED BY <2>2, <2>3, <3>1
  <2>4. ASSUME NEW l \in Lines, wire' = Append(wire, l), l.cmd = "ECHO", c \in Sendings,
               l.id = c.id
        PROVE  <1>6
    <3>1. Post(l, Letters) = {c.id} /\ P = {c.id}
      BY <2>4, Kinds DEF Post, P
    <3> QED BY <2>2, <2>4, <3>1
  <2> QED BY <2>1, <2>3, <2>4, ExecuteSends DEF P
<1>7. Types'
  <2>1. refused' \subseteq Ids
    BY <1>2, <1>5 DEF Types
  <2> QED BY <1>1, <1>4, <1>6, <2>1 DEF Types
<1>8. OfflineQuiet' /\ SdkNeverStale'
  BY <1>1, <1>3 DEF OfflineQuiet, SdkNeverStale
<1>9. SeenInv'
  <2>1. CASE wire' = wire
    BY <1>1, <2>1 DEF SeenInv, Fits
  <2>2. ASSUME NEW l \in Lines, wire' = Append(wire, l), Timely(l)
        PROVE  SeenInv'
    BY <1>1, <1>3, <2>2, Telling
  <2>3. ASSUME NEW l \in Lines, l.cmd = "ECHO"
        PROVE  Timely(l)
    BY <1>1, <2>3 DEF Timely, Shows, Fits
  <2> QED BY <2>1, <2>2, <2>3, ExecuteSends
<1> HIDE DEF W, W2, E
<1>10. MailInv'
  <2>1. K2 \cup W2 \cup E \subseteq Ids
    BY <1>4, <1>5, <1>6 DEF MailInv, K, W, E
  <2>2. ASSUME spent.drops = 0
        PROVE  /\ Once(cmds', Sendings) /\ Once(wire', Letters)
               /\ K2 \cap W2 = {} /\ K2 \cap E = {} /\ W2 \cap E = {}
               /\ Filing \cap (K2 \cup W2 \cup E) = {}
               /\ Ids \subseteq K2 \cup W2 \cup E \cup Filing \cup refused'
    <3>1. /\ Once(cmds, Sendings) /\ Once(wire, Letters)
          /\ K \cap W = {} /\ K \cap E = {} /\ W \cap E = {}
          /\ Filing \cap (K \cup W \cup E) = {}
          /\ Ids \subseteq K \cup W \cup E \cup Filing \cup refused
      BY <2>2 DEF MailInv, K, W, E
    <3>2. Once(cmds', Sendings) /\ K2 \cap P = {} /\ Once(wire', Letters)
      BY <1>4, <1>6, <3>1
    <3> QED BY <1>2, <1>4, <1>6, <3>1, <3>2
  <2> QED BY <1>1, <2>1, <2>2 DEF MailInv, K2, W2, E
<1>11. AuthorInv'
  <2>1. \A x \in K2 \cup refused' : x \in K \cup refused \/ said'[x].from = Unknown
    BY <1>1, <1>2, <1>4, <1>5
  <2>2. \A i \in 1..Len(wire') :
           \/ i \in 1..Len(wire) /\ wire'[i] = wire[i]
           \/ /\ wire'[i].cmd = "PRIVMSG" => said'[wire'[i].id].from = wire'[i].who
              /\ wire'[i].cmd = "ECHO" => said'[wire'[i].id].from = Unknown
    BY <1>1, <1>5, <1>6
  <2> QED BY <1>1, <2>1, <2>2, AuthorsStay DEF K, K2
<1> QED BY <1>7, <1>8, <1>9, <1>10, <1>11

LEMMA KeyOf ==
    ASSUME Types, NEW peer \in Keys
    PROVE  BufferKey(peer) \in Keys
BY KeyTypes DEF BufferKey, Types

\* The user looks at people and threads.
LEMMA StepLook ==
    ASSUME IInv,
           \/ \E n \in Nicks : OpenProfile(n) \/ MessageNick(n)
           \/ \E k \in Keys : OpenThread(k)
    PROVE  IInv'
<1> USE DEF IInv
<1>1. /\ UNCHANGED <<addr, disp, bound, rows, local, evs, online, wire, owner, held, said, budget,
                     seen, met, refused, routes>>
      /\ Ids' = Ids
  BY DEF OpenProfile, MessageNick, OpenThread, ClickKeeps, sdkVars, appVars, serverVars,
         historyVars, Ids
<1>2. Chatter /\ spent' = [moves |-> spent'.moves, drops |-> spent'.drops, whois |-> spent'.whois]
  <2>1. ASSUME NEW n \in Nicks, OpenProfile(n) PROVE <1>2
    <3>1. spent' = [moves |-> spent.moves, drops |-> spent.drops, whois |-> spent.whois + 1]
      BY <2>1 DEF OpenProfile, Types
    <3>2. /\ spent'.drops = spent.drops
          /\ spent' = [moves |-> spent'.moves, drops |-> spent'.drops, whois |-> spent'.whois]
      BY <3>1
    <3> DEFINE c == [cmd |-> "Whois", to |-> n]
    <3>3. c \in Commands /\ c \notin Sendings
      BY DEF Commands, Sendings
    <3>4. cmds' = cmds \/ cmds' = Append(cmds, c)
      BY <2>1 DEF OpenProfile
    <3> QED BY <1>1, <3>2, <3>3, <3>4 DEF Chatter
  <2>2. CASE (\E n \in Nicks : MessageNick(n)) \/ (\E k \in Keys : OpenThread(k))
    <3>1. cmds' = cmds /\ spent' = spent
      BY <2>2 DEF MessageNick, OpenThread
    <3> QED BY <1>1, <3>1 DEF Chatter, Types
  <2> QED BY <2>1, <2>2
<1>3. /\ shown \subseteq shown' /\ shown' \subseteq Keys /\ open' \in shown' \cup {Unknown}
      /\ chosen' \in Route
  <2>1. ASSUME NEW n \in Nicks, OpenProfile(n) PROVE <1>3
    BY <2>1 DEF OpenProfile, appVars, Types
  <2>2. ASSUME NEW n \in Nicks, MessageNick(n) PROVE <1>3
    <3>1. BufferKey(n) \in Keys /\ met[n] \in Owners
      BY KeyOf DEF Keys, Types, Views
    <3> QED BY <2>2, <3>1 DEF MessageNick, Types, Route
  <2>3. ASSUME NEW k \in Keys, OpenThread(k) PROVE <1>3
    <3>1. BufferKey(k) \in Keys
      BY KeyOf DEF Types
    <3> QED BY <2>3, <3>1 DEF OpenThread, Types, NoRoute, Route, Owners
  <2> QED BY <2>1, <2>2, <2>3
<1>4. Types'
  <2>1. spent'.drops = spent.drops
    BY <1>2 DEF Chatter
  <2> QED BY <1>1, <1>2, <1>3, <2>1, ChatterKeeps DEF Types
<1>5. OfflineQuiet' /\ SdkNeverStale' /\ SeenInv'
  <2>1. ~online => cmds' = cmds
    BY DEF OpenProfile, MessageNick, OpenThread
  <2> QED BY <1>1, <2>1 DEF OfflineQuiet, SdkNeverStale, SeenInv, Fits
<1> QED BY <1>2, <1>4, <1>5, ChatterKeeps

\* The user says something.
LEMMA StepSend ==
    ASSUME IInv, Send
    PROVE  IInv'
<1> USE NamesAssumption DEF IInv
<1> DEFINE m == Len(said) + 1
           r == [from |-> Unknown, to |-> open, route |-> chosen]
           c == [cmd |-> "Privmsg", to |-> open, id |-> m]
           k == BufferKey(open)
           K == Mail(cmds, Sendings)
           K2 == Mail(cmds', Sendings)
           W == Mail(wire, Letters)
           E == Mail(evs, Arrivals)
<1>1. /\ UNCHANGED <<addr, disp, bound, rows, open, chosen, evs, online, wire, owner, held, spent,
                     budget, seen, met, routes>>
      /\ open # Unknown /\ said' = Append(said, r)
      /\ shown' = shown \cup {k} /\ local' = [local EXCEPT ![k] = @ \cup {m}]
      /\ cmds' = IF online THEN Append(cmds, c) ELSE cmds
      /\ refused' = IF online THEN refused ELSE refused \cup {m}
  BY DEF Send, sdkVars, serverVars
<1>2. open \in Keys /\ k \in Keys
  BY <1>1, KeyOf DEF Types
<1>3. r \in [from : Who \cup {Unknown}, to : Keys \cup {Unknown}, route : Route]
  BY <1>2 DEF Types
<1> HIDE DEF r, k
<1>4. /\ said' \in Seq([from : Who \cup {Unknown}, to : Keys \cup {Unknown}, route : Route])
      /\ m \in Nat /\ Ids' = Ids \cup {m} /\ m \notin Ids /\ said'[m] = r
      /\ \A x \in Ids : said'[x] = said[x]
  BY <1>1, <1>3, Saying
<1> HIDE DEF m
<1>5. c \in Sendings /\ c \in Commands /\ c.id = m /\ cmds \in Seq(Commands)
  BY <1>2, <1>4 DEF Sendings, Commands, Types
<1> HIDE DEF c
<1>6. /\ cmds' \in Seq(Commands) /\ K \subseteq K2 /\ K2 \subseteq K \cup {m}
      /\ m \in K2 \cup refused' /\ (m \in refused' => K2 = K \/ m \in refused)
      /\ Once(cmds, Sendings) /\ m \notin K => Once(cmds', Sendings)
  <2>1. CASE online
    <3>1. /\ Mail(Append(cmds, c), Sendings) = K \cup Post(c, Sendings)
          /\ Once(cmds, Sendings) /\ K \cap Post(c, Sendings) = {}
                => Once(Append(cmds, c), Sendings)
      BY <1>5, MailIn
    <3>2. Post(c, Sendings) = {m}
      BY <1>5 DEF Post
    <3>3. Append(cmds, c) \in Seq(Commands)
      BY <1>5, Added
    <3> HIDE DEF K, K2
    <3>4. K2 = K \cup {m} /\ (Once(cmds, Sendings) /\ m \notin K => Once(cmds', Sendings))
      BY <1>1, <2>1, <3>1, <3>2 DEF K2
    <3> QED BY <1>1, <2>1, <3>3, <3>4
  <2>2. CASE ~online
    BY <1>1, <1>5, <2>2
  <2> QED BY <2>1, <2>2
<1>7. /\ local' \in [Keys -> SUBSET Ids'] /\ rows' \in [Keys -> SUBSET Ids']
      /\ \A j \in Keys \ shown' : rows'[j] = {} /\ local'[j] = {}
      /\ shown' \subseteq Keys /\ refused' \subseteq Ids'
  BY <1>1, <1>2, <1>4 DEF Types
<1>8. Types'
  BY <1>1, <1>4, <1>6, <1>7 DEF Types
<1>9. OfflineQuiet' /\ SdkNeverStale' /\ SeenInv'
  BY <1>1 DEF OfflineQuiet, SdkNeverStale, SeenInv, Fits
<1>10. Filing' = Filing /\ Filing \subseteq Ids
  BY <1>1 DEF Filing, Types
<1> HIDE DEF K, K2, W, E
<1>11. MailInv'
  <2>1. K2 \cup W \cup E \subseteq Ids'
    BY <1>4, <1>6 DEF MailInv, K, W, E
  <2>2. ASSUME spent.drops = 0
        PROVE  /\ Once(cmds', Sendings)
               /\ K2 \cap W = {} /\ K2 \cap E = {}
               /\ Filing \cap (K2 \cup W \cup E) = {}
               /\ Ids' \subseteq K2 \cup W \cup E \cup Filing \cup refused'
    <3>1. /\ Once(cmds, Sendings)
          /\ K \cap W = {} /\ K \cap E = {} /\ K \cup W \cup E \subseteq Ids
          /\ Filing \cap (K \cup W \cup E) = {}
          /\ Ids \subseteq K \cup W \cup E \cup Filing \cup refused
      BY <2>2 DEF MailInv, K, W, E
    <3> QED BY <1>1, <1>4, <1>6, <1>10, <3>1
  <2> QED BY <1>1, <1>10, <2>1, <2>2 DEF MailInv, K2, W, E
<1>12. AuthorInv'
  <2>1. \A x \in K2 \cup refused' : x \in K \cup refused \/ said'[x].from = Unknown
    <3>1. said'[m].from = Unknown
      BY <1>4 DEF r
    <3>2. \A x \in K2 \cup refused' : x \in K \cup refused \/ x = m
      BY <1>1, <1>6
    <3> QED BY <3>1, <3>2
  <2> QED BY <1>1, <1>4, <2>1, AuthorsStay DEF K, K2
<1> QED BY <1>8, <1>9, <1>11, <1>12

\* A session is lost, with all that travelled.
LEMMA StepDrop ==
    ASSUME IInv, Drop
    PROVE  IInv'
<1> USE DEF IInv
<1>1. /\ UNCHANGED <<bound, shown, rows, local, open, owner, held, said, budget, seen, met, chosen,
                     refused, routes>>
      /\ Ids' = Ids /\ online' = FALSE /\ wire' = <<>> /\ evs' = <<>> /\ cmds' = <<>>
      /\ addr' = [n \in Nicks |-> Unknown] /\ disp' = [d \in Dids |-> Unknown]
      /\ spent' = [spent EXCEPT !.drops = @ + 1]
  BY DEF Drop, appVars, serverVars, historyVars, Ids
<1>2. /\ spent'.drops \in Nat /\ spent'.drops # 0
      /\ spent' = [moves |-> spent'.moves, drops |-> spent'.drops, whois |-> spent'.whois]
  <2>1. spent' = [moves |-> spent.moves, drops |-> spent.drops + 1, whois |-> spent.whois]
    BY <1>1 DEF Types
  <2> QED BY <2>1 DEF Types
<1>3. Types'
  <2>1. /\ addr' \in [Nicks -> Dids \cup {Unknown}] /\ disp' \in [Dids -> Nicks \cup {Unknown}]
        /\ wire' \in Seq(Lines) /\ evs' \in Seq(Events) /\ cmds' \in Seq(Commands)
    BY <1>1
  <2> QED BY <1>1, <1>2, <2>1 DEF Types
<1>4. OfflineQuiet' /\ SeenInv' /\ SdkNeverStale'
  BY <1>1 DEF OfflineQuiet, SeenInv, SdkNeverStale
<1>5. MailInv'
  BY <1>1, <1>2, NoMail DEF MailInv
<1>6. AuthorInv'
  <2>1. Len(<<>>) = 0 /\ 1..0 = {}
    OBVIOUS
  <2> QED BY <1>1, <2>1, NoMail DEF AuthorInv, From
<1> QED BY <1>3, <1>4, <1>5, <1>6

\* The next session begins with the list of earlier conversations.
LEMMA StepConnect ==
    ASSUME IInv, Connect
    PROVE  IInv'
<1> USE DEF IInv
<1>1. /\ UNCHANGED <<addr, disp, bound, shown, rows, local, open, cmds, evs, owner, said, spent,
                     budget, chosen, refused, routes>>
      /\ Ids' = Ids /\ online' = TRUE /\ met' = seen'
      /\ seen' = [n \in Nicks |-> IF owner[n] = Nobody THEN Nobody ELSE Unknown]
      /\ addr = [n \in Nicks |-> Unknown] /\ wire = <<>> /\ evs = <<>> /\ cmds = <<>>
  BY DEF Connect, OfflineQuiet, sdkVars, appVars, historyVars, Ids
<1> DEFINE N == Cardinality(budget.past)
<1>2. N \in Nat
  BY FS_CardinalityType DEF Types
<1>3. PICK ps \in [1..N -> budget.past] :
         wire' = [i \in DOMAIN ps |-> [cmd |-> "TARGETS", nick |-> ps[i][1], who |-> ps[i][2]]]
  BY DEF Connect
<1> HIDE DEF N
<1>4. /\ wire' \in [1..N -> Lines] /\ \A i \in 1..N : wire'[i].cmd = "TARGETS"
  <2>1. \A i \in 1..N : ps[i][1] \in Nicks /\ ps[i][2] \in Dids
    BY DEF Types
  <2>2. \A n \in Nicks, d \in Dids : [cmd |-> "TARGETS", nick |-> n, who |-> d] \in Lines
    BY DEF Lines
  <2>3. \A i \in 1..N : wire'[i] = [cmd |-> "TARGETS", nick |-> ps[i][1], who |-> ps[i][2]]
    BY <1>3
  <2> QED BY <1>3, <2>1, <2>2, <2>3
<1>5. wire' \in Seq(Lines) /\ Len(wire') = N
  BY <1>2, <1>4
<1>6. Mail(wire', Letters) = {} /\ Once(wire', Letters)
  <2>1. \A i \in 1..Len(wire') : wire'[i] \notin Letters
    BY <1>4, <1>5, Kinds
  <2> QED BY <2>1 DEF Mail, Once
<1>7. seen' \in Views
  BY <1>1 DEF Views, Owners
<1>8. Types'
  BY <1>1, <1>5, <1>7 DEF Types
<1>9. SeenInv'
  <2>1. PICK v \in Views : v = seen'
    BY <1>7
  <2>2. Fits(v)'
    BY <1>1, <2>1 DEF Fits, Types
  <2>3. Replays(wire', v, v)
    <3> DEFINE h == [i \in 0..Len(wire') |-> v]
    <3>1. h \in [0..Len(wire') -> Views] /\ \A i \in 0..Len(wire') : h[i] = v
      OBVIOUS
    <3>2. \A i \in 1..Len(wire') : i \in 0..Len(wire') /\ i - 1 \in 0..Len(wire')
      BY <1>2, <1>5
    <3>3. 0 \in 0..Len(wire') /\ Len(wire') \in 0..Len(wire')
      BY <1>2, <1>5
    <3> HIDE DEF h
    <3>4. \A i \in 1..Len(wire') : Shows(h[i - 1], wire'[i], h[i])
      BY <1>4, <1>5, <3>1, <3>2 DEF Shows
    <3> QED BY <3>1, <3>3, <3>4 DEF Replays
  <2> QED BY <2>1, <2>2, <2>3 DEF SeenInv
<1>10. OfflineQuiet' /\ SdkNeverStale'
  BY <1>1 DEF OfflineQuiet, SdkNeverStale
<1>11. MailInv'
  <2>1. Mail(wire, Letters) = {}
    BY <1>1, NoMail
  <2>2. Filing' = Filing
    BY <1>1 DEF Filing
  <2> QED BY <1>1, <1>6, <2>1, <2>2 DEF MailInv
<1>12. AuthorInv'
  <2>1. \A i \in 1..Len(wire') : wire'[i].cmd \notin {"PRIVMSG", "ECHO"}
    BY <1>4, <1>5
  <2> QED BY <1>1, <2>1, AuthorsStay
<1> QED BY <1>8, <1>9, <1>10, <1>11, <1>12

---------------------------------------------------------------------------
(* The theorems                                                            *)

LEMMA InitInv == Init => IInv
<1> SUFFICES ASSUME Init PROVE IInv
  OBVIOUS
<1> USE NamesAssumption, BudgetsAssumption DEF Init
<1>1. Len(<<>>) = 0 /\ 1..0 = {}
  OBVIOUS
<1>2. Ids = {}
  BY <1>1 DEF Ids
<1>3. budget.past \subseteq Nicks \X Dids /\ IsFiniteSet(budget.past)
  OBVIOUS
<1>4. Types
  <2>1. /\ addr \in [Nicks -> Dids \cup {Unknown}] /\ disp \in [Dids -> Nicks \cup {Unknown}]
        /\ bound \in [Nicks -> Dids \cup {Unknown}] /\ owner \in [Nicks -> Who \cup {Nobody}]
        /\ seen \in Views /\ met \in Views
    BY DEF Views, Owners
  <2>2. /\ rows \in [Keys -> SUBSET Ids] /\ local \in [Keys -> SUBSET Ids]
        /\ \A k \in Keys : rows[k] = {} /\ local[k] = {}
    OBVIOUS
  <2>3. /\ wire \in Seq(Lines) /\ evs \in Seq(Events) /\ cmds \in Seq(Commands)
        /\ said \in Seq([from : Who \cup {Unknown}, to : Keys \cup {Unknown}, route : Route])
    OBVIOUS
  <2>4. /\ spent.drops \in Nat
        /\ spent = [moves |-> spent.moves, drops |-> spent.drops, whois |-> spent.whois]
    OBVIOUS
  <2>5. chosen \in Route
    BY DEF Route, NoRoute, Owners
  <2> QED BY <1>3, <2>1, <2>2, <2>3, <2>4, <2>5 DEF Types
<1>5. OfflineQuiet /\ SeenInv /\ SdkNeverStale
  BY DEF OfflineQuiet, SeenInv, SdkNeverStale
<1>6. MailInv
  BY <1>2, NoMail DEF MailInv, Filing
<1>7. AuthorInv
  BY <1>1, NoMail DEF AuthorInv
<1> QED BY <1>4, <1>5, <1>6, <1>7 DEF IInv

LEMMA StepInv == IInv /\ [Next]_vars => IInv'
<1> SUFFICES ASSUME IInv, [Next]_vars PROVE IInv'
  OBVIOUS
<1>1. CASE Read
  BY <1>1, StepRead
<1>2. CASE Handle
  BY <1>2, StepHandle
<1>3. CASE Execute
  BY <1>3, StepExecute
<1>4. CASE User
  BY <1>4, StepLook, StepSend DEF User
<1>5. CASE Outside
  <2>1. Guest \in Who
    BY DEF Who
  <2> QED BY <1>5, <2>1, StepMove, StepWhisper, StepDrop, StepConnect DEF Outside
<1>6. CASE UNCHANGED vars
  <2>1. /\ UNCHANGED <<addr, disp, bound, shown, rows, local, open, cmds, evs, online, wire, owner,
                       said, spent, budget, seen, met, chosen, refused>>
        /\ Ids' = Ids
    BY <1>6 DEF vars, sdkVars, appVars, netVars, serverVars, historyVars, Ids
  <2>2. Types'
    BY <2>1 DEF IInv, Types
  <2>3. OfflineQuiet' /\ SeenInv' /\ SdkNeverStale'
    BY <2>1 DEF IInv, OfflineQuiet, SeenInv, Fits, SdkNeverStale
  <2>4. MailInv' /\ AuthorInv'
    BY <2>1 DEF IInv, MailInv, Filing, AuthorInv, From
  <2> QED BY <2>2, <2>3, <2>4 DEF IInv
<1> QED BY <1>1, <1>2, <1>3, <1>4, <1>5, <1>6 DEF Next

LEMMA Inductive == Spec => []IInv
BY InitInv, StepInv, PTL DEF Spec

\* Every thread, map and queue holds what its type says: rows and optimistic rows
\* are of messages that were said, a thread without a buffer has none, and the
\* thread on the screen has a buffer.
THEOREM TypeCorrect == Spec => []TypeOK
<1>1. IInv => TypeOK
  <2> SUFFICES ASSUME IInv PROVE TypeOK
    OBVIOUS
  <2>1. /\ \A i \in 1..Len(wire) : wire[i] \in Lines
        /\ \A i \in 1..Len(evs) : evs[i] \in Events
        /\ \A i \in 1..Len(cmds) : cmds[i] \in Commands
    BY Elements DEF IInv, Types
  <2>2. LinesOK
    BY <2>1, LineFields, EventFields, CommandFields DEF LinesOK
  <2> QED BY <2>2 DEF IInv, Types, TypeOK
<1> QED BY <1>1, Inductive, PTL

\* The SDK's addressing map never points past the lines it has read, whatever
\* lines are still on their way: learn, forget_nick and rename keep pace with who
\* has a nick (client.rs:263-266).
THEOREM SdkAddressesCorrect == Spec => []SdkNeverStale
<1>1. IInv => SdkNeverStale
  BY DEF IInv
<1> QED BY <1>1, Inductive, PTL

\* What an account says is filed in its own thread and nowhere else, in every
\* behaviour without a lost session, however nicks change hands and threads are
\* merged meanwhile.
THEOREM PeersThreadsCorrect == Spec => []PeersOwnThread
<1>1. IInv => PeersOwnThread
  <2> SUFFICES ASSUME IInv, spent.drops = 0, NEW m \in Ids, said[m].from \in Dids, ~Waiting(m)
               PROVE  {k \in Keys : m \in rows[k]} = {said[m].from}
    BY DEF PeersOwnThread
  <2> USE NamesAssumption DEF IInv
  <2>1. said[m].from # Unknown /\ said[m].from \in Keys
    BY DEF Keys
  <2>2. m \notin Mail(cmds, Sendings) \cup refused
    BY <2>1 DEF AuthorInv, From
  <2>3. m \notin Mail(wire, Letters) /\ m \notin Mail(evs, Arrivals)
    <3>1. /\ \A i \in 1..Len(wire) : wire[i] \in Lines
          /\ \A i \in 1..Len(evs) : evs[i] \in Events
      BY Elements DEF Types
    <3> QED BY <3>1, Kinds DEF Waiting, Mail
  <2>4. m \in Filing
    BY <2>2, <2>3 DEF MailInv
  <2>5. \A k \in Keys : m \in rows[k] => k = said[m].from
    BY DEF AuthorInv, From
  <2> QED BY <2>1, <2>4, <2>5 DEF Filing
<1> QED BY <1>1, Inductive, PTL

\* In every behaviour without a lost session, when nothing is on its way, every
\* message that was not refused is in exactly one of the threads that are shown:
\* merging and re-keying threads neither loses a row nor copies one.
THEOREM OneThread == Spec => []InOneThread
<1>1. IInv => InOneThread
  <2> SUFFICES ASSUME IInv, spent.drops = 0, AtRest, NEW m \in Ids \ refused
               PROVE  Cardinality({k \in shown : m \in rows[k]}) = 1
    BY DEF InOneThread
  <2> USE DEF IInv
  <2>1. Mail(cmds, Sendings) = {} /\ Mail(wire, Letters) = {} /\ Mail(evs, Arrivals) = {}
    BY NoMail DEF AtRest
  <2>2. m \in Filing
    BY <2>1 DEF MailInv
  <2>3. PICK k \in Keys : m \in rows[k]
    BY <2>2 DEF Filing
  <2>4. k \in shown
    BY <2>3 DEF Types
  <2>5. \A j \in Keys : m \in rows[j] => j = k
    BY <2>3 DEF MailInv
  <2>6. {j \in shown : m \in rows[j]} = {k}
    BY <2>3, <2>4, <2>5 DEF Types
  <2> QED BY <2>6, FS_Singleton
<1> QED BY <1>1, Inductive, PTL

---------------------------------------------------------------------------
(* Where the copy of a message meets its optimistic row                    *)

\* The negation of Ambiguous, without cardinalities
Certain(p) ==
    /\ \A n \in Nicks : p = n \/ p \in held[n] => \A x, y \in held[n] \cap Who : x = y
    /\ \A n \in Nicks \ {p} :
          p \in Nicks /\ Nobody \in held[p] => held[n] \cap held[p] \cap Who = {}
    /\ \A n, o \in Nicks : n # o /\ p \in Dids /\ Unknown \in held[n] /\ p \in held[n]
                              => p \notin held[o]

\* Somebody whom a session found under a nick, and who need not be known by it
Blurred(w) == \E n \in Nicks : w \in held[n] /\ Unknown \in held[n]

\* The copy of the message will come, and it is certain which thread it comes to.
Expected(m) == m \notin refused /\ Certain(said[m].to)

\* The copy of a message is from the nick that it was for, or from one that its
\* addressee has when it is read, known by it or found under it by the session.
Answers(p, n, v) ==
    /\ n \in Nicks
    /\ p \in Nicks => n = p
    /\ p \in Dids => p \in held[n] /\ (v[n] = p \/ (v[n] = Unknown /\ Unknown \in held[n]))

\* A line that ends a nick tells what is on record.  The conversations of earlier
\* days come before anybody is known by a line.
Heard(l, v) ==
    /\ l.cmd \in {"QUIT", "NICK"} => Nobody \in held[l.nick]
    /\ l.cmd = "TARGETS" => /\ l.who \in held[l.nick] /\ Nobody \in held[l.nick]
                            /\ \A n \in Nicks : v[n] \notin Dids
    /\ l.cmd = "ECHO" /\ Expected(l.id) => Answers(said[l.id].to, l.nick, v)

\* An event binds a nick to somebody who had it; the copy of a message goes to
\* its peer's thread, or to that of the account that had the peer's nick.
Lands(p, n, k) ==
    /\ p \in Dids => k = p
    /\ p \in Nicks => n = p /\ IF k \in Dids THEN k \in held[p] ELSE k = p
Rings(e) ==
    /\ e.ev \in {"MemberDid", "ChatHistoryTarget"} => e.did \in held[e.nick]
    /\ e.ev = "Joined" /\ e.who \in Dids => e.who \in held[e.nick]
    /\ e.ev = "Message" /\ ~e.mine => said[e.id].from \in Who
    /\ e.ev = "Message" /\ e.mine /\ e.nick \in Nicks /\ e.key \in Dids => e.key \in held[e.nick]
    /\ e.ev = "Message" /\ e.mine /\ Expected(e.id) => Lands(said[e.id].to, e.nick, e.key)

\* What is known of the nicks while the lines are read; an account has one nick.
Within(v)  == \A n \in Nicks : v[n] \in Who => v[n] \in held[n]
Single(v)  == \A n, o \in Nicks : v[n] \in Dids /\ v[n] = v[o] => n = o
Fitting(v) == \A n \in Nicks :
                 \/ v[n] = owner[n]
                 \/ v[n] = Unknown /\ owner[n] # Nobody /\ Blurred(owner[n])
Tale(h) ==
    /\ h[0] = seen
    /\ \A i \in 1..Len(wire) : Shows(h[i - 1], wire[i], h[i]) /\ Heard(wire[i], h[i])
    /\ \A i \in 0..Len(wire) : Within(h[i]) /\ Single(h[i])
    /\ Fitting(h[Len(wire)])
TaleInv == online => \E h \in [0..Len(wire) -> Views] : Tale(h)

\* Who has had a nick has it still, or it is on record that it was given up.
HeldInv ==
    /\ held \in [Nicks -> SUBSET (Who \cup {Unknown, Nobody})]
    /\ \A n \in Nicks : IsFiniteSet(held[n]) /\ (owner[n] # Nobody => owner[n] \in held[n])
    /\ \A n \in Nicks : \A w \in held[n] \cap Who : w = owner[n] \/ Nobody \in held[n]
    /\ \A p \in budget.past : p[2] \in held[p[1]] /\ Nobody \in held[p[1]]
    /\ Single(owner)

\* No map binds a nick to somebody who never had it, and who is known to have a
\* nick is addressed by it.
KnownInv ==
    /\ \A d \in Dids : disp[d] # Unknown => d \in held[disp[d]]
    /\ \A n \in Nicks : online /\ seen[n] \in Dids => addr[n] = seen[n]
MapsInv ==
    /\ KnownInv
    /\ \A n \in Nicks : bound[n] # Unknown => bound[n] \in held[n]

\* The threads an event makes for accounts, and the nicks it binds
Told(e) == {d \in Dids : \/ e.ev \in {"MemberDid", "ChatHistoryTarget"} /\ e.did = d
                         \/ e.ev = "Joined" /\ e.who = d
                         \/ e.ev = "Message" /\ e.key = d}
Binds(e, n, d) == e.nick = n /\ d \in Told(e) /\ (e.ev = "Message" => e.mine)

\* The account has a name; and it is this one, where it is certain whose it is.
Known(d)     == disp[d] # Unknown
Dubbed(n, d) == Certain(n) => disp[d] = n

\* The app binds no nick that the SDK has not named, and the copy of a message
\* is filed by the nick only while nothing binds the nick.
Marked(e) ==
    /\ \A d \in Told(e) : Known(d)
    /\ \A n \in Nicks, d \in Dids : Binds(e, n, d) => Dubbed(n, d)
Bare(e) == e.ev = "Message" /\ e.mine /\ e.key = e.nick /\ e.nick \in Nicks /\ Certain(e.nick)
Orderly(q) ==
    /\ \A i \in 1..Len(q) : Marked(q[i])
    /\ \A i \in 1..Len(q) : Bare(q[i]) =>
          /\ bound[q[i].nick] = Unknown
          /\ \A j \in 1..Len(q) : j < i => \A d \in Dids : ~Binds(q[j], q[i].nick, d)
Copied(q) == \A i \in 1..Len(q) : q[i].cmd = "ECHO" /\ q[i].nick \in Dids => Known(q[i].nick)
NamesInv ==
    /\ \A d \in Dids : Known(d) => online /\ (seen[disp[d]] = d \/ Nobody \in held[disp[d]])
    /\ \A n \in Nicks, d \in Dids : addr[n] = d \/ bound[n] = d => Known(d) /\ Dubbed(n, d)
    /\ \A d \in Dids : d \in shown \/ (\E m \in Ids : said[m].to = d) => Known(d)
    /\ Orderly(evs) /\ Copied(wire)

\* An optimistic row is in the thread that the app has for its peer, and the copy
\* has not come.
KeyBy(b, p) == Resolved(p, IF p \in Nicks THEN b[p] ELSE Unknown)
Homely(m, k) ==
    /\ said[m].from = Unknown /\ said[m].to \in Keys
    /\ Expected(m) => k = KeyBy(bound, said[m].to) /\ m \notin Filing
LocalInv == \A k \in Keys : \A m \in local[k] : Homely(m, k)

CmdsInv == \A i \in 1..Len(cmds) : cmds[i].cmd = "Privmsg" => said[cmds[i].id].to = cmds[i].to
RingInv == \A i \in 1..Len(evs) : Rings(evs[i])

\* In every state before a session is lost
MeetInv == HeldInv /\ MapsInv /\ NamesInv /\ LocalInv /\ CmdsInv /\ RingInv /\ TaleInv

\* What is never taken back
Grows ==
    /\ \A n \in Nicks : held[n] \subseteq held'[n]
    /\ refused \subseteq refused'
    /\ \A m \in Ids : said'[m] = said[m]

LEMMA GrowsMore ==
    ASSUME Grows
    PROVE  /\ \A p : Certain(p)' => Certain(p)
           /\ \A w : Blurred(w) => Blurred(w)'
           /\ \A m \in Ids : Expected(m)' => Expected(m)
<1>1. ASSUME NEW p, Certain(p)' PROVE Certain(p)
  <2>1. ASSUME NEW n \in Nicks, p = n \/ p \in held[n],
               NEW x \in held[n] \cap Who, NEW y \in held[n] \cap Who
        PROVE  x = y
    BY <1>1, <2>1 DEF Grows, Certain
  <2>2. ASSUME NEW n \in Nicks \ {p}, p \in Nicks, Nobody \in held[p]
        PROVE  held[n] \cap held[p] \cap Who = {}
    <3>1. held'[n] \cap held'[p] \cap Who = {}
      BY <1>1, <2>2 DEF Certain, Grows
    <3> QED BY <2>2, <3>1 DEF Grows
  <2>3. ASSUME NEW n \in Nicks, NEW o \in Nicks, n # o, p \in Dids, Unknown \in held[n],
               p \in held[n], p \in held[o]
        PROVE  FALSE
    BY <1>1, <2>3 DEF Certain, Grows
  <2> QED BY <2>1, <2>2, <2>3 DEF Certain
<1>3. ASSUME NEW w, Blurred(w) PROVE Blurred(w)'
  BY <1>3 DEF Grows, Blurred
<1>4. ASSUME NEW m \in Ids, Expected(m)' PROVE Expected(m)
  BY <1>1, <1>4 DEF Grows, Expected
<1> QED BY <1>1, <1>3, <1>4

LEMMA HeardStill ==
    ASSUME Grows, NEW l \in Lines, l \in Letters => l.id \in Ids, NEW v, Heard(l, v)
    PROVE  Heard(l, v)'
<1>1. /\ l.cmd \in {"QUIT", "NICK"} => Nobody \in held'[l.nick]
      /\ l.cmd = "TARGETS" => /\ l.who \in held'[l.nick] /\ Nobody \in held'[l.nick]
                              /\ \A n \in Nicks : v[n] \notin Dids
  BY LineFields DEF Grows, Heard
<1>2. ASSUME l.cmd = "ECHO", Expected(l.id)' PROVE Answers(said[l.id].to, l.nick, v)'
  <2>1. l.id \in Ids
    BY <1>2, Kinds
  <2>2. PICK p : p = said[l.id].to
    OBVIOUS
  <2>3. Answers(p, l.nick, v)
    BY <1>2, <2>1, <2>2, GrowsMore DEF Heard
  <2>4. Answers(p, l.nick, v)'
    BY <2>3 DEF Answers, Grows
  <2> QED BY <2>1, <2>2, <2>4 DEF Grows, Answers
<1> QED BY <1>1, <1>2 DEF Heard

LEMMA RingsStill ==
    ASSUME Grows, NEW e \in Events, e \in Arrivals => e.id \in Ids, Rings(e)
    PROVE  Rings(e)'
<1>1. /\ e.ev \in {"MemberDid", "ChatHistoryTarget"} => e.did \in held'[e.nick]
      /\ e.ev = "Joined" /\ e.who \in Dids => e.who \in held'[e.nick]
      /\ e.ev = "Message" /\ e.mine /\ e.nick \in Nicks /\ e.key \in Dids =>
            e.key \in held'[e.nick]
  BY EventFields DEF Grows, Rings
<1>2. ASSUME e.ev = "Message", ~e.mine PROVE said'[e.id].from \in Who
  <2>1. e.id \in Ids
    BY <1>2, Kinds
  <2> QED BY <1>2, <2>1 DEF Rings, Grows
<1>3. ASSUME e.ev = "Message", e.mine, Expected(e.id)'
      PROVE  (Lands(said[e.id].to, e.nick, e.key))'
  <2>1. PICK p : p = said[e.id].to
    OBVIOUS
  <2>2. e.id \in Ids /\ said'[e.id].to = p
    BY <1>3, <2>1, Kinds DEF Grows
  <2>3. Lands(p, e.nick, e.key)
    BY <1>3, <2>1, <2>2, GrowsMore DEF Rings
  <2>4. Lands(p, e.nick, e.key)'
    BY <2>3 DEF Lands, Grows
  <2> QED BY <2>2, <2>4 DEF Lands
<1> QED BY <1>1, <1>2, <1>3 DEF Rings

LEMMA HomelyStill ==
    ASSUME Grows, UNCHANGED bound, NEW m \in Ids, NEW k, Homely(m, k),
           Expected(m) => Filing' = Filing \/ m \notin Filing'
    PROVE  Homely(m, k)'
<1>1. PICK p : p = said[m].to /\ said'[m] = said[m]
  BY DEF Grows
<1>2. Expected(m)' => Expected(m)
  BY GrowsMore
<1>3. Expected(m)' => k = KeyBy(bound, p) /\ m \notin Filing'
  BY <1>1, <1>2 DEF Homely
<1> QED BY <1>1, <1>3 DEF Homely

\* The ids of what is on its way are of messages.
LEMMA MailIds ==
    ASSUME IInv
    PROVE  /\ \A i \in 1..Len(wire) : /\ wire[i] \in Lines
                                      /\ wire[i] \in Letters => wire[i].id \in Ids
           /\ \A i \in 1..Len(evs) : /\ evs[i] \in Events
                                     /\ evs[i] \in Arrivals => evs[i].id \in Ids
           /\ \A i \in 1..Len(cmds) : /\ cmds[i] \in Commands
                                      /\ cmds[i].cmd = "Privmsg" => cmds[i].id \in Ids
<1>1. /\ \A i \in 1..Len(wire) : wire[i] \in Lines
      /\ \A i \in 1..Len(evs) : evs[i] \in Events
      /\ \A i \in 1..Len(cmds) : cmds[i] \in Commands
  BY Elements DEF IInv, Types
<1>2. \A i \in 1..Len(cmds) : cmds[i].cmd = "Privmsg" => cmds[i] \in Sendings
  BY <1>1, Kinds
<1> QED BY <1>1, <1>2 DEF IInv, MailInv, Mail

\* The parts that a step which adds to what is known leaves as they are
LEMMA PartsStay ==
    ASSUME IInv, MeetInv, Grows
    PROVE  /\ evs' = evs => RingInv'
           /\ cmds' = cmds => CmdsInv'
           /\ UNCHANGED <<wire, seen, owner, online>> => TaleInv'
           /\ UNCHANGED <<local, rows, bound>> => LocalInv'
<1> USE MailIds
<1>1. ASSUME evs' = evs PROVE RingInv'
  <2> SUFFICES ASSUME NEW i \in 1..Len(evs) PROVE Rings(evs[i])'
    BY <1>1 DEF RingInv
  <2>1. PICK e \in Events : e = evs[i] /\ (e \in Arrivals => e.id \in Ids) /\ Rings(e)
    BY DEF MeetInv, RingInv
  <2>2. Rings(e)'
    BY <2>1, RingsStill
  <2> QED BY <1>1, <2>1, <2>2
<1>2. ASSUME cmds' = cmds PROVE CmdsInv'
  BY <1>2 DEF MeetInv, CmdsInv, Grows
<1>3. ASSUME UNCHANGED <<wire, seen, owner, online>> PROVE TaleInv'
  <2> SUFFICES ASSUME online PROVE \E h \in [0..Len(wire) -> Views] : Tale(h)'
    BY <1>3 DEF TaleInv
  <2>1. PICK h \in [0..Len(wire) -> Views] : Tale(h)
    BY DEF MeetInv, TaleInv
  <2>2. ASSUME NEW i \in 1..Len(wire) PROVE Heard(wire[i], h[i])'
    <3>1. PICK l \in Lines : l = wire[i] /\ (l \in Letters => l.id \in Ids) /\ Heard(l, h[i])
      BY <2>1 DEF Tale
    <3>2. Heard(l, h[i])'
      BY <3>1, HeardStill
    <3> QED BY <1>3, <3>1, <3>2
  <2>3. ASSUME NEW i \in 0..Len(wire) PROVE Within(h[i])' /\ Single(h[i])
    BY <2>1 DEF Tale, Within, Grows
  <2>4. Fitting(h[Len(wire)])'
    <3>1. \A w : Blurred(w) => Blurred(w)'
      BY GrowsMore
    <3> QED BY <1>3, <2>1, <3>1 DEF Tale, Fitting, Blurred
  <2>5. Tale(h)'
    BY <1>3, <2>1, <2>2, <2>3, <2>4 DEF Tale, Single
  <2> QED BY <2>5
<1>4. ASSUME UNCHANGED <<local, rows, bound>> PROVE LocalInv'
  <2>1. ASSUME NEW k \in Keys, NEW m \in local[k] PROVE Homely(m, k)'
    <3>1. m \in Ids /\ Homely(m, k)
      BY DEF IInv, Types, MeetInv, LocalInv
    <3>2. Filing' = Filing
      BY <1>4 DEF Filing
    <3> QED BY <1>4, <3>1, <3>2, HomelyStill
  <2> QED BY <1>4, <2>1 DEF LocalInv
<1> QED BY <1>1, <1>2, <1>3, <1>4

\* A line that the server sends, in step with who has the nicks
LEMMA TaleTold ==
    ASSUME IInv, TaleInv, Grows, HeldInv', online, UNCHANGED <<online, seen>>,
           NEW l \in Lines, wire' = Append(wire, l),
           \A v \in Views : Fitting(v) /\ Within(v) =>
              \E v2 \in Views : /\ Shows(v, l, v2) /\ Heard(l, v2)'
                                /\ Within(v2)' /\ Fitting(v2)'
    PROVE  TaleInv'
<1> DEFINE n == Len(wire) + 1
<1>1. /\ 1..Len(wire') = 1..Len(wire) \cup {n} /\ n \notin 1..Len(wire) /\ Len(wire) \in Nat
      /\ wire'[n] = l /\ (\A i \in 1..Len(wire) : wire'[i] = wire[i]) /\ Len(wire') = n
  BY Added DEF IInv, Types
<1>2. PICK h \in [0..Len(wire) -> Views] : Tale(h)
  BY DEF TaleInv
<1>3. h[Len(wire)] \in Views /\ Fitting(h[Len(wire)]) /\ Within(h[Len(wire)])
  BY <1>1, <1>2 DEF Tale
<1>4. PICK v2 \in Views : /\ Shows(h[Len(wire)], l, v2) /\ Heard(l, v2)'
                          /\ Within(v2)' /\ Fitting(v2)'
  BY <1>3
<1>s. Single(v2)
  BY <1>4, NamesAssumption DEF Fitting, HeldInv, Single, Keys, Who
<1>n. PICK g : g = [i \in 0..n |-> IF i = n THEN v2 ELSE h[i]]
  OBVIOUS
<1>5. /\ g \in [0..n -> Views] /\ g[0] = h[0] /\ g[n] = v2
      /\ \A i \in 1..Len(wire) : i - 1 \in 0..Len(wire) /\ g[i - 1] = h[i - 1] /\ g[i] = h[i]
      /\ \A i \in 0..Len(wire) : g[i] = h[i]
      /\ n - 1 = Len(wire) /\ Len(wire) \in 0..Len(wire)
      /\ 0..n = 0..Len(wire) \cup {n}
  BY <1>1, <1>2, <1>n
<1> HIDE DEF n
<1>6. ASSUME NEW i \in 1..Len(wire')
      PROVE  Shows(g[i - 1], wire'[i], g[i]) /\ Heard(wire[i], g[i])'
  <2>1. CASE i = n
    BY <1>1, <1>4, <1>5, <2>1
  <2>2. CASE i \in 1..Len(wire)
    <3>1. PICK x \in Lines : x = wire[i] /\ (x \in Letters => x.id \in Ids) /\ Heard(x, h[i])
      BY <1>2, <2>2, MailIds DEF Tale
    <3>2. Heard(x, h[i])'
      BY <3>1, HeardStill
    <3>3. wire'[i] = x /\ g[i] = h[i] /\ g[i - 1] = h[i - 1]
      BY <1>1, <1>5, <2>2, <3>1
    <3>4. Shows(h[i - 1], x, h[i])
      BY <1>2, <2>2, <3>1 DEF Tale
    <3> QED BY <3>2, <3>3, <3>4
  <2> QED BY <1>1, <2>1, <2>2
<1>7. ASSUME NEW i \in 0..Len(wire') PROVE Within(g[i])' /\ Single(g[i])
  <2>1. CASE i = n
    BY <1>4, <1>5, <1>s, <2>1
  <2>2. CASE i \in 0..Len(wire)
    <3>1. g[i] = h[i] /\ Within(h[i]) /\ Single(h[i])
      BY <1>2, <1>5, <2>2 DEF Tale
    <3> QED BY <3>1 DEF Within, Grows
  <2> QED BY <1>1, <1>5, <2>1, <2>2
<1>8. Tale(g)'
  <2>1. g[0] = seen' /\ Fitting(g[Len(wire)])'
    BY <1>1, <1>2, <1>4, <1>5 DEF Tale
  <2> QED BY <1>6, <1>7, <2>1 DEF Tale, Single
<1> QED BY <1>1, <1>5, <1>8 DEF TaleInv

\* A line is read.
LEMMA TaleRead ==
    ASSUME IInv, TaleInv, wire # <<>>, wire' = Tail(wire), online,
           UNCHANGED <<online, held, owner, refused, said>>, NEW v \in Views,
           \A h \in [0..Len(wire) -> Views] : Tale(h) => h[1] = v,
           seen' = v
    PROVE  TaleInv'
<1> DEFINE r == Tail(wire)
<1>1. /\ Len(wire) \in Nat /\ Len(wire) >= 1 /\ Len(r) = Len(wire) - 1
      /\ \A i \in 1..Len(r) : r[i] = wire[i + 1] /\ i + 1 \in 1..Len(wire)
  BY Taken DEF IInv, Types
<1>2. PICK h \in [0..Len(wire) -> Views] : Tale(h)
  BY DEF TaleInv
<1>g. PICK g : g = [i \in 0..Len(r) |-> h[i + 1]]
  OBVIOUS
<1> HIDE DEF r
<1>3. /\ g \in [0..Len(r) -> Views] /\ g[0] = v /\ g[Len(r)] = h[Len(wire)]
      /\ \A i \in 0..Len(r) : i + 1 \in 0..Len(wire)
  <2>1. \A i \in 0..Len(r) : i + 1 \in 0..Len(wire)
    BY <1>1
  <2>2. h[1] = v
    BY <1>2
  <2> QED BY <1>1, <1>2, <1>g, <2>1, <2>2
<1>4. ASSUME NEW i \in 1..Len(r) PROVE Shows(g[i - 1], r[i], g[i]) /\ Heard(r[i], g[i])
  <2>1. Shows(h[(i + 1) - 1], wire[i + 1], h[i + 1]) /\ Heard(wire[i + 1], h[i + 1])
    BY <1>1, <1>2 DEF Tale
  <2>2. (i + 1) - 1 = i /\ (i - 1) + 1 = i /\ i - 1 \in 0..Len(r) /\ i \in 0..Len(r)
    BY <1>1
  <2>3. g[i - 1] = h[i] /\ g[i] = h[i + 1]
    BY <1>g, <2>2
  <2> QED BY <1>1, <2>1, <2>2, <2>3
<1>5. \A i \in 0..Len(r) : Within(g[i]) /\ Single(g[i])
  BY <1>2, <1>3, <1>g DEF Tale
<1>6. /\ \A l, w : Heard(l, w)' = Heard(l, w)
      /\ \A w : Within(w)' = Within(w) /\ Fitting(w)' = Fitting(w) /\ Single(w)' = Single(w)
  BY DEF Heard, Expected, Certain, Answers, Within, Fitting, Blurred, Single
<1>7. Tale(g)'
  <2>1. /\ g[0] = seen' /\ Fitting(g[Len(wire)])'
        /\ \A i \in 0..Len(wire)' : Within(g[i])' /\ Single(g[i])'
    BY <1>2, <1>3, <1>5, <1>6 DEF Tale, r
  <2>2. \A i \in 1..Len(wire)' : Shows(g[i - 1], wire'[i], g[i]) /\ Heard(wire[i], g[i])'
    BY <1>4, <1>6 DEF r
  <2> QED BY <2>1, <2>2 DEF Tale
<1> QED BY <1>3, <1>7 DEF TaleInv, r

\* The SDK learns of a nick what the line shows of it.
LEMMA ReadShows ==
    ASSUME Types, Read, NEW v, Shows(seen, wire[1], v)
    PROVE  seen' = v
<1> USE DEF Types, Line, Shows
<1>1. CASE ReadJoin
  BY <1>1 DEF ReadJoin, Saw
<1>2. CASE ReadQuit
  BY <1>2 DEF ReadQuit, Saw
<1>3. CASE ReadNick
  BY <1>3 DEF ReadNick, Saw
<1>4. CASE ReadPrivmsg
  BY <1>4 DEF ReadPrivmsg, Saw
<1>5. CASE ReadEcho
  BY <1>5 DEF ReadEcho
<1>6. CASE ReadWhois
  BY <1>6 DEF ReadWhois, Saw
<1>7. CASE ReadTargets
  BY <1>7 DEF ReadTargets
<1> QED BY <1>1, <1>2, <1>3, <1>4, <1>5, <1>6, <1>7 DEF Read

\* The events of a line that was read
LEMMA RingsMore ==
    ASSUME evs \in Seq(Events), RingInv, UNCHANGED <<held, refused, said>>,
           NEW a \in Events, Rings(a),
           \/ evs' = Append(evs, a)
           \/ \E b \in Events : Rings(b) /\ evs' = Append(Append(evs, b), a)
    PROVE  RingInv'
<1>1. \A e : Rings(e)' = Rings(e)
  BY DEF Rings, Expected, Certain, Lands
<1>2. ASSUME NEW q \in Seq(Events), \A i \in 1..Len(q) : Rings(q[i]), NEW e \in Events, Rings(e)
      PROVE  Append(q, e) \in Seq(Events) /\ \A i \in 1..Len(Append(q, e)) : Rings(Append(q, e)[i])
  BY <1>2, Added
<1>3. \A i \in 1..Len(evs') : Rings(evs'[i])
  BY <1>2 DEF RingInv
<1>4. \A i \in 1..Len(evs') : Rings(evs[i])'
  BY <1>1, <1>3
<1> QED BY <1>4 DEF RingInv

LEMMA RingsNews ==
    ASSUME evs \in Seq(Events), RingInv, UNCHANGED <<held, refused, said>>,
           NEW n \in Nicks, NEW d \in Dids, d \in held[n]
    PROVE  /\ Emit(News(n, d)) => RingInv'
           /\ \A a \in Events : Rings(a) /\ Emit(News(n, d) \o <<a>>) => RingInv'
<1>1. PICK b : b = [ev |-> "MemberDid", nick |-> n, did |-> d]
  OBVIOUS
<1>2. b \in Events /\ News(n, d) \in {<<>>, <<b>>} /\ Rings(b)
  BY <1>1, NewsOf DEF Rings
<1>3. ASSUME Emit(News(n, d)) PROVE RingInv'
  <2>1. evs' \in {evs, Append(evs, b)}
    BY <1>2, <1>3, Emitting DEF Emit
  <2>2. CASE evs' = evs
    BY <2>2 DEF RingInv, Rings, Expected, Certain, Lands
  <2> QED BY <1>2, <2>1, <2>2, RingsMore
<1>4. ASSUME NEW a \in Events, Rings(a), Emit(News(n, d) \o <<a>>) PROVE RingInv'
  <2>1. evs' \in {Append(evs, a), Append(Append(evs, b), a)}
    BY <1>2, <1>4, Emitting DEF Emit
  <2> QED BY <1>2, <1>4, <2>1, RingsMore
<1> QED BY <1>3, <1>4

LEMMA LearnKnown ==
    ASSUME Types, HeldInv, KnownInv, UNCHANGED <<online, held>>, online,
           NEW n \in Nicks, NEW w \in Who, Saw(n, w), w \in held[n],
           \/ w \in Dids /\ Learn(n, w)
           \/ w = Guest /\ UNCHANGED sdkVars
    PROVE  KnownInv'
<1> USE NamesAssumption DEF Types, Keys, Who
<1>1. seen'[n] = w /\ \A o \in Nicks \ {n} : seen'[o] = seen[o]
  BY DEF Saw, Views
<1>2. CASE w \in Dids /\ Learn(n, w)
  <2>1. /\ addr'[n] = w /\ \A o \in Nicks \ {n} : addr'[o] = addr[o]
    BY <1>2, LearnTypes
  <2>2. \A d \in Dids : disp'[d] = IF d = w THEN n ELSE disp[d]
    BY <1>2 DEF Learn
  <2> QED BY <1>1, <2>1, <2>2 DEF KnownInv
<1>3. CASE w = Guest /\ UNCHANGED sdkVars
  <2>1. addr' = addr /\ disp' = disp /\ seen'[n] \notin Dids
    BY <1>1, <1>3 DEF sdkVars
  <2> QED BY <1>1, <2>1 DEF KnownInv
<1> QED BY <1>2, <1>3

\* An account that is seen under a nick which nobody gave up is seen there still.
LEMMA ViewStays ==
    ASSUME NEW l \in Lines, NEW u \in Views, NEW v \in Views, Shows(u, l, v), Heard(l, v),
           NEW n \in Nicks, NEW d \in Dids, u[n] = d, Nobody \notin held[n]
    PROVE  v[n] = d
<1> USE NamesAssumption, LineFields DEF Views
<1>1. d # Nobody /\ d # Unknown
  BY DEF Keys
<1>2. CASE l.cmd = "JOIN"
  <2>1. n # l.nick
    BY <1>1, <1>2 DEF Shows
  <2> QED BY <1>2, <2>1 DEF Shows
<1>3. CASE l.cmd = "QUIT"
  <2>1. n # l.nick
    BY <1>3 DEF Heard
  <2> QED BY <1>3, <2>1 DEF Shows
<1>4. CASE l.cmd = "NICK"
  <2>1. n # l.nick /\ n # l.new
    BY <1>1, <1>4 DEF Heard, Shows
  <2> QED BY <1>4, <2>1 DEF Shows
<1>5. CASE l.cmd \in {"PRIVMSG", "330"}
  BY <1>1, <1>5 DEF Shows
<1>6. CASE l.cmd \in {"ECHO", "TARGETS"}
  BY <1>6 DEF Shows
<1> QED BY <1>2, <1>3, <1>4, <1>5, <1>6 DEF Shows

\* An event that a read line adds, and how a line names an account
Novel(a) ==
    /\ \A d \in Told(a) : disp'[d] # Unknown
    /\ \A n \in Nicks, d \in Dids : Binds(a, n, d) => disp'[d] = n \/ addr[n] = d
    /\ Bare(a) => disp' = disp /\ \A d \in Dids : disp[d] # a.nick
Naming(x, w) ==
    /\ disp' = [disp EXCEPT ![w] = x] /\ w \in held[x]
    /\ \/ seen'[x] = w
       \/ Nobody \in held[x] /\ seen' = seen /\ \A n \in Nicks : seen[n] \notin Dids

LEMMA NewsNovel ==
    ASSUME Types, NEW n \in Nicks, NEW d \in Dids, disp' = [disp EXCEPT ![d] = n],
           NEW b, b = [ev |-> "MemberDid", nick |-> n, did |-> d]
    PROVE  b \in Events /\ Novel(b)
<1> USE NamesAssumption DEF Keys
<1>1. disp'[d] = n /\ n # Unknown
  BY DEF Types
<1>2. b \in Events /\ Told(b) = {d} /\ b.nick = n /\ b.ev = "MemberDid"
  BY DEF Events, Told
<1> QED BY <1>1, <1>2 DEF Novel, Binds, Bare

\* The events that a read line adds
Tidings ==
    \/ evs' = evs
    \/ \E a \in Events : Novel(a) /\ evs' = Append(evs, a)
    \/ \E a, b \in Events : Novel(a) /\ ~Bare(a) /\ Novel(b) /\ evs' = Append(Append(evs, b), a)

LEMMA LearnTidings ==
    ASSUME Types, NEW n \in Nicks, NEW d \in Dids, Learn(n, d)
    PROVE  /\ Emit(News(n, d)) => Tidings
           /\ \A a \in Events : Novel(a) /\ ~Bare(a) /\ Emit(News(n, d) \o <<a>>) => Tidings
<1>1. PICK b : b = [ev |-> "MemberDid", nick |-> n, did |-> d]
  OBVIOUS
<1>2. b \in Events /\ Novel(b) /\ News(n, d) \in {<<>>, <<b>>} /\ evs \in Seq(Events)
  BY <1>1, NewsNovel, NewsOf DEF Learn, Types
<1>3. ASSUME Emit(News(n, d)) PROVE Tidings
  <2>1. evs' \in {evs, Append(evs, b)}
    BY <1>2, <1>3, Emitting DEF Emit
  <2> QED BY <1>2, <2>1 DEF Tidings
<1>4. ASSUME NEW a \in Events, Novel(a), ~Bare(a), Emit(News(n, d) \o <<a>>) PROVE Tidings
  <2>1. evs' \in {Append(evs, a), Append(Append(evs, b), a)}
    BY <1>2, <1>4, Emitting DEF Emit
  <2> QED BY <1>2, <1>4, <2>1 DEF Tidings
<1> QED BY <1>3, <1>4

\* What a read line names
LEMMA ReadNaming ==
    ASSUME IInv, MeetInv, Read, NEW l \in Lines, l = wire[1], 1 \in 1..Len(wire),
           NEW v \in Views, v = seen', Shows(seen, l, v), Heard(l, v), Within(v)
    PROVE  /\ disp' = disp \/ \E x \in Nicks, w \in Dids : Naming(x, w)
           /\ \A n \in Nicks, d \in Dids : addr'[n] = d => addr[n] = d \/ disp'[d] = n
           /\ Tidings
<1> USE LineFields, NamesAssumption
<1>1. /\ addr \in [Nicks -> Dids \cup {Unknown}] /\ disp \in [Dids -> Nicks \cup {Unknown}]
      /\ seen \in Views /\ evs \in Seq(Events) /\ Types /\ NamesInv
  BY DEF IInv, Types, MeetInv
<1>2. ASSUME NEW a \in Events, Novel(a), Emit(<<a>>) PROVE Tidings
  BY <1>1, <1>2, Emitting DEF Emit, Tidings
<1>3. ASSUME NEW n \in Nicks, NEW w \in Dids, Learn(n, w), v[n] = w
      PROVE  /\ Naming(n, w) /\ disp'[w] = n /\ n # Unknown
             /\ \A x \in Nicks, d \in Dids : addr'[x] = d => addr[x] = d \/ disp'[d] = x
  <2>1. w \in held[n]
    BY <1>3 DEF Within, Who
  <2> QED BY <1>1, <1>3, <2>1 DEF Naming, Learn, Keys
<1>4. CASE ReadJoin
  <2>1. /\ l.cmd = "JOIN" /\ l.nick \in Nicks /\ l.who \in Who /\ v[l.nick] = l.who
    BY <1>1, <1>4 DEF ReadJoin, Line, Saw, Views
  <2>2. PICK a : a = [ev |-> "Joined", nick |-> l.nick, who |-> l.who]
    OBVIOUS
  <2>3. /\ a \in Events /\ ~Bare(a) /\ Told(a) = {l.who} \cap Dids
        /\ \A n, d : Binds(a, n, d) => n = l.nick /\ d = l.who
    BY <2>1, <2>2 DEF Events, Bare, Told, Binds
  <2>4. CASE l.who \in Dids /\ Learn(l.nick, l.who) /\ Emit(News(l.nick, l.who) \o <<a>>)
    <3>1. Novel(a)
      BY <1>3, <2>1, <2>3, <2>4 DEF Novel
    <3> QED BY <1>1, <1>3, <2>1, <2>3, <2>4, <3>1, LearnTidings
  <2>5. CASE l.who = Guest /\ UNCHANGED sdkVars /\ Emit(<<a>>)
    <3>1. Told(a) = {}
      BY <2>3, <2>5 DEF Keys
    <3>2. Novel(a) /\ UNCHANGED <<addr, disp>>
      BY <2>3, <2>5, <3>1 DEF Novel, sdkVars, Binds
    <3> QED BY <1>2, <2>3, <2>5, <3>2
  <2> QED BY <1>4, <2>2, <2>4, <2>5 DEF ReadJoin
<1>5. CASE ReadQuit
  <2>1. /\ l.nick \in Nicks /\ addr' = [addr EXCEPT ![l.nick] = Unknown] /\ disp' = disp
        /\ Emit(<<[ev |-> "UserQuit", nick |-> l.nick]>>)
    BY <1>5 DEF ReadQuit, Line, Forget
  <2>2. PICK a : a = [ev |-> "UserQuit", nick |-> l.nick]
    OBVIOUS
  <2>3. a \in Events /\ Told(a) = {} /\ ~Bare(a)
    BY <2>1, <2>2 DEF Events, Told, Bare
  <2>4. Novel(a)
    BY <2>3 DEF Novel, Binds
  <2>5. \A n \in Nicks, d \in Dids : addr'[n] = d => addr[n] = d
    BY <1>1, <2>1 DEF Keys
  <2> QED BY <1>2, <2>1, <2>2, <2>3, <2>4, <2>5
<1>6. CASE ReadNick
  <2>1. /\ l.nick \in Nicks /\ l.new \in Nicks /\ Rename(l.nick, l.new)
        /\ Emit(<<[ev |-> "NickChanged", nick |-> l.nick, new |-> l.new]>>)
        /\ v[l.new] = seen[l.nick]
    BY <1>1, <1>6 DEF ReadNick, Line, Views
  <2>2. PICK a : a = [ev |-> "NickChanged", nick |-> l.nick, new |-> l.new]
    OBVIOUS
  <2>3. a \in Events /\ Told(a) = {} /\ ~Bare(a)
    BY <2>1, <2>2 DEF Events, Told, Bare
  <2>4. Novel(a)
    BY <2>3 DEF Novel, Binds
  <2>5. CASE addr[l.nick] = Unknown
    BY <1>2, <2>1, <2>2, <2>3, <2>4, <2>5 DEF Rename, sdkVars
  <2>6. CASE addr[l.nick] # Unknown
    <3>1. PICK d \in Dids : d = addr[l.nick]
      BY <1>1, <2>1, <2>6
    <3>2. d = seen[l.nick]
      BY <2>1, <2>6, <3>1 DEF IInv, SdkNeverStale
    <3>3. /\ addr' = [addr EXCEPT ![l.nick] = Unknown, ![l.new] = d]
          /\ disp' = [disp EXCEPT ![d] = l.new]
      BY <2>1, <2>6, <3>1 DEF Rename
    <3>4. d \in held[l.new]
      BY <2>1, <3>2 DEF Within, Who
    <3>5. Naming(l.new, d)
      BY <2>1, <3>2, <3>3, <3>4 DEF Naming
    <3>6. \A n \in Nicks, x \in Dids : addr'[n] = x => addr[n] = x \/ disp'[x] = n
      BY <1>1, <2>1, <3>3 DEF Keys
    <3> QED BY <1>2, <2>1, <2>2, <2>3, <2>4, <3>5, <3>6
  <2> QED BY <2>5, <2>6
<1>7. CASE ReadPrivmsg
  <2>1. /\ l.cmd = "PRIVMSG" /\ l.nick \in Nicks /\ l.who \in Who /\ v[l.nick] = l.who
        /\ l.id \in Nat /\ l.nick \in Keys
    BY <1>1, <1>7 DEF ReadPrivmsg, Line, Saw, Views, Keys
  <2>2. \/ l.who \in Dids /\ Learn(l.nick, l.who)
        \/ l.who = Guest /\ UNCHANGED sdkVars
    BY <1>7 DEF ReadPrivmsg
  <2>3. PICK k \in DmKeys(l.nick, addr', disp') :
           Emit((IF l.who \in Dids THEN News(l.nick, l.who) ELSE <<>>)
                \o <<[ev |-> "Message", nick |-> l.nick, id |-> l.id, key |-> k,
                      mine |-> FALSE]>>)
    BY <1>7 DEF ReadPrivmsg
  <2>4. PICK a : a = [ev |-> "Message", nick |-> l.nick, id |-> l.id, key |-> k, mine |-> FALSE]
    OBVIOUS
  <2>5. addr' \in [Nicks -> Dids \cup {Unknown}] /\ k \in Keys
    <3>1. addr' \in [Nicks -> Dids \cup {Unknown}]
      BY ReadMaps DEF IInv
    <3> QED BY <2>1, <3>1, KeyTypes
  <2>6. /\ a \in Events /\ ~Bare(a) /\ Told(a) = {k} \cap Dids
        /\ \A n, d : ~Binds(a, n, d)
    BY <2>1, <2>4, <2>5 DEF Events, Arrivals, Bare, Told, Binds
  <2>7. k \in Dids => disp'[k] # Unknown
    <3>1. k \in Dids => addr'[l.nick] = k \/ disp'[k] = l.nick
      <4>1. CASE addr'[l.nick] = Unknown
        BY <2>1, <2>3, <4>1 DEF DmKeys, Keys
      <4>2. CASE addr'[l.nick] # Unknown
        <5>1. k = addr'[l.nick]
          BY <2>1, <2>3, <2>5, <4>2, KeyTypes DEF DmKeys, Resolved, Keys
        <5> QED BY <5>1
      <4> QED BY <4>1, <4>2
    <3>2. CASE l.who \in Dids /\ Learn(l.nick, l.who)
      <4>1. addr'[l.nick] = l.who
        BY <1>1, <2>1, <3>2 DEF Learn
      <4>2. k = l.who
        BY <2>1, <2>3, <3>2, <4>1 DEF DmKeys, Resolved, Keys
      <4> QED BY <1>3, <2>1, <3>2, <4>2
    <3>3. CASE UNCHANGED sdkVars
      BY <1>1, <2>1, <3>1, <3>3 DEF sdkVars, NamesInv, Known, Keys
    <3> QED BY <2>2, <3>2, <3>3
  <2>8. Novel(a)
    BY <2>6, <2>7 DEF Novel
  <2>9. CASE l.who \in Dids /\ Learn(l.nick, l.who)
    <3>1. Emit(News(l.nick, l.who) \o <<a>>)
      BY <2>3, <2>4, <2>9
    <3>2. Tidings
      BY <1>1, <2>1, <2>6, <2>8, <2>9, <3>1, LearnTidings
    <3>3. /\ Naming(l.nick, l.who)
          /\ \A x \in Nicks, d \in Dids : addr'[x] = d => addr[x] = d \/ disp'[d] = x
      BY <1>3, <2>1, <2>9
    <3> QED BY <2>1, <2>9, <3>2, <3>3
  <2>10. CASE l.who = Guest /\ UNCHANGED sdkVars
    <3>1. Emit(<<>> \o <<a>>)
      BY <2>3, <2>4, <2>10 DEF Keys
    <3>2. Tidings
      BY <1>1, <2>6, <2>8, <3>1, Emitting DEF Emit, Tidings
    <3> QED BY <2>10, <3>2 DEF sdkVars
  <2> QED BY <2>2, <2>9, <2>10
<1>8. CASE ReadEcho
  <2>1. l.cmd = "ECHO" /\ l.nick \in Keys /\ l.id \in Nat /\ UNCHANGED <<addr, disp>>
    BY <1>8 DEF ReadEcho, Line, sdkVars
  <2>2. PICK k \in DmKeys(l.nick, addr, disp) :
           Emit(<<[ev |-> "Message", nick |-> l.nick, id |-> l.id, key |-> k, mine |-> TRUE]>>)
    BY <1>8 DEF ReadEcho
  <2>3. k \in Keys
    BY <1>1, <2>1, KeyTypes
  <2>4. PICK a : a = [ev |-> "Message", nick |-> l.nick, id |-> l.id, key |-> k, mine |-> TRUE]
    OBVIOUS
  <2>5. /\ a \in Events /\ Told(a) = {k} \cap Dids
        /\ \A n, d : Binds(a, n, d) => n = l.nick /\ d = k /\ k \in Dids
        /\ Bare(a) => k = l.nick /\ k \in Nicks
    BY <2>1, <2>3, <2>4 DEF Events, Arrivals, Bare, Told, Binds
  <2>6. /\ k \in Dids /\ l.nick \in Nicks => addr[l.nick] = k \/ disp[k] = l.nick
        /\ l.nick \notin Nicks => k = l.nick
        /\ k \in Nicks => \A d \in Dids : disp[d] # l.nick
    <3>1. CASE l.nick \in Nicks /\ addr[l.nick] # Unknown
      <4>1. k = addr[l.nick] /\ k \in Dids /\ k \notin Nicks
        BY <1>1, <2>2, <3>1 DEF DmKeys, Resolved, Keys
      <4> QED BY <3>1, <4>1
    <3>2. CASE l.nick \in Nicks /\ addr[l.nick] = Unknown
      BY <2>2, <3>2 DEF DmKeys, Keys
    <3>3. CASE l.nick \notin Nicks
      <4>1. k = l.nick
        BY <2>1, <2>2, <3>3 DEF DmKeys, Resolved, Keys
      <4> QED BY <2>1, <3>3, <4>1 DEF Keys
    <3> QED BY <3>1, <3>2, <3>3
  <2>7. k \in Dids => Known(k)
    <3>1. CASE l.nick \in Nicks
      BY <1>1, <2>6, <3>1 DEF NamesInv, Known, Keys
    <3>2. CASE l.nick \notin Nicks
      BY <1>1, <2>1, <2>6, <3>2 DEF NamesInv, Copied
    <3> QED BY <3>1, <3>2
  <2>8. Novel(a)
    <3>1. \A n \in Nicks, d \in Dids : Binds(a, n, d) => disp'[d] = n \/ addr[n] = d
      BY <2>1, <2>5, <2>6
    <3>2. \A d \in Told(a) : disp'[d] # Unknown
      BY <2>1, <2>5, <2>7 DEF Known
    <3>3. Bare(a) => disp' = disp /\ \A d \in Dids : disp[d] # a.nick
      BY <2>1, <2>4, <2>5, <2>6
    <3> QED BY <3>1, <3>2, <3>3 DEF Novel
  <2> QED BY <1>2, <2>1, <2>2, <2>4, <2>5, <2>8
<1>9. CASE ReadWhois
  <2>1. /\ l.nick \in Nicks /\ l.who \in Dids /\ v[l.nick] = l.who /\ Learn(l.nick, l.who)
        /\ Emit(News(l.nick, l.who))
    BY <1>1, <1>9 DEF ReadWhois, Line, Saw, Views
  <2> QED BY <1>1, <1>3, <2>1, LearnTidings
<1>10. CASE ReadTargets
  <2>1. /\ l.cmd = "TARGETS" /\ l.nick \in Nicks /\ l.who \in Dids /\ l.who \in held[l.nick]
        /\ disp' = [disp EXCEPT ![l.who] = l.nick] /\ UNCHANGED <<addr, seen>>
        /\ Nobody \in held[l.nick] /\ \A n \in Nicks : seen[n] \notin Dids
    BY <1>10 DEF ReadTargets, Line, Heard
  <2>2. PICK a : a = [ev |-> "ChatHistoryTarget", nick |-> l.nick, did |-> l.who]
    OBVIOUS
  <2>3. /\ a \in Events /\ Emit(<<a>>) /\ ~Bare(a) /\ Told(a) = {l.who}
        /\ \A n, d : Binds(a, n, d) => n = l.nick /\ d = l.who
    BY <1>10, <2>1, <2>2 DEF Events, ReadTargets, Bare, Told, Binds
  <2>4. disp'[l.who] = l.nick /\ l.nick # Unknown
    BY <1>1, <2>1 DEF Keys
  <2>5. Novel(a)
    BY <2>3, <2>4 DEF Novel
  <2>6. Naming(l.nick, l.who)
    BY <2>1 DEF Naming
  <2> QED BY <1>2, <2>1, <2>3, <2>5, <2>6
<1> QED BY <1>4, <1>5, <1>6, <1>7, <1>8, <1>9, <1>10 DEF Read

LEMMA OrderlyMore ==
    ASSUME NEW q \in Seq(Events), NEW a \in Events, Orderly(q)', Marked(a)',
           Bare(a)' => /\ bound'[a.nick] = Unknown
                       /\ \A j \in 1..Len(q), d \in Dids : ~Binds(q[j], a.nick, d)
    PROVE  Orderly(Append(q, a))'
<1> DEFINE r == Append(q, a)
           n == Len(q) + 1
<1>1. /\ Len(q) \in Nat /\ 1..Len(r) = 1..Len(q) \cup {n}
      /\ r[n] = a /\ \A i \in 1..Len(q) : r[i] = q[i]
  BY Added
<1>2. \A i \in 1..Len(r), j \in 1..Len(r) : j < i => j \in 1..Len(q)
  BY <1>1
<1> HIDE DEF r, n
<1>3. ASSUME NEW i \in 1..Len(r), Bare(r[i])', NEW j \in 1..Len(r), j < i, NEW d \in Dids
      PROVE  ~Binds(r[j], r[i].nick, d)
  <2>1. j \in 1..Len(q)
    BY <1>2, <1>3
  <2>2. CASE i = n
    BY <1>1, <1>3, <2>1, <2>2
  <2>3. CASE i \in 1..Len(q)
    BY <1>1, <1>3, <2>1, <2>3 DEF Orderly, Binds, Told
  <2> QED BY <1>1, <2>2, <2>3
<1>4. ASSUME NEW i \in 1..Len(r)
      PROVE  Marked(r[i])' /\ (Bare(r[i])' => bound'[r[i].nick] = Unknown)
  <2>1. CASE i = n
    BY <1>1, <2>1
  <2>2. CASE i \in 1..Len(q)
    BY <1>1, <2>2 DEF Orderly
  <2> QED BY <1>1, <2>1, <2>2
<1>5. \A e, x, d : Binds(e, x, d)' = Binds(e, x, d)
  BY DEF Binds, Told
<1>6. Orderly(r)'
  BY <1>3, <1>4, <1>5 DEF Orderly
<1> QED BY <1>6 DEF r

\* A read line takes no name from an account whose nick is certain.
LEMMA ReadNames ==
    ASSUME IInv, MeetInv, Read, NEW l \in Lines, l = wire[1], 1 \in 1..Len(wire),
           NEW v \in Views, v = seen', Shows(seen, l, v), Heard(l, v), Within(v), Single(v),
           online, wire' = Tail(wire), wire # <<>>,
           UNCHANGED <<bound, shown, online, held, said>>
    PROVE  NamesInv'
<1> USE NamesAssumption
<1>1. /\ addr \in [Nicks -> Dids \cup {Unknown}] /\ disp \in [Dids -> Nicks \cup {Unknown}]
      /\ seen \in Views /\ evs \in Seq(Events) /\ Types /\ NamesInv /\ KnownInv
  BY DEF IInv, Types, MeetInv, MapsInv
<1>2. /\ disp' = disp \/ \E x \in Nicks, w \in Dids : Naming(x, w)
      /\ \A n \in Nicks, d \in Dids : addr'[n] = d => addr[n] = d \/ disp'[d] = n
      /\ Tidings
  BY ReadNaming
<1>3. \A n \in Nicks, d \in Dids : seen[n] = d /\ Nobody \notin held[n] => v[n] = d
  BY <1>1, ViewStays
<1>4. \A p : Certain(p)' = Certain(p)
  BY DEF Certain
<1>5. \A d \in Dids : Known(d) => Known(d)'
  <2>1. CASE disp' = disp
    BY <2>1 DEF Known
  <2>2. CASE \E x \in Nicks, w \in Dids : Naming(x, w)
    BY <1>1, <2>2 DEF Known, Naming, Keys
  <2> QED BY <1>2, <2>1, <2>2
<1>6. ASSUME NEW n \in Nicks, NEW d \in Dids, Dubbed(n, d) PROVE Dubbed(n, d)'
  <2> SUFFICES ASSUME Certain(n), disp[d] = n PROVE disp'[d] = n
    BY <1>4, <1>6 DEF Dubbed
  <2>1. CASE disp' = disp
    BY <2>1
  <2>2. ASSUME NEW x \in Nicks, NEW w \in Dids, Naming(x, w) PROVE disp'[d] = n
    <3>1. CASE w # d
      BY <1>1, <2>2, <3>1 DEF Naming
    <3>2. CASE w = d
      <4>1. d \in held[x] /\ d \in held[n] /\ d \in Who
        BY <1>1, <2>2, <3>2 DEF Naming, KnownInv, Keys, Who
      <4>2. CASE x = n
        BY <1>1, <2>2, <3>2, <4>2 DEF Naming
      <4>3. CASE x # n /\ Nobody \in held[n]
        BY <4>1, <4>3 DEF Certain
      <4>4. CASE x # n /\ Nobody \notin held[n]
        <5>1. Known(d)
          BY DEF Known, Keys
        <5>2. seen[n] = d
          BY <1>1, <4>4, <5>1 DEF NamesInv
        <5>3. v[n] = d
          BY <1>3, <4>4, <5>2
        <5>4. v[x] = d
          BY <2>2, <3>2, <5>2 DEF Naming
        <5> QED BY <4>4, <5>3, <5>4 DEF Single
      <4> QED BY <4>2, <4>3, <4>4
    <3> QED BY <3>1, <3>2
  <2> QED BY <1>2, <2>1, <2>2
<1>7. ASSUME NEW d \in Dids, Known(d)'
      PROVE  v[disp'[d]] = d \/ Nobody \in held[disp'[d]]
  <2>1. CASE disp'[d] = disp[d]
    <3>1. Known(d) /\ disp[d] \in Nicks
      BY <1>1, <1>7, <2>1 DEF Known
    <3> QED BY <1>1, <1>3, <2>1, <3>1 DEF NamesInv
  <2>2. ASSUME NEW x \in Nicks, NEW w \in Dids, Naming(x, w)
        PROVE  v[disp'[d]] = d \/ Nobody \in held[disp'[d]] \/ disp'[d] = disp[d]
    BY <1>1, <2>2 DEF Naming
  <2> QED BY <1>2, <2>1, <2>2
<1>8. ASSUME NEW n \in Nicks, NEW d \in Dids, addr'[n] = d \/ bound'[n] = d
      PROVE  Known(d)' /\ Dubbed(n, d)'
  <2>1. CASE addr[n] = d \/ bound[n] = d
    BY <1>1, <1>5, <1>6, <2>1 DEF NamesInv
  <2>2. CASE disp'[d] = n
    BY <2>2 DEF Known, Dubbed, Keys
  <2> QED BY <1>2, <1>8, <2>1, <2>2
<1>9. \A d \in Dids : d \in shown' \/ (\E m \in Ids' : said'[m].to = d) => Known(d)'
  BY <1>1, <1>5 DEF NamesInv, Ids
<1>10. \A e : Told(e)' = Told(e) /\ \A n, d : Binds(e, n, d)' = Binds(e, n, d)
  BY DEF Told, Binds
<1>11. \A e : /\ Marked(e) => Marked(e)'
              /\ Bare(e)' = Bare(e)
  BY <1>4, <1>5, <1>6, <1>10 DEF Marked, Bare, Told
<1>12. PICK q \in Seq(Events) : q = evs
  BY <1>1
<1>13. Orderly(q)'
  <2>1. Orderly(q)
    BY <1>1, <1>12 DEF NamesInv
  <2> QED BY <1>10, <1>11, <2>1 DEF Orderly
<1>14. ASSUME NEW a \in Events, Novel(a) PROVE Marked(a)'
  <2>1. \A d \in Told(a) : Known(d)'
    BY <1>14 DEF Novel, Known
  <2>2. ASSUME NEW n \in Nicks, NEW d \in Dids, Binds(a, n, d) PROVE Dubbed(n, d)'
    <3>1. CASE disp'[d] = n
      BY <3>1 DEF Dubbed
    <3>2. CASE addr[n] = d
      BY <1>1, <1>6, <3>2 DEF NamesInv
    <3> QED BY <1>14, <2>2, <3>1, <3>2 DEF Novel
  <2> QED BY <1>10, <2>1, <2>2 DEF Marked
<1>15. ASSUME NEW a \in Events, Novel(a), Bare(a)
       PROVE  /\ bound'[a.nick] = Unknown
              /\ \A j \in 1..Len(q), d \in Dids : ~Binds(q[j], a.nick, d)
  <2>1. a.nick \in Nicks /\ Certain(a.nick) /\ \A d \in Dids : disp[d] # a.nick
    BY <1>15 DEF Novel, Bare
  <2>2. \A d \in Dids : ~Dubbed(a.nick, d)
    BY <2>1 DEF Dubbed
  <2>3. bound[a.nick] \notin Dids
    BY <1>1, <2>1, <2>2 DEF NamesInv
  <2>4. \A j \in 1..Len(q) : Marked(q[j])
    BY <1>1, <1>12 DEF NamesInv, Orderly
  <2>5. \A j \in 1..Len(q), d \in Dids : ~Binds(q[j], a.nick, d)
    BY <2>1, <2>2, <2>4 DEF Marked
  <2> QED BY <1>1, <2>1, <2>3, <2>5 DEF Types
<1>16. Orderly(evs)'
  <2>1. CASE evs' = evs
    BY <1>12, <1>13, <2>1 DEF Orderly
  <2>2. ASSUME NEW a \in Events, Novel(a), NEW r, r = Append(q, a)
        PROVE  r \in Seq(Events) /\ Orderly(r)'
    <3>1. Orderly(Append(q, a))'
      BY <1>11, <1>13, <1>14, <1>15, <2>2, OrderlyMore
    <3> QED BY <2>2, <3>1, Added DEF Orderly
  <2>3. ASSUME NEW a \in Events, NEW b \in Events, Novel(a), ~Bare(a), Novel(b),
               NEW s, s = Append(Append(q, b), a)
        PROVE  Orderly(s)'
    <3>1. PICK r : r = Append(q, b)
      OBVIOUS
    <3>2. r \in Seq(Events) /\ Orderly(r)'
      BY <2>2, <2>3, <3>1
    <3>3. Orderly(Append(r, a))'
      BY <1>11, <1>14, <2>3, <3>2, OrderlyMore
    <3> QED BY <2>3, <3>1, <3>3 DEF Orderly
  <2>4. PICK r : r = evs'
    OBVIOUS
  <2>5. CASE evs' # evs
    <3>1. \/ \E a \in Events : Novel(a) /\ r = Append(q, a)
          \/ \E a, b \in Events : /\ Novel(a) /\ ~Bare(a) /\ Novel(b)
                                  /\ r = Append(Append(q, b), a)
      BY <1>2, <1>12, <2>4, <2>5 DEF Tidings
    <3>2. Orderly(r)'
      BY <2>2, <2>3, <3>1
    <3> QED BY <2>4, <3>2 DEF Orderly
  <2> QED BY <2>1, <2>5
<1>17. Copied(wire)'
  <2>1. \A i \in 1..Len(wire') : \E j \in 1..Len(wire) : wire'[i] = wire[j]
    BY <1>1, Taken DEF Types
  <2>2. Copied(wire)
    BY <1>1 DEF NamesInv
  <2> QED BY <1>5, <2>1, <2>2 DEF Copied
<1> QED BY <1>7, <1>8, <1>9, <1>16, <1>17 DEF NamesInv

\* A step that leaves the maps and the events alone
LEMMA NamesStay ==
    ASSUME IInv, MeetInv, Grows, UNCHANGED <<disp, addr, bound, evs>>,
           UNCHANGED <<seen, online>> \/ ~online,
           \A d \in Dids : d \in shown' => d \in shown \/ \E n \in Nicks : bound[n] = d,
           \A d \in Dids : (\E m \in Ids' : said'[m].to = d)
                              => d \in shown \/ \E m \in Ids : said[m].to = d,
           Copied(wire')
    PROVE  NamesInv'
<1>1. NamesInv /\ (\A p : Certain(p)' => Certain(p)) /\ (~online => \A d \in Dids : ~Known(d))
  BY GrowsMore DEF MeetInv, NamesInv
<1>2. /\ \A d : Known(d)' = Known(d)
      /\ \A n, d : Dubbed(n, d) => Dubbed(n, d)'
  BY <1>1 DEF Known, Dubbed
<1>3. /\ \A e : Told(e)' = Told(e)
      /\ \A e, n, d : Binds(e, n, d)' = Binds(e, n, d)
      /\ \A e : Bare(e)' => Bare(e)
  BY <1>1 DEF Told, Binds, Bare
<1>4. \A e : Marked(e) => Marked(e)'
  BY <1>2, <1>3 DEF Marked
<1>5. Orderly(evs)'
  BY <1>1, <1>3, <1>4 DEF NamesInv, Orderly
<1>6. \A d \in Dids : Known(d)' => online' /\ (seen'[disp'[d]] = d \/ Nobody \in held'[disp'[d]])
  <2> SUFFICES ASSUME NEW d \in Dids, Known(d)
               PROVE  online' /\ (seen'[disp'[d]] = d \/ Nobody \in held'[disp'[d]])
    BY <1>2
  <2>1. UNCHANGED <<seen, online>>
    BY <1>1
  <2>2. disp[d] \in Nicks
    BY DEF Known, IInv, Types
  <2> QED BY <1>1, <2>1, <2>2 DEF NamesInv, Grows
<1>7. \A n \in Nicks, d \in Dids : addr'[n] = d \/ bound'[n] = d => Known(d)' /\ Dubbed(n, d)'
  BY <1>1, <1>2 DEF NamesInv
<1>8. \A d \in Dids : d \in shown' \/ (\E m \in Ids' : said'[m].to = d) => Known(d)'
  <2>1. \A d \in Dids : d \in shown \/ (\E n \in Nicks : bound[n] = d)
                           \/ (\E m \in Ids : said[m].to = d) => Known(d)
    BY <1>1 DEF NamesInv
  <2> QED BY <1>2, <2>1
<1>9. Copied(wire)'
  BY <1>2 DEF Copied
<1> QED BY <1>5, <1>6, <1>7, <1>8, <1>9 DEF NamesInv

LEMMA ReadMeets ==
    ASSUME IInv, MeetInv, Read
    PROVE  MeetInv'
<1> USE LineFields, NamesAssumption
<1>1. /\ UNCHANGED <<bound, shown, rows, local, open, cmds, online, owner, held, said, spent,
                     budget, met, chosen, refused, routes>>
      /\ wire # <<>> /\ wire' = Tail(wire) /\ wire[1] \in Lines /\ evs \in Seq(Events)
  <2>1. wire # <<>> /\ wire' = Tail(wire)
    BY DEF Read, ReadJoin, ReadQuit, ReadNick, ReadPrivmsg, ReadEcho, ReadWhois, ReadTargets, Line
  <2>2. ReadKeeps
    BY DEF Read, ReadJoin, ReadQuit, ReadNick, ReadPrivmsg, ReadEcho, ReadWhois, ReadTargets
  <2> QED BY <2>1, <2>2, Taken DEF ReadKeeps, IInv, Types, appVars, serverVars, historyVars
<1>2. online /\ Len(wire) \in Nat /\ Len(wire) >= 1
  BY <1>1, Taken DEF IInv, OfflineQuiet, Types
<1>3. PICK l \in Lines : l = wire[1]
  BY <1>1
<1>4. \A h \in [0..Len(wire) -> Views] : Tale(h) =>
         /\ Shows(seen, l, h[1]) /\ Heard(l, h[1]) /\ Within(seen) /\ Within(h[1])
         /\ Single(h[1]) /\ h[1] = seen'
  <2> SUFFICES ASSUME NEW h \in [0..Len(wire) -> Views], Tale(h)
               PROVE  /\ Shows(seen, l, h[1]) /\ Heard(l, h[1]) /\ Within(seen)
                      /\ Within(h[1]) /\ Single(h[1]) /\ h[1] = seen'
    OBVIOUS
  <2>1. 1 \in 1..Len(wire) /\ 1 - 1 = 0 /\ 0 \in 0..Len(wire) /\ 1 \in 0..Len(wire)
    BY <1>2
  <2>2. Shows(h[0], wire[1], h[1]) /\ Heard(wire[1], h[1]) /\ Within(h[0]) /\ Within(h[1])
        /\ h[0] = seen /\ Single(h[1])
    BY <2>1 DEF Tale
  <2> QED BY <1>3, <2>2, ReadShows DEF IInv
<1>5. PICK v \in Views : /\ v = seen' /\ Shows(seen, l, v) /\ Heard(l, v) /\ Within(seen)
                          /\ Within(v) /\ Single(v)
  <2>1. PICK h \in [0..Len(wire) -> Views] : Tale(h)
    BY <1>2 DEF MeetInv, TaleInv
  <2>2. h[1] \in Views
    BY <1>2
  <2> QED BY <1>4, <2>1, <2>2
<1>6. TaleInv'
  BY <1>1, <1>2, <1>4, <1>5, TaleRead DEF MeetInv
<1>7. HeldInv' /\ LocalInv' /\ CmdsInv'
  <2>1. Grows
    BY <1>1 DEF Grows
  <2> QED BY <1>1, <2>1, PartsStay DEF MeetInv, HeldInv
<1>8. KnownInv' /\ RingInv'
  <2>1. /\ \A d \in Dids : disp[d] # Unknown => d \in held[disp[d]]
        /\ \A n \in Nicks : seen[n] \in Dids => addr[n] = seen[n]
        /\ HeldInv /\ KnownInv /\ RingInv /\ Types /\ UNCHANGED <<held, refused, said, online>>
    BY <1>1, <1>2 DEF MeetInv, MapsInv, KnownInv, IInv
  <2>2. ASSUME NEW a \in Events, Rings(a), Emit(<<a>>) PROVE RingInv'
    BY <1>1, <2>1, <2>2, RingsMore, Emitting DEF Emit
  <2>3. CASE ReadJoin
    <3>1. /\ l.cmd = "JOIN" /\ l.nick \in Nicks /\ l.who \in Who /\ Saw(l.nick, l.who)
          /\ v[l.nick] = l.who
      BY <1>1, <1>3, <1>5, <2>1, <2>3 DEF ReadJoin, Line, Shows, Types, Views
    <3>2. l.who \in held[l.nick]
      BY <1>5, <3>1 DEF Within
    <3>3. PICK a : a = [ev |-> "Joined", nick |-> l.nick, who |-> l.who]
      OBVIOUS
    <3>4. a \in Events /\ Rings(a)
      BY <3>1, <3>2, <3>3 DEF Events, Rings
    <3>5. \/ l.who \in Dids /\ Learn(l.nick, l.who) /\ Emit(News(l.nick, l.who) \o <<a>>)
          \/ l.who = Guest /\ UNCHANGED sdkVars /\ Emit(<<a>>)
      BY <1>3, <2>3, <3>3 DEF ReadJoin
    <3>6. RingInv'
      BY <1>1, <2>1, <2>2, <3>1, <3>2, <3>4, <3>5, RingsNews
    <3>7. KnownInv'
      BY <1>2, <2>1, <3>1, <3>2, <3>5, LearnKnown
    <3> QED BY <3>6, <3>7
  <2>4. CASE ReadQuit
    <3>1. /\ l.nick \in Nicks /\ addr' = [addr EXCEPT ![l.nick] = Unknown] /\ disp' = disp
          /\ seen' = [seen EXCEPT ![l.nick] = Nobody]
      BY <1>1, <1>3, <2>4 DEF ReadQuit, Line, Forget, Saw
    <3>2. PICK a : a = [ev |-> "UserQuit", nick |-> l.nick]
      OBVIOUS
    <3>3. a \in Events /\ Rings(a) /\ Emit(<<a>>)
      BY <1>3, <2>4, <3>1, <3>2 DEF Events, Rings, ReadQuit
    <3>4. KnownInv'
      BY <2>1, <3>1 DEF KnownInv, Types, Views, Keys
    <3> QED BY <2>2, <3>3, <3>4
  <2>5. CASE ReadNick
    <3>1. /\ l.nick \in Nicks /\ l.new \in Nicks /\ l.new # l.nick
          /\ Rename(l.nick, l.new)
          /\ seen' = [seen EXCEPT ![l.nick] = Nobody, ![l.new] = seen[l.nick]]
      BY <1>1, <1>3, <1>5, <2>5 DEF ReadNick, Line, Shows
    <3>2. PICK a : a = [ev |-> "NickChanged", nick |-> l.nick, new |-> l.new]
      OBVIOUS
    <3>3. a \in Events /\ Rings(a) /\ Emit(<<a>>)
      BY <1>3, <2>5, <3>1, <3>2 DEF Events, Rings, ReadNick
    <3>4. /\ seen'[l.nick] = Nobody /\ seen'[l.new] = seen[l.nick]
          /\ \A o \in Nicks \ {l.nick, l.new} : seen'[o] = seen[o]
      BY <2>1, <3>1 DEF Types, Views
    <3>5. CASE addr[l.nick] = Unknown
      <4>1. addr' = addr /\ disp' = disp /\ seen[l.nick] \notin Dids
        BY <2>1, <3>1, <3>5 DEF Rename, sdkVars, Keys
      <4> QED BY <2>1, <2>2, <3>3, <3>4, <4>1 DEF KnownInv, Keys
    <3>6. CASE addr[l.nick] # Unknown
      <4>1. PICK d \in Dids : d = addr[l.nick]
        BY <2>1, <3>1, <3>6 DEF Types
      <4>2. d = seen[l.nick]
        BY <3>1, <3>6, <4>1 DEF IInv, SdkNeverStale
      <4>3. /\ addr' = [addr EXCEPT ![l.nick] = Unknown, ![l.new] = d]
            /\ disp' = [disp EXCEPT ![d] = l.new]
        BY <3>1, <3>6, <4>1 DEF Rename
      <4>4. d \in held[l.new]
        BY <1>5, <3>1, <3>4, <4>2 DEF Within, Who
      <4>5. \A x \in Dids : disp'[x] # Unknown => x \in held'[disp'[x]]
        BY <1>1, <2>1, <4>3, <4>4 DEF Types
      <4>6. \A o \in Nicks : seen'[o] \in Dids => addr'[o] = seen'[o]
        <5>1. addr'[l.new] = d /\ \A o \in Nicks \ {l.nick, l.new} : addr'[o] = addr[o]
          BY <2>1, <3>1, <4>3 DEF Types
        <5>2. Nobody \notin Dids
          BY DEF Keys
        <5> SUFFICES ASSUME NEW o \in Nicks, seen'[o] \in Dids PROVE addr'[o] = seen'[o]
          OBVIOUS
        <5>3. o # l.nick
          BY <3>4, <5>2
        <5>4. CASE o = l.new
          BY <3>4, <4>2, <5>1, <5>4
        <5>5. CASE o \in Nicks \ {l.nick, l.new}
          <6>1. seen'[o] = seen[o] /\ addr'[o] = addr[o]
            BY <3>4, <5>1, <5>5
          <6> QED BY <2>1, <6>1
        <5> QED BY <5>3, <5>4, <5>5
      <4> QED BY <2>2, <3>3, <4>5, <4>6 DEF KnownInv
    <3> QED BY <3>5, <3>6
  <2>6. CASE ReadPrivmsg
    <3>1. /\ l.cmd = "PRIVMSG" /\ l.nick \in Nicks /\ l.who \in Who /\ Saw(l.nick, l.who)
          /\ l.id \in Nat /\ v[l.nick] = l.who /\ l.nick \in Keys
      BY <1>1, <1>3, <1>5, <2>1, <2>6 DEF ReadPrivmsg, Line, Shows, Types, Views, Keys
    <3>2. l.who \in held[l.nick]
      BY <1>5, <3>1 DEF Within
    <3>3. \/ l.who \in Dids /\ Learn(l.nick, l.who)
          \/ l.who = Guest /\ UNCHANGED sdkVars
      BY <1>3, <2>6 DEF ReadPrivmsg
    <3>4. PICK k \in DmKeys(l.nick, addr', disp') :
             Emit((IF l.who \in Dids THEN News(l.nick, l.who) ELSE <<>>)
                  \o <<[ev |-> "Message", nick |-> l.nick, id |-> l.id, key |-> k,
                        mine |-> FALSE]>>)
      BY <1>3, <2>6 DEF ReadPrivmsg
    <3>5. k \in Keys
      <4>1. addr' \in [Nicks -> Dids \cup {Unknown}]
        BY ReadMaps DEF IInv
      <4> QED BY <3>1, <4>1, KeyTypes
    <3>6. PICK a : a = [ev |-> "Message", nick |-> l.nick, id |-> l.id, key |-> k, mine |-> FALSE]
      OBVIOUS
    <3>7. said[l.id].from \in Who
      <4>1. 1 \in 1..Len(wire)
        BY <1>2
      <4> QED BY <1>3, <3>1, <4>1 DEF IInv, AuthorInv, From
    <3>8. a \in Events /\ Rings(a)
      BY <3>1, <3>5, <3>6, <3>7 DEF Events, Arrivals, Rings
    <3>9. RingInv'
      <4>1. CASE l.who \in Dids
        BY <1>1, <2>1, <3>1, <3>2, <3>4, <3>6, <3>8, <4>1, RingsNews
      <4>2. CASE l.who \notin Dids
        <5>1. Emit(<<>> \o <<a>>)
          BY <3>4, <3>6, <4>2
        <5> QED BY <1>1, <2>2, <3>8, <5>1, Emitting DEF Emit
      <4> QED BY <4>1, <4>2
    <3>10. KnownInv'
      BY <1>2, <2>1, <3>1, <3>2, <3>3, LearnKnown
    <3> QED BY <3>9, <3>10
  <2>7. CASE ReadEcho
    <3>1. l.cmd = "ECHO" /\ l.nick \in Keys /\ l.id \in Nat /\ v = seen
          /\ UNCHANGED <<addr, disp, seen>>
      BY <1>1, <1>3, <1>5, <2>7 DEF ReadEcho, Line, Shows, sdkVars
    <3>2. PICK k \in DmKeys(l.nick, addr, disp) :
             Emit(<<[ev |-> "Message", nick |-> l.nick, id |-> l.id, key |-> k,
                     mine |-> TRUE]>>)
      BY <1>3, <2>7 DEF ReadEcho
    <3>3. k \in Keys
      BY <2>1, <3>1, KeyTypes DEF Types
    <3>4. PICK a : a = [ev |-> "Message", nick |-> l.nick, id |-> l.id, key |-> k, mine |-> TRUE]
      OBVIOUS
    <3>5. l.nick \in Nicks /\ k \in Dids => k \in held[l.nick]
      <4>1. CASE l.nick \in Nicks /\ addr[l.nick] # Unknown
        <5>1. addr[l.nick] \in Dids /\ addr[l.nick] = seen[l.nick]
          BY <2>1, <4>1 DEF Types, IInv, SdkNeverStale
        <5>2. k = addr[l.nick]
          BY <2>1, <3>1, <3>2, <4>1, <5>1, KeyTypes DEF Types
        <5> QED BY <1>5, <4>1, <5>1, <5>2 DEF Within, Who
      <4>2. CASE l.nick \in Nicks /\ addr[l.nick] = Unknown
        <5>1. k = l.nick \/ (k \in Dids /\ disp[k] = l.nick)
          BY <3>2, <4>2 DEF DmKeys
        <5> QED BY <2>1, <4>2, <5>1 DEF Keys
      <4> QED BY <4>1, <4>2
    <3>6. ASSUME Expected(l.id) PROVE Lands(said[l.id].to, l.nick, k)
      <4>1. PICK p : p = said[l.id].to
        OBVIOUS
      <4>2. /\ l.nick \in Nicks /\ Certain(p)
            /\ p \in Nicks => l.nick = p
            /\ p \in Dids => /\ p \in held[l.nick]
                             /\ \/ seen[l.nick] = p
                                \/ seen[l.nick] = Unknown /\ Unknown \in held[l.nick]
        BY <1>5, <3>1, <3>6, <4>1 DEF Heard, Answers, Expected
      <4>3. k # l.nick => k \in Dids
        BY <2>1, <3>2, <4>2 DEF DmKeys, Resolved, Types
      <4>4. ASSUME p \in Dids PROVE k = p
        <5>1. CASE seen[l.nick] = p
          <6>1. addr[l.nick] = p /\ p # Unknown /\ l.nick \notin Dids
            BY <2>1, <4>2, <4>4, <5>1 DEF Keys
          <6>2. DmKeys(l.nick, addr, disp) = {p}
            BY <4>2, <6>1 DEF DmKeys, Resolved
          <6> QED BY <3>2, <6>2
        <5>2. CASE seen[l.nick] = Unknown /\ Unknown \in held[l.nick]
          <6>1. addr[l.nick] = Unknown
            BY <4>2, <5>2 DEF IInv, SdkNeverStale
          <6>2. l.id \in Ids
            <7>1. 1 \in 1..Len(wire) /\ l \in Letters
              BY <1>2, <3>1, Kinds
            <7> QED BY <1>3, <7>1, MailIds
          <6>3. disp[p] # Unknown /\ disp[p] \in Nicks /\ p \in held[disp[p]]
            BY <2>1, <4>1, <4>4, <6>2 DEF MeetInv, NamesInv, Known, Types
          <6>4. disp[p] = l.nick
            BY <4>2, <4>4, <5>2, <6>3 DEF Certain
          <6>5. k \in Dids /\ disp[k] = l.nick
            BY <3>2, <4>2, <4>4, <6>1, <6>4 DEF DmKeys
          <6>6. k \in held[l.nick] /\ p \in Who /\ k \in Who
            BY <3>5, <4>2, <4>4, <6>5 DEF Who
          <6>7. \A x, y \in held[l.nick] \cap Who : x = y
            BY <4>2, <4>4 DEF Certain
          <6> QED BY <4>2, <4>4, <6>6, <6>7
        <5> QED BY <4>2, <4>4, <5>1, <5>2
      <4>5. p \in Nicks => l.nick = p /\ IF k \in Dids THEN k \in held[p] ELSE k = p
        BY <3>5, <4>2, <4>3
      <4> QED BY <4>1, <4>4, <4>5 DEF Lands
    <3>7. a \in Events /\ Rings(a)
      BY <3>1, <3>3, <3>4, <3>5, <3>6 DEF Events, Arrivals, Rings
    <3>8. RingInv'
      BY <2>2, <3>2, <3>4, <3>7
    <3> QED BY <2>1, <3>1, <3>8 DEF KnownInv
  <2>8. CASE ReadWhois
    <3>1. /\ l.cmd = "330" /\ l.nick \in Nicks /\ l.who \in Dids /\ l.who \in Who
          /\ Saw(l.nick, l.who) /\ v[l.nick] = l.who /\ Learn(l.nick, l.who)
          /\ Emit(News(l.nick, l.who))
      BY <1>1, <1>3, <1>5, <2>1, <2>8 DEF ReadWhois, Line, Shows, Types, Views, Who
    <3>2. l.who \in held[l.nick]
      BY <1>5, <3>1 DEF Within
    <3>3. RingInv'
      BY <1>1, <2>1, <3>1, <3>2, RingsNews
    <3>4. KnownInv'
      BY <1>2, <2>1, <3>1, <3>2, LearnKnown
    <3> QED BY <3>3, <3>4
  <2>9. CASE ReadTargets
    <3>1. /\ l.cmd = "TARGETS" /\ l.nick \in Nicks /\ l.who \in Dids /\ l.who \in held[l.nick]
          /\ disp' = [disp EXCEPT ![l.who] = l.nick] /\ UNCHANGED <<addr, seen>>
      BY <1>1, <1>3, <1>5, <2>9 DEF ReadTargets, Line, Heard
    <3>2. PICK a : a = [ev |-> "ChatHistoryTarget", nick |-> l.nick, did |-> l.who]
      OBVIOUS
    <3>3. a \in Events /\ Rings(a) /\ Emit(<<a>>)
      BY <1>3, <2>9, <3>1, <3>2 DEF Events, Rings, ReadTargets
    <3>4. KnownInv'
      BY <2>1, <3>1 DEF KnownInv, Types
    <3> QED BY <2>2, <3>3, <3>4
  <2> QED BY <2>3, <2>4, <2>5, <2>6, <2>7, <2>8, <2>9 DEF Read
<1>9. MapsInv'
  BY <1>1, <1>8 DEF MeetInv, MapsInv
<1>10. NamesInv'
  <2>1. 1 \in 1..Len(wire)
    BY <1>2
  <2> QED BY <1>1, <1>2, <1>3, <1>5, <2>1, ReadNames
<1> QED BY <1>6, <1>7, <1>8, <1>9, <1>10 DEF MeetInv

\* Optimistic rows in the threads that the bindings b give their peers
Settled(loc, b) ==
    \A k \in Keys : \A m \in loc[k] :
        /\ said[m].from = Unknown /\ said[m].to \in Keys
        /\ Expected(m) => k = KeyBy(b, said[m].to)
Among(loc, loc2) == \A k \in Keys : \A m \in loc[k] : \E j \in Keys : m \in loc2[j]

LEMMA MergingSettles ==
    ASSUME NEW ids, NEW t, Tidy(t, ids), NEW n \in Nicks, NEW d \in Dids, d \in held[n],
           NEW b \in [Nicks -> Dids \cup {Unknown}], b[n] # Unknown => b[n] \in held[n],
           Settled(t.local, b)
    PROVE  LET u == Merged(t, n, d)
           IN  Settled(u.local, [b EXCEPT ![n] = d]) /\ Among(u.local, t.local) /\ u.local[n] = {}
<1> DEFINE u == Merged(t, n, d)
<1>1. Joins(u.local, t.local, n, d)
  BY Merging
<1> HIDE DEF u
<1>2. /\ n \in Keys /\ d \in Keys /\ n # d /\ n \notin Dids /\ n # Unknown
  BY NamesAssumption DEF Keys
<1>3. Among(u.local, t.local) /\ u.local[n] = {}
  BY <1>1, <1>2 DEF Joins, Among
<1>c. PICK c : c = [b EXCEPT ![n] = d]
  OBVIOUS
<1>4. /\ KeyBy(c, n) = d
      /\ \A p \in Keys : p # n => KeyBy(c, p) = KeyBy(b, p)
  <2>1. c[n] = d /\ \A x \in Nicks : x # n => c[x] = b[x]
    BY <1>c
  <2>2. d # Unknown
    BY NamesAssumption DEF Keys
  <2> QED BY <1>2, <2>1, <2>2 DEF KeyBy, Resolved
<1>5. ASSUME NEW k \in Keys, NEW m \in u.local[k]
      PROVE  /\ said[m].from = Unknown /\ said[m].to \in Keys
             /\ Expected(m) => k = KeyBy(c, said[m].to)
  <2>1. (k # n /\ m \in t.local[k]) \/ (k = d /\ m \in t.local[n])
    BY <1>1, <1>2, <1>3, <1>5 DEF Joins
  <2>2. CASE k # n /\ m \in t.local[k]
    <3>1. /\ said[m].from = Unknown /\ said[m].to \in Keys
          /\ Expected(m) => k = KeyBy(b, said[m].to)
      BY <2>2 DEF Settled
    <3>2. ASSUME Expected(m), said[m].to = n PROVE k = d
      <4>1. k = b[n] /\ b[n] # Unknown /\ Certain(n)
        BY <1>2, <2>2, <3>1, <3>2 DEF KeyBy, Resolved, Expected
      <4>2. k \in held[n] /\ k \in Who /\ d \in Who
        BY <4>1 DEF Who
      <4> QED BY <4>1, <4>2 DEF Certain
    <3> QED BY <1>4, <3>1, <3>2
  <2>3. CASE k = d /\ m \in t.local[n]
    <3>1. /\ said[m].from = Unknown /\ said[m].to \in Keys
          /\ Expected(m) => n = KeyBy(b, said[m].to)
      BY <1>2, <2>3 DEF Settled
    <3>2. \A p \in Keys : n = KeyBy(b, p) => p = n
      BY <1>2 DEF KeyBy, Resolved, Keys
    <3> QED BY <1>4, <2>3, <3>1, <3>2
  <2> QED BY <2>1, <2>2, <2>3
<1>6. Settled(u.local, c)
  BY <1>5 DEF Settled
<1> QED BY <1>3, <1>6, <1>c DEF u

\* The copy comes to the thread where the optimistic row is.
LEMMA FilingMeets ==
    ASSUME NEW ids, NEW t, Tidy(t, ids), NEW b, Settled(t.local, b), NEW k \in Keys, NEW m \in ids,
           \A j \in Keys : Expected(m) /\ m \in t.local[j] => j = k
    PROVE  LET u == Filed(t, k, m)
           IN  /\ Settled(u.local, b) /\ Among(u.local, t.local)
               /\ Expected(m) => \A j \in Keys : m \notin u.local[j]
<1> DEFINE u == Filed(t, k, m)
<1>1. u.local = [t.local EXCEPT ![k] = @ \ {m}]
  BY DEF Filed, Tidy
<1>2. \A j \in Keys : u.local[j] = IF j = k THEN t.local[k] \ {m} ELSE t.local[j]
  BY <1>1 DEF Tidy
<1> HIDE DEF u
<1>3. Settled(u.local, b) /\ Among(u.local, t.local)
  BY <1>2 DEF Settled, Among
<1>4. Expected(m) => \A j \in Keys : m \notin u.local[j]
  BY <1>2
<1> QED BY <1>3, <1>4 DEF u

LEMMA HandleSettles ==
    ASSUME IInv, MeetInv, Handle
    PROVE  /\ \A n \in Nicks : bound'[n] # Unknown => bound'[n] \in held[n]
           /\ Settled(local', bound') /\ Among(local', local)
           /\ \A m \in Post(evs[1], Arrivals) : Expected(m) => \A j \in Keys : m \notin local'[j]
<1> USE EventFields, NamesAssumption
<1>1. /\ evs # <<>> /\ evs[1] \in Events /\ 1 \in 1..Len(evs) /\ Rings(evs[1])
      /\ \A n \in Nicks : bound[n] # Unknown => bound[n] \in held[n]
      /\ HeldInv /\ Tidy(Threads, Ids) /\ Threads.local = local
      /\ bound \in [Nicks -> Dids \cup {Unknown}]
  <2>1. evs # <<>>
    BY HandleArranges DEF IInv
  <2> QED BY <2>1, Taken, ThreadTypes DEF IInv, Types, MeetInv, RingInv, MapsInv, Threads
<1>2. PICK e : e = evs[1]
  OBVIOUS
<1>3. e \in Arrivals <=> e.ev = "Message"
  BY <1>1, <1>2, Kinds
<1>4. Settled(local, bound) /\ Among(local, local)
  BY DEF MeetInv, LocalInv, Homely, Settled, Among
<1>5. ASSUME e.ev # "Message"
      PROVE  /\ \A m \in Post(e, Arrivals) : FALSE
             /\ UNCHANGED <<bound, local>> =>
                   /\ \A n \in Nicks : bound'[n] # Unknown => bound'[n] \in held[n]
                   /\ Settled(local', bound') /\ Among(local', local)
  BY <1>1, <1>3, <1>4, <1>5 DEF Post
<1>6. ASSUME NEW n \in Nicks, NEW d \in Dids, d \in held[n]
      PROVE  /\ Settled(Merged(Threads, n, d).local, [bound EXCEPT ![n] = d])
             /\ Among(Merged(Threads, n, d).local, local)
             /\ Merged(Threads, n, d).local[n] = {} /\ Tidy(Merged(Threads, n, d), Ids)
             /\ bound' = [bound EXCEPT ![n] = d] =>
                  \A o \in Nicks : bound'[o] # Unknown => bound'[o] \in held[o]
  <2>1. /\ Settled(Merged(Threads, n, d).local, [bound EXCEPT ![n] = d])
        /\ Among(Merged(Threads, n, d).local, local)
        /\ Merged(Threads, n, d).local[n] = {} /\ Tidy(Merged(Threads, n, d), Ids)
    BY <1>1, <1>4, <1>6, Merging, MergingSettles
  <2>2. bound' = [bound EXCEPT ![n] = d] =>
           \A o \in Nicks : bound'[o] # Unknown => bound'[o] \in held[o]
    BY <1>1, <1>6 DEF IInv, Types
  <2> QED BY <2>1, <2>2
<1>7. ASSUME e.ev # "Message", NEW n \in Nicks, NEW d \in Dids, d \in held[n], Adopt(n, d)
      PROVE  /\ \A o \in Nicks : bound'[o] # Unknown => bound'[o] \in held[o]
             /\ Settled(local', bound') /\ Among(local', local)
  BY <1>6, <1>7 DEF Adopt, SetThreads
<1>8. CASE OnMemberDid
  <2>1. e.ev = "MemberDid" /\ Adopt(e.nick, e.did)
    BY <1>2, <1>8 DEF OnMemberDid, Event
  <2> QED BY <1>1, <1>2, <1>5, <1>7, <2>1 DEF Rings
<1>9. CASE OnJoined
  <2>1. e.ev = "Joined" /\ (UNCHANGED appVars \/ (e.who \in Dids /\ Adopt(e.nick, e.who)))
    BY <1>2, <1>9 DEF OnJoined, Event
  <2> QED BY <1>1, <1>2, <1>5, <1>7, <2>1 DEF Rings, appVars
<1>10. CASE OnUserQuit
  BY <1>2, <1>5, <1>10 DEF OnUserQuit, Event, appVars
<1>11. CASE OnNickChanged
  BY <1>2, <1>5, <1>11 DEF OnNickChanged, Event, appVars
<1>12. CASE OnTarget
  <2> DEFINE t == Merged(Threads, e.nick, e.did)
  <2>1. /\ e.ev = "ChatHistoryTarget" /\ local' = t.local /\ e.nick \in Nicks /\ e.did \in Dids
        /\ bound' = [bound EXCEPT ![e.nick] = e.did]
    <3>1. /\ e.ev = "ChatHistoryTarget" /\ SetThreads([t EXCEPT !.shown = @ \cup {e.did}])
          /\ bound' = [bound EXCEPT ![e.nick] = e.did]
      BY <1>2, <1>12 DEF OnTarget, Event
    <3>2. e.nick \in Nicks /\ e.did \in Dids
      BY <1>1, <1>2, <3>1
    <3>3. Tidy(t, Ids)
      BY <1>1, <3>2, Merging
    <3> HIDE DEF t
    <3> QED BY <3>1, <3>2, <3>3 DEF SetThreads, Tidy
  <2> QED BY <1>1, <1>2, <1>5, <1>6, <2>1 DEF Rings
<1>13. CASE OnMessage
  <2>1. e.ev = "Message" /\ e \in Arrivals /\ e.key \in Keys
    BY <1>1, <1>2, <1>3, <1>13 DEF OnMessage, Event
  <2>2. e.id \in Ids /\ Post(e, Arrivals) = {e.id}
    BY <1>1, <1>2, <2>1 DEF IInv, MailInv, Mail, Post
  <2>3. ~e.mine => said[e.id].from # Unknown
    BY <1>1, <1>2, <2>1 DEF Rings, Who, Keys
  <2>4. \A p : Expected(e.id) /\ e.mine /\ p = said[e.id].to =>
                  Lands(p, e.nick, e.key) /\ Certain(p)
    BY <1>1, <1>2, <2>1 DEF Rings, Expected
  <2>5. PICK t : /\ Tidy(t, Ids) /\ Settled(t.local, bound') /\ Among(t.local, local)
                 /\ SetThreads(Filed(t, e.key, e.id))
                 /\ \A n \in Nicks : bound'[n] # Unknown => bound'[n] \in held[n]
                 /\ IF e.mine /\ e.key \in Dids /\ e.nick \in Nicks
                    THEN bound'[e.nick] = e.key ELSE bound' = bound
    <3>1. CASE /\ e.mine /\ e.key \in Dids /\ e.nick \in Nicks
               /\ bound' = [bound EXCEPT ![e.nick] = e.key]
               /\ SetThreads(Filed(Merged(Threads, e.nick, e.key), e.key, e.id))
      <4>1. e.key \in held[e.nick]
        BY <1>1, <1>2, <2>1, <3>1 DEF Rings
      <4>2. bound'[e.nick] = e.key
        BY <1>1, <3>1
      <4> QED BY <1>6, <3>1, <4>1, <4>2
    <3>2. CASE /\ ~(e.mine /\ e.key \in Dids /\ e.nick \in Nicks)
               /\ bound' = bound /\ SetThreads(Filed(Threads, e.key, e.id))
      BY <1>1, <1>4, <3>2
    <3> QED BY <1>2, <1>13, <3>1, <3>2 DEF OnMessage, CopyFiled
  <2>6. ASSUME NEW j \in Keys, Expected(e.id), e.id \in t.local[j] PROVE j = e.key
    <3>1. PICK p \in Keys : p = said[e.id].to /\ j = KeyBy(bound', p) /\ said[e.id].from = Unknown
      BY <2>5, <2>6 DEF Settled
    <3>2. e.mine /\ Lands(p, e.nick, e.key) /\ Certain(p)
      BY <2>3, <2>4, <2>6, <3>1
    <3>3. CASE p \in Dids
      BY <3>1, <3>2, <3>3 DEF KeyBy, Resolved, Lands, Keys
    <3>4. CASE p \in Nicks /\ e.key \in Dids
      <4>1. e.nick = p /\ p \notin Dids /\ e.key # Unknown
        BY <3>2, <3>4 DEF Lands, Keys
      <4>2. bound'[p] = e.key
        BY <2>5, <3>2, <3>4, <4>1
      <4> QED BY <3>1, <3>4, <4>1, <4>2 DEF KeyBy, Resolved
    <3>5. CASE p \in Nicks /\ e.key \notin Dids
      <4>1. e.nick = p /\ e.key = p
        BY <3>2, <3>5 DEF Lands
      <4>2. Bare(e)
        BY <2>1, <3>2, <3>5, <4>1 DEF Bare
      <4>3. bound[p] = Unknown
        BY <1>1, <1>2, <4>1, <4>2 DEF MeetInv, NamesInv, Orderly
      <4>4. bound' = bound
        BY <2>5, <3>5
      <4> QED BY <3>1, <3>5, <4>1, <4>3, <4>4 DEF KeyBy, Resolved
    <3> QED BY <3>3, <3>4, <3>5 DEF Keys
  <2>7. PICK u : u = Filed(t, e.key, e.id)
    OBVIOUS
  <2>8. /\ Settled(u.local, bound') /\ Among(u.local, t.local)
        /\ Expected(e.id) => \A j \in Keys : e.id \notin u.local[j]
    <3>1. PICK b, ids : b = bound' /\ ids = Ids
      OBVIOUS
    <3>2. /\ Tidy(t, ids) /\ Settled(t.local, b) /\ e.key \in Keys /\ e.id \in ids
          /\ \A j \in Keys : Expected(e.id) /\ e.id \in t.local[j] => j = e.key
      BY <2>1, <2>2, <2>5, <2>6, <3>1
    <3>3. /\ Settled(u.local, b) /\ Among(u.local, t.local)
          /\ Expected(e.id) => \A j \in Keys : e.id \notin u.local[j]
      BY <2>7, <3>2, FilingMeets
    <3> QED BY <3>1, <3>3
  <2>9. local' = u.local
    BY <2>5, <2>7 DEF SetThreads
  <2> QED BY <1>2, <2>2, <2>5, <2>8, <2>9 DEF Among
<1> QED BY <1>8, <1>9, <1>10, <1>11, <1>12, <1>13 DEF Handle

\* What an event binds the SDK has named.
LEMMA HandleNames ==
    ASSUME IInv, MeetInv, Handle,
           UNCHANGED <<addr, disp, online, wire, held, said, seen>>
    PROVE  NamesInv'
<1> USE EventFields, NamesAssumption
<1>1. /\ evs # <<>> /\ evs' = Tail(evs) /\ evs[1] \in Events /\ evs \in Seq(Events)
      /\ 1 \in 1..Len(evs) /\ Types /\ NamesInv /\ Marked(evs[1])
  <2>1. evs # <<>> /\ evs' = Tail(evs)
    BY HandleArranges DEF IInv
  <2>2. 1 \in 1..Len(evs) /\ evs[1] \in Events
    BY <2>1, Taken DEF IInv, Types
  <2> QED BY <2>1, <2>2 DEF IInv, Types, MeetInv, NamesInv, Orderly
<1>2. PICK e : e = evs[1]
  OBVIOUS
<1>3. \A n \in Nicks, d \in Dids :
         LET t == Merged(Threads, n, d) IN t.shown \subseteq shown \cup {d}
  BY DEF Merged, Threads
<1>4. /\ \A n \in Nicks, d \in Dids : bound'[n] = d => bound[n] = d \/ Binds(e, n, d)
      /\ \A n \in Nicks : bound'[n] # bound[n] => \E d \in Dids : Binds(e, n, d)
      /\ \A d \in Dids : d \in shown' => d \in shown \/ d \in Told(e)
  <2>1. ASSUME NEW x \in Nicks, NEW w \in Dids, Binds(e, x, w), bound' = [bound EXCEPT ![x] = w],
               shown' \subseteq shown \cup {w} \cup Nicks
        PROVE  <1>4
    BY <1>1, <2>1 DEF Types, Binds, Keys
  <2>2. ASSUME NEW x \in Nicks, NEW w \in Dids, Adopt(x, w)
        PROVE  bound' = [bound EXCEPT ![x] = w] /\ shown' \subseteq shown \cup {w} \cup Nicks
    BY <1>3, <2>2 DEF Adopt, SetThreads
  <2>3. CASE OnMemberDid
    <3>1. e.ev = "MemberDid" /\ Adopt(e.nick, e.did) /\ e.nick \in Nicks /\ e.did \in Dids
      BY <1>1, <1>2, <2>3 DEF OnMemberDid, Event
    <3>2. Binds(e, e.nick, e.did)
      BY <3>1 DEF Binds, Told
    <3> QED BY <2>1, <2>2, <3>1, <3>2
  <2>4. CASE OnJoined
    <3>1. e.ev = "Joined" /\ e.nick \in Nicks
          /\ ((e.who \in Dids /\ Adopt(e.nick, e.who)) \/ UNCHANGED appVars)
      BY <1>1, <1>2, <2>4 DEF OnJoined, Event
    <3>2. e.who \in Dids => Binds(e, e.nick, e.who)
      BY <3>1 DEF Binds, Told
    <3>3. CASE UNCHANGED appVars
      BY <1>1, <3>3 DEF appVars
    <3> QED BY <2>1, <2>2, <3>1, <3>2, <3>3
  <2>5. CASE OnUserQuit \/ OnNickChanged
    BY <2>5 DEF OnUserQuit, OnNickChanged, appVars
  <2>6. CASE OnTarget
    <3>1. /\ e.ev = "ChatHistoryTarget" /\ e.nick \in Nicks /\ e.did \in Dids
          /\ SetThreads([Merged(Threads, e.nick, e.did) EXCEPT !.shown = @ \cup {e.did}])
          /\ bound' = [bound EXCEPT ![e.nick] = e.did]
      BY <1>1, <1>2, <2>6 DEF OnTarget, Event
    <3>2. Binds(e, e.nick, e.did)
      BY <3>1 DEF Binds, Told
    <3>3. PICK t : t = Merged(Threads, e.nick, e.did)
      OBVIOUS
    <3>4. Tidy(t, Ids)
      <4>1. Tidy(Threads, Ids)
        BY <1>1, ThreadTypes
      <4> QED BY <3>1, <3>3, <4>1, Merging
    <3>5. shown' = t.shown \cup {e.did}
      BY <3>1, <3>3, <3>4 DEF SetThreads, Tidy
    <3>6. shown' \subseteq shown \cup {e.did} \cup Nicks
      BY <1>3, <3>1, <3>3, <3>5
    <3> QED BY <2>1, <3>1, <3>2, <3>6
  <2>7. CASE OnMessage
    <3>1. e.ev = "Message" /\ e.key \in Keys /\ e.nick \in Keys /\ Tidy(Threads, Ids)
      BY <1>1, <1>2, <2>7, ThreadTypes DEF OnMessage, Event
    <3>2. e.key \in Dids => e.key \in Told(e)
      BY <3>1 DEF Told
    <3>3. \A t : Tidy(t, Ids) /\ SetThreads(Filed(t, e.key, e.id)) => shown' = t.shown \cup {e.key}
      BY DEF Filed, SetThreads, Tidy
    <3>4. CASE /\ e.mine /\ e.key \in Dids /\ e.nick \in Nicks
               /\ bound' = [bound EXCEPT ![e.nick] = e.key]
               /\ SetThreads(Filed(Merged(Threads, e.nick, e.key), e.key, e.id))
      <4>1. PICK t : t = Merged(Threads, e.nick, e.key)
        OBVIOUS
      <4>2. Tidy(t, Ids) /\ t.shown \subseteq shown \cup {e.key}
        BY <1>3, <3>1, <3>4, <4>1, Merging
      <4>3. shown' \subseteq shown \cup {e.key} \cup Nicks
        BY <3>3, <3>4, <4>1, <4>2
      <4>4. Binds(e, e.nick, e.key)
        BY <3>1, <3>2, <3>4 DEF Binds
      <4> QED BY <2>1, <3>4, <4>3, <4>4
    <3>5. CASE bound' = bound /\ SetThreads(Filed(Threads, e.key, e.id))
      <4>1. shown' = shown \cup {e.key}
        BY <3>1, <3>3, <3>5 DEF Threads
      <4> QED BY <1>1, <3>1, <3>2, <3>5, <4>1 DEF Types
    <3> QED BY <1>2, <2>7, <3>4, <3>5 DEF OnMessage, CopyFiled
  <2> QED BY <2>3, <2>4, <2>5, <2>6, <2>7 DEF Handle
<1>5. /\ \A d : Known(d)' = Known(d)
      /\ \A n, d : Dubbed(n, d)' = Dubbed(n, d)
      /\ \A x : Told(x)' = Told(x)
      /\ \A x, n, d : Binds(x, n, d)' = Binds(x, n, d)
      /\ \A x : Bare(x)' = Bare(x)
  BY DEF Known, Dubbed, Certain, Told, Binds, Bare
<1>6. \A x : Marked(x)' = Marked(x)
  BY <1>5 DEF Marked
<1>7. \A n \in Nicks, d \in Dids : addr'[n] = d \/ bound'[n] = d => Known(d)' /\ Dubbed(n, d)'
  <2>1. \A n \in Nicks, d \in Dids : Binds(e, n, d) => Known(d) /\ Dubbed(n, d)
    BY <1>1, <1>2 DEF Marked, Binds
  <2> QED BY <1>1, <1>4, <1>5, <2>1 DEF NamesInv
<1>8. \A d \in Dids : d \in shown' \/ (\E m \in Ids' : said'[m].to = d) => Known(d)'
  <2>1. \A d \in Told(e) : Known(d)
    BY <1>1, <1>2 DEF Marked
  <2> QED BY <1>1, <1>4, <1>5, <2>1 DEF NamesInv, Ids
<1>9. Orderly(evs)'
  <2>1. PICK r : r = evs'
    OBVIOUS
  <2>2. /\ Len(evs) \in Nat /\ Len(r) = Len(evs) - 1
        /\ \A i \in 1..Len(r) : r[i] = evs[i + 1] /\ i + 1 \in 1..Len(evs)
    BY <1>1, <2>1, Taken
  <2>3. ASSUME NEW i \in 1..Len(r) PROVE Marked(r[i])'
    BY <1>1, <1>6, <2>2, <2>3 DEF NamesInv, Orderly
  <2>4. ASSUME NEW i \in 1..Len(r), Bare(r[i])
        PROVE  /\ bound'[r[i].nick] = Unknown
               /\ \A j \in 1..Len(r) : j < i => \A d \in Dids : ~Binds(r[j], r[i].nick, d)
    <3>1. /\ bound[r[i].nick] = Unknown /\ r[i].nick \in Nicks
          /\ \A j \in 1..Len(evs) : j < i + 1 => \A d \in Dids : ~Binds(evs[j], r[i].nick, d)
      <4>1. Bare(evs[i + 1]) /\ i + 1 \in 1..Len(evs) /\ r[i] = evs[i + 1]
        BY <2>2, <2>4
      <4>2. Orderly(evs)
        BY <1>1 DEF NamesInv
      <4> QED BY <4>1, <4>2 DEF Orderly, Bare
    <3>2. 1 < i + 1 /\ \A j \in 1..Len(r) : j < i => j + 1 < i + 1
      BY <2>2
    <3>3. \A d \in Dids : ~Binds(e, r[i].nick, d)
      BY <1>1, <1>2, <3>1, <3>2
    <3>4. bound'[r[i].nick] = Unknown
      BY <1>4, <3>1, <3>3
    <3>5. ASSUME NEW j \in 1..Len(r), j < i, NEW d \in Dids PROVE ~Binds(r[j], r[i].nick, d)
      BY <2>2, <3>1, <3>2, <3>5
    <3> QED BY <3>4, <3>5
  <2> QED BY <1>5, <2>1, <2>3, <2>4 DEF Orderly
<1>10. Copied(wire)'
  BY <1>1, <1>5 DEF NamesInv, Copied
<1> QED BY <1>1, <1>5, <1>7, <1>8, <1>9, <1>10 DEF NamesInv, Known

LEMMA HandleMeets ==
    ASSUME IInv, MeetInv, Handle
    PROVE  MeetInv'
<1>1. /\ evs # <<>> /\ evs' = Tail(evs) /\ EventKeeps
  BY HandleArranges DEF IInv
<1>2. /\ UNCHANGED <<addr, disp, cmds, online, wire, owner, held, said, spent, budget, seen,
                     refused, routes>>
      /\ Grows
  BY <1>1 DEF EventKeeps, sdkVars, serverVars, historyVars, Grows
<1>3. HeldInv' /\ CmdsInv' /\ TaleInv' /\ NamesInv'
  BY <1>2, PartsStay, HandleNames DEF MeetInv, HeldInv, Single
<1>4. MapsInv'
  BY <1>2, HandleSettles DEF MeetInv, MapsInv, KnownInv
<1>5. RingInv'
  <2>1. \A i \in 1..Len(evs') : \E j \in 1..Len(evs) : evs'[i] = evs[j]
    BY <1>1, Taken DEF IInv, Types
  <2>2. \A x : Rings(x)' = Rings(x)
    BY <1>2 DEF Rings, Expected, Certain, Lands
  <2>3. ASSUME NEW i \in 1..Len(evs') PROVE Rings(evs[i])'
    <3>1. PICK x : x = evs'[i] /\ Rings(x)
      BY <2>1 DEF MeetInv, RingInv
    <3> QED BY <2>2, <3>1
  <2> QED BY <2>3 DEF RingInv
<1>6. LocalInv'
  <2>1. Filing' = Filing \cup Post(evs[1], Arrivals)
    <3>1. PICK t : Arranged(t)
      BY HandleArranges DEF IInv
    <3>2. Kept(rows') = Kept(rows) \cup Post(evs[1], Arrivals)
      BY <3>1 DEF Arranged, SetThreads
    <3> QED BY <3>2 DEF Kept, Filing
  <2>2. ASSUME NEW k \in Keys, NEW m \in local'[k] PROVE Homely(m, k)'
    <3>1. PICK j \in Keys : m \in local[j]
      BY <2>2, HandleSettles DEF Among
    <3>2. m \in Ids /\ Homely(m, j)
      BY <3>1 DEF IInv, Types, MeetInv, LocalInv
    <3>3. Settled(local', bound')
      BY HandleSettles
    <3>4. Expected(m) => m \notin Filing'
      BY <2>1, <2>2, <3>2, HandleSettles DEF Homely
    <3>5. Expected(m)' => Expected(m)
      BY <1>2, <3>2, GrowsMore
    <3>6. /\ said[m].from = Unknown /\ said[m].to \in Keys
          /\ Expected(m) => k = KeyBy(bound', said[m].to)
      BY <2>2, <3>3 DEF Settled
    <3> QED BY <1>2, <3>4, <3>5, <3>6 DEF Homely, KeyBy
  <2> QED BY <2>2 DEF LocalInv
<1> QED BY <1>3, <1>4, <1>5, <1>6 DEF MeetInv

\* The server sends the copy of an expected message with the nick of its peer.
LEMMA CopyAnswers ==
    ASSUME Types, SdkNeverStale, HeldInv, Within(seen), NEW p \in Keys, Certain(p),
           NEW n \in Reached(WireTarget(p)), NEW v \in Views, Fitting(v)
    PROVE  Answers(p, n, v)
<1> USE NamesAssumption DEF Types, Who, Keys
<1>1. CASE p \in Dids
  <2>1. WireTarget(p) = p
    BY <1>1 DEF WireTarget, Resolved
  <2>2. n \in Nicks /\ owner[n] = p /\ p \in held[n]
    <3>1. n \in Nicks /\ owner[n] = p
      BY <1>1, <2>1 DEF Reached
    <3> QED BY <1>1, <3>1 DEF HeldInv
  <2>3. v[n] = p \/ (v[n] = Unknown /\ Blurred(p))
    BY <2>2 DEF Fitting
  <2>4. Blurred(p) => Unknown \in held[n]
    BY <1>1, <2>2 DEF Certain, Blurred
  <2> QED BY <1>1, <2>2, <2>3, <2>4 DEF Answers
<1>2. CASE p \in Nicks
  <2>1. CASE addr[p] = Unknown
    <3>1. WireTarget(p) = p
      BY <1>2, <2>1 DEF WireTarget, Resolved
    <3> QED BY <1>2, <3>1 DEF Reached, Answers
  <2>2. CASE addr[p] # Unknown
    <3>1. PICK d \in Dids : d = addr[p] /\ d = seen[p] /\ WireTarget(p) = d
      BY <1>2, <2>2 DEF WireTarget, Resolved, SdkNeverStale
    <3>2. d \in held[p] /\ d \in Who
      BY <1>2, <3>1 DEF Within
    <3>3. n \in Nicks /\ owner[n] = d /\ d \in held[n]
      <4>1. n \in Nicks /\ owner[n] = d
        BY <3>1 DEF Reached
      <4> QED BY <4>1 DEF HeldInv
    <3>4. CASE d = owner[p]
      <4>1. n = p
        BY <1>2, <3>3, <3>4 DEF HeldInv, Single
      <4> QED BY <1>2, <4>1 DEF Answers
    <3>5. CASE d # owner[p]
      <4>1. Nobody \in held[p]
        BY <1>2, <3>2, <3>5 DEF HeldInv
      <4>2. n = p
        BY <1>2, <3>2, <3>3, <4>1 DEF Certain
      <4> QED BY <1>2, <4>2 DEF Answers
    <3> QED BY <3>4, <3>5
  <2> QED BY <2>1, <2>2
<1> QED BY <1>1, <1>2

LEMMA ExecuteMeets ==
    ASSUME IInv, MeetInv, Execute
    PROVE  MeetInv'
<1> USE NamesAssumption
<1>1. /\ UNCHANGED <<addr, disp, bound, shown, rows, local, open, evs, online, owner, held, said,
                     spent, budget, seen, met, chosen>>
      /\ cmds # <<>> /\ cmds' = Tail(cmds) /\ cmds[1] \in Commands /\ refused \subseteq refused'
  BY ExecuteSends DEF Execute, sdkVars, appVars, serverVars, IInv
<1>2. Grows /\ online /\ Types /\ SdkNeverStale /\ HeldInv /\ TaleInv
  BY <1>1 DEF Grows, IInv, OfflineQuiet, MeetInv
<1>3. /\ HeldInv' /\ MapsInv' /\ RingInv' /\ LocalInv' /\ (wire' = wire => TaleInv')
      /\ Copied(wire') => NamesInv'
  <2>1. HeldInv' /\ MapsInv' /\ RingInv' /\ LocalInv' /\ (wire' = wire => TaleInv')
    BY <1>1, <1>2, PartsStay DEF MeetInv, HeldInv, MapsInv, KnownInv, Single
  <2> QED BY <1>1, <1>2, <2>1, NamesStay DEF Ids
<1>k. /\ wire' = wire => Copied(wire')
      /\ \A l \in Lines : wire' = Append(wire, l) /\ (l.cmd = "ECHO" /\ l.nick \in Dids
                                                      => Known(l.nick)) => Copied(wire')
  <2>1. Copied(wire)
    BY DEF MeetInv, NamesInv
  <2>2. ASSUME NEW l \in Lines, wire' = Append(wire, l),
               l.cmd = "ECHO" /\ l.nick \in Dids => Known(l.nick)
        PROVE  Copied(wire')
    <3>1. \A i \in 1..Len(wire') : wire'[i] = l \/ \E j \in 1..Len(wire) : wire'[i] = wire[j]
      BY <1>2, <2>2, Added DEF Types
    <3> QED BY <2>1, <2>2, <3>1 DEF Copied
  <2> QED BY <2>1, <2>2
<1>4. CmdsInv'
  <2>1. \A i \in 1..Len(cmds') : \E j \in 1..Len(cmds) : cmds'[i] = cmds[j]
    BY <1>1, <1>2, Taken DEF Types
  <2> QED BY <1>1, <2>1 DEF MeetInv, CmdsInv
<1>5. Within(seen)
  <2>1. PICK h \in [0..Len(wire) -> Views] : Tale(h)
    BY <1>2 DEF TaleInv
  <2>2. Len(wire) \in Nat
    BY <1>2 DEF Types
  <2>3. 0 \in 0..Len(wire)
    BY <2>2
  <2> QED BY <2>1, <2>3 DEF Tale
<1>6. \A v : /\ Within(v)' = Within(v) /\ Fitting(v)' = Fitting(v)
             /\ \A p : Certain(p)' = Certain(p)
             /\ \A p, n : Answers(p, n, v)' = Answers(p, n, v)
  BY <1>1 DEF Within, Fitting, Blurred, Certain, Answers
<1>7. PICK c \in Commands : c = cmds[1]
  BY <1>1
<1>8. CASE c.cmd = "Whois"
  <2>1. c.to \in Nicks
    BY <1>8, CommandFields
  <2>2. CASE owner[c.to] \in Dids
    <3>1. PICK l : l = [cmd |-> "330", nick |-> c.to, who |-> owner[c.to]]
      OBVIOUS
    <3>2. l \in Lines /\ wire' = Append(wire, l)
      BY <1>7, <1>8, <2>1, <2>2, <3>1 DEF Execute, Lines
    <3>3. ASSUME NEW v \in Views, Fitting(v), Within(v)
          PROVE  \E v2 \in Views : /\ Shows(v, l, v2) /\ Heard(l, v2)'
                                   /\ Within(v2)' /\ Fitting(v2)'
      <4>1. PICK v2 \in Views : v2 = [v EXCEPT ![c.to] = owner[c.to]]
        BY <2>1, <2>2 DEF Views, Owners, Who
      <4>2. Shows(v, l, v2)
        BY <2>1, <3>1, <3>3, <4>1 DEF Shows, Fitting
      <4>3. v2[c.to] = owner[c.to] /\ \A o \in Nicks \ {c.to} : v2[o] = v[o]
        BY <2>1, <4>1 DEF Views
      <4>4. Fitting(v2) /\ Within(v2)
        BY <1>2, <2>1, <2>2, <3>3, <4>3 DEF Fitting, Within, HeldInv, Keys
      <4>5. Heard(l, v2)'
        BY <3>1 DEF Heard
      <4> QED BY <1>6, <4>2, <4>4, <4>5
    <3>4. TaleInv' /\ NamesInv'
      BY <1>1, <1>2, <1>3, <1>k, <3>1, <3>2, <3>3, TaleTold
    <3> QED BY <1>3, <1>4, <3>4 DEF MeetInv
  <2>3. CASE owner[c.to] \notin Dids
    <3>1. wire' = wire
      BY <1>7, <1>8, <2>3 DEF Execute
    <3> QED BY <1>3, <1>4, <1>k, <3>1 DEF MeetInv
  <2> QED BY <2>2, <2>3
<1>9. CASE c.cmd = "Privmsg"
  <2>1. c.to \in Keys /\ c.id \in Nat /\ said[c.id].to = c.to
    <3>1. 1 \in 1..Len(cmds)
      BY <1>1, <1>2, Taken DEF Types
    <3> QED BY <1>7, <1>9, <3>1, CommandFields DEF MeetInv, CmdsInv
  <2>2. PICK to : to = WireTarget(c.to)
    OBVIOUS
  <2>3. to \in Keys
    BY <1>2, <2>1, <2>2, KeyTypes DEF WireTarget, Types
  <2>4. \/ /\ refused' = refused
           /\ \E n \in Reached(to) : wire' = Append(wire, [cmd |-> "ECHO", nick |-> n, id |-> c.id])
        \/ /\ refused' = refused \cup {c.id}
           /\ \/ wire' = wire
              \/ wire' = Append(wire, [cmd |-> "ECHO", nick |-> to, id |-> c.id])
    BY <1>7, <1>9, <2>2 DEF Execute
  <2>5. ASSUME NEW n \in Keys, wire' = Append(wire, [cmd |-> "ECHO", nick |-> n, id |-> c.id]),
               \A v \in Views : Fitting(v) /\ Expected(c.id)' => Answers(c.to, n, v),
               n \in Dids => Known(n)
        PROVE  TaleInv' /\ NamesInv'
    <3>1. PICK l : l = [cmd |-> "ECHO", nick |-> n, id |-> c.id]
      OBVIOUS
    <3>2. l \in Lines /\ wire' = Append(wire, l)
      BY <2>1, <2>5, <3>1 DEF Lines, Letters
    <3>3. ASSUME NEW v \in Views, Fitting(v), Within(v)
          PROVE  \E v2 \in Views : /\ Shows(v, l, v2) /\ Heard(l, v2)'
                                   /\ Within(v2)' /\ Fitting(v2)'
      <4>1. Shows(v, l, v)
        BY <3>1 DEF Shows
      <4>2. Heard(l, v)'
        <5>1. l.cmd = "ECHO" /\ l.id = c.id /\ l.nick = n /\ said'[c.id].to = c.to
          BY <1>1, <2>1, <3>1
        <5>2. Expected(c.id)' => Answers(c.to, n, v)
          BY <2>5, <3>3
        <5>3. PICK q : q = said[l.id].to
          OBVIOUS
        <5>4. Expected(l.id)' => Answers(q, l.nick, v)'
          BY <1>1, <1>6, <2>1, <5>1, <5>2, <5>3
        <5> QED BY <1>1, <5>1, <5>3, <5>4 DEF Heard, Answers
      <4> QED BY <1>6, <3>3, <4>1, <4>2
    <3>4. TaleInv'
      BY <1>1, <1>2, <1>3, <3>2, <3>3, TaleTold
    <3>5. l.nick = n
      BY <3>1
    <3> QED BY <1>3, <1>k, <2>5, <3>2, <3>4, <3>5
  <2>6. CASE /\ refused' = refused
             /\ \E n \in Reached(to) :
                   wire' = Append(wire, [cmd |-> "ECHO", nick |-> n, id |-> c.id])
    <3>1. PICK n \in Reached(to) : wire' = Append(wire, [cmd |-> "ECHO", nick |-> n, id |-> c.id])
      BY <2>6
    <3>2. n \in Keys /\ n \notin Dids
      BY <2>3, <3>1 DEF Reached, Keys
    <3>3. \A v \in Views : Fitting(v) /\ Expected(c.id)' => Answers(c.to, n, v)
      BY <1>1, <1>2, <1>5, <1>6, <2>1, <2>2, CopyAnswers DEF Expected
    <3>4. TaleInv' /\ NamesInv'
      BY <2>5, <3>1, <3>2, <3>3
    <3> QED BY <1>3, <1>4, <3>4 DEF MeetInv
  <2>7. CASE /\ refused' = refused \cup {c.id}
             /\ \/ wire' = wire
                \/ wire' = Append(wire, [cmd |-> "ECHO", nick |-> to, id |-> c.id])
    <3>1. ~Expected(c.id)'
      BY <2>7 DEF Expected
    <3>2. to \in Dids => Known(to)
      <4>1. c.to \in Nicks => to = c.to \/ to = addr[c.to]
        BY <2>2 DEF WireTarget, Resolved
      <4>2. c.to \in Dids => to = c.to
        BY <2>2 DEF WireTarget, Resolved
      <4>3. c.id \in Ids
        BY <1>1, <1>7, <1>9, <1>2, Taken, MailIds DEF Types
      <4> QED BY <2>1, <4>1, <4>2, <4>3 DEF MeetInv, NamesInv, Keys
    <3>3. TaleInv' /\ NamesInv'
      BY <1>3, <1>k, <2>3, <2>5, <2>7, <3>1, <3>2
    <3> QED BY <1>3, <1>4, <3>3 DEF MeetInv
  <2> QED BY <2>4, <2>6, <2>7
<1> QED BY <1>8, <1>9, CommandFields

\* The user looks at people and threads.
LEMMA LookMeets ==
    ASSUME IInv, MeetInv,
           \/ \E n \in Nicks : OpenProfile(n) \/ MessageNick(n)
           \/ \E k \in Keys : OpenThread(k)
    PROVE  MeetInv'
<1> USE NamesAssumption
<1>1. /\ UNCHANGED <<addr, disp, bound, rows, local, evs, online, wire, owner, held, said, budget,
                     seen, refused>>
      /\ cmds' = cmds \/ \E n \in Nicks : cmds' = Append(cmds, [cmd |-> "Whois", to |-> n])
  BY DEF OpenProfile, MessageNick, OpenThread, ClickKeeps, sdkVars, appVars, serverVars,
         historyVars
<1>2. Grows
  BY <1>1 DEF Grows
<1>3. HeldInv' /\ MapsInv' /\ RingInv' /\ LocalInv' /\ TaleInv' /\ (cmds' = cmds => CmdsInv')
  BY <1>1, <1>2, PartsStay DEF MeetInv, HeldInv, Single, MapsInv, KnownInv
<1>4. ASSUME NEW n \in Nicks, cmds' = Append(cmds, [cmd |-> "Whois", to |-> n]) PROVE CmdsInv'
  <2>1. PICK c : c = [cmd |-> "Whois", to |-> n]
    OBVIOUS
  <2>2. c \in Commands /\ cmds' = Append(cmds, c) /\ cmds \in Seq(Commands)
    BY <1>4, <2>1 DEF Commands, IInv, Types
  <2>3. \A i \in 1..Len(cmds') : cmds'[i] = c \/ \E j \in 1..Len(cmds) : cmds'[i] = cmds[j]
    BY <2>2, Added
  <2>4. \A i \in 1..Len(cmds') : cmds'[i].cmd = "Privmsg" => said[cmds'[i].id].to = cmds'[i].to
    BY <2>1, <2>3 DEF MeetInv, CmdsInv
  <2> QED BY <1>1, <2>4 DEF CmdsInv
<1>5. NamesInv'
  <2>1. \A d \in Dids : d \in shown' => d \in shown \/ \E n \in Nicks : bound[n] = d
    <3>1. \A p \in Keys, d \in Dids : BufferKey(p) = d => p = d \/ \E n \in Nicks : bound[n] = d
      BY DEF BufferKey, Resolved
    <3>2. shown' = shown \/ \E p \in Nicks \cup shown : shown' = shown \cup {BufferKey(p)}
      BY DEF OpenProfile, MessageNick, OpenThread, appVars
    <3>3. shown \subseteq Keys /\ Nicks \subseteq Keys /\ \A d \in Dids : d \notin Nicks
      BY DEF IInv, Types, Keys
    <3> QED BY <3>1, <3>2, <3>3
  <2>2. Copied(wire')
    BY <1>1 DEF MeetInv, NamesInv, Copied
  <2>3. Ids' = Ids
    BY <1>1 DEF Ids
  <2> QED BY <1>1, <1>2, <2>1, <2>2, <2>3, NamesStay
<1> QED BY <1>1, <1>3, <1>4, <1>5 DEF MeetInv

LEMMA SendMeets ==
    ASSUME IInv, MeetInv, Send
    PROVE  MeetInv'
<1> USE NamesAssumption
<1> DEFINE m == Len(said) + 1
           r == [from |-> Unknown, to |-> open, route |-> chosen]
           c == [cmd |-> "Privmsg", to |-> open, id |-> m]
           k == BufferKey(open)
<1>1. /\ UNCHANGED <<addr, disp, bound, rows, open, chosen, evs, online, wire, owner, held, spent,
                     budget, seen, met, routes>>
      /\ open # Unknown /\ said' = Append(said, r)
      /\ local' = [local EXCEPT ![k] = @ \cup {m}] /\ shown' = shown \cup {k}
      /\ cmds' = cmds \/ cmds' = Append(cmds, c)
      /\ refused \subseteq refused'
  BY DEF Send, sdkVars, serverVars
<1>2. open \in Keys /\ open \in shown /\ k \in Keys /\ Types /\ cmds \in Seq(Commands)
      /\ local \in [Keys -> SUBSET Ids]
  BY <1>1, KeyOf DEF IInv, Types
<1>3. k = KeyBy(bound, open)
  BY DEF BufferKey, KeyBy
<1>4. r \in [from : Who \cup {Unknown}, to : Keys \cup {Unknown}, route : Route]
  BY <1>2 DEF Types
<1>5. PICK k0 \in Keys : k0 = k
  BY <1>2
<1> HIDE DEF r, k
<1>6. m \in Nat /\ m \notin Ids /\ said'[m] = r /\ (\A x \in Ids : said'[x] = said[x])
      /\ Ids' = Ids \cup {m}
  BY <1>1, <1>2, <1>4, Saying
<1>7. Grows
  BY <1>1, <1>6 DEF Grows
<1>8. HeldInv' /\ MapsInv' /\ RingInv' /\ TaleInv' /\ (cmds' = cmds => CmdsInv')
  BY <1>1, <1>7, PartsStay DEF MeetInv, HeldInv, Single, MapsInv, KnownInv
<1>9. PICK m0 : m0 = m
  OBVIOUS
<1> HIDE DEF m
<1>10. ASSUME cmds' = Append(cmds, c) PROVE CmdsInv'
  <2>1. PICK c0 : c0 = c
    OBVIOUS
  <2>2. c0 \in Commands /\ c0.id = m /\ c0.to = open
    BY <1>2, <1>6, <2>1 DEF Commands, Sendings
  <2>3. said'[c0.id].to = c0.to
    BY <1>6, <2>2 DEF r
  <2>4. \A i \in 1..Len(cmds') : cmds'[i] = c0 \/ \E j \in 1..Len(cmds) : cmds'[i] = cmds[j]
    BY <1>2, <1>10, <2>1, <2>2, Added
  <2>5. \A j \in 1..Len(cmds) : cmds[j].cmd = "Privmsg" => said'[cmds[j].id].to = cmds[j].to
    BY <1>6, MailIds DEF MeetInv, CmdsInv
  <2> QED BY <2>3, <2>4, <2>5 DEF CmdsInv
<1>11. LocalInv'
  <2>1. Filing' = Filing /\ Filing \subseteq Ids
    BY <1>1, <1>2 DEF Filing, Types
  <2>2. \A j \in Keys : \A x \in local'[j] : x \in local[j] \/ (j = k0 /\ x = m0)
    BY <1>1, <1>2, <1>5, <1>9
  <2>3. ASSUME NEW j \in Keys, NEW x \in local[j] PROVE Homely(x, j)'
    <3>1. x \in Ids /\ Homely(x, j)
      BY <1>2, <2>3 DEF MeetInv, LocalInv
    <3> QED BY <1>1, <1>7, <2>1, <3>1, HomelyStill
  <2>4. Homely(m0, k0)'
    <3>1. PICK p : p = open
      OBVIOUS
    <3>2. said'[m0].from = Unknown /\ said'[m0].to = p /\ p \in Keys
      BY <1>2, <1>6, <1>9, <3>1 DEF r
    <3>3. k0 = KeyBy(bound', p)
      BY <1>1, <1>3, <1>5, <3>1
    <3>4. m0 \notin Filing'
      BY <1>6, <1>9, <2>1
    <3> QED BY <3>2, <3>3, <3>4 DEF Homely
  <2> QED BY <2>2, <2>3, <2>4 DEF LocalInv
<1>12. NamesInv'
  <2>1. ASSUME NEW d \in Dids, d \in shown' PROVE d \in shown \/ \E n \in Nicks : bound[n] = d
    <3>1. d \in shown \/ d = KeyBy(bound, open)
      BY <1>1, <1>3, <2>1
    <3> QED BY <1>2, <3>1 DEF KeyBy, Resolved
  <2>2. Copied(wire')
    BY <1>1 DEF MeetInv, NamesInv, Copied
  <2>3. ASSUME NEW d \in Dids, NEW x \in Ids', said'[x].to = d
        PROVE  d \in shown \/ \E y \in Ids : said[y].to = d
    <3>1. CASE x = m
      BY <1>2, <1>6, <2>3, <3>1 DEF r
    <3>2. CASE x \in Ids
      BY <1>6, <2>3, <3>2
    <3> QED BY <1>6, <3>1, <3>2
  <2> QED BY <1>1, <1>7, <2>1, <2>2, <2>3, NamesStay
<1> QED BY <1>1, <1>8, <1>10, <1>11, <1>12 DEF MeetInv

\* A line without a message names nobody on the wire.
LEMMA CopiedMore ==
    ASSUME Types, Copied(wire), UNCHANGED disp, NEW l \in Lines, l.cmd # "ECHO",
           wire' = wire \/ wire' = Append(wire, l)
    PROVE  Copied(wire')
<1>1. CASE wire' = wire
  BY <1>1
<1>2. CASE wire' = Append(wire, l)
  <2>1. \A i \in 1..Len(wire') : wire'[i] = l \/ \E j \in 1..Len(wire) : wire'[i] = wire[j]
    BY <1>2, Added DEF Types
  <2> QED BY <2>1 DEF Copied
<1> QED BY <1>1, <1>2

\* People come, go and change their nicks, and more is known of who had them.
LEMMA MovingMeets ==
    ASSUME IInv, MeetInv, NEW l \in Lines, l.cmd \in {"JOIN", "QUIT", "NICK"}, Tells(l),
           OutsideKeeps, said' = said, Grows, HeldInv',
           l.cmd \in {"QUIT", "NICK"} => Nobody \in held'[l.nick],
           \A v \in Views : Fitting(v) /\ Within(v) =>
              \E v2 \in Views : Shows(v, l, v2) /\ Within(v2)' /\ Fitting(v2)'
    PROVE  MeetInv'
<1>1. UNCHANGED <<addr, disp, bound, shown, rows, local, open, cmds, evs, online, budget,
                  seen, met, chosen, refused, routes, said>>
  BY DEF OutsideKeeps, sdkVars, appVars, historyVars
<1>2. RingInv' /\ LocalInv' /\ CmdsInv'
  BY <1>1, PartsStay
<1>3. MapsInv'
  BY <1>1 DEF IInv, Types, MeetInv, MapsInv, KnownInv, Grows
<1>4. TaleInv'
  <2>1. CASE online
    <3>1. wire' = Append(wire, l)
      BY <2>1 DEF Tells
    <3>2. \A v2 : Heard(l, v2)'
      BY DEF Heard
    <3> QED BY <1>1, <2>1, <3>1, <3>2, TaleTold DEF MeetInv
  <2>2. CASE ~online
    BY <1>1, <2>2 DEF TaleInv
  <2> QED BY <2>1, <2>2
<1>5. NamesInv'
  <2>1. wire' = wire \/ wire' = Append(wire, l)
    BY DEF Tells
  <2>2. Copied(wire')
    BY <1>1, <2>1, CopiedMore DEF IInv, MeetInv, NamesInv
  <2>3. Ids' = Ids
    BY <1>1 DEF Ids
  <2> QED BY <1>1, <2>2, <2>3, NamesStay
<1> QED BY <1>2, <1>3, <1>4, <1>5 DEF MeetInv

LEMMA MoveMeets ==
    ASSUME IInv, MeetInv, NEW n \in Nicks, NEW o \in Nicks, NEW w \in Who,
           Leave(n) \/ Arrive(n, w) \/ ChangeNick(n, o)
    PROVE  MeetInv'
<1> USE NamesAssumption DEF Who, Keys
<1>1. /\ owner \in [Nicks -> Who \cup {Nobody}] /\ HeldInv
      /\ held \in [Nicks -> SUBSET (Who \cup {Unknown, Nobody})]
      /\ budget.past \subseteq Nicks \X Dids
  BY DEF IInv, Types, MeetInv, HeldInv
<1>2. OutsideKeeps /\ said' = said /\ UNCHANGED <<budget, refused>>
  BY DEF Leave, Arrive, ChangeNick, OutsideKeeps, historyVars
<1>3. CASE Leave(n)
  <2>1. PICK l : l = [cmd |-> "QUIT", nick |-> n]
    OBVIOUS
  <2>2. l \in Lines /\ l.cmd = "QUIT" /\ l.nick = n
    BY <2>1 DEF Lines
  <2>3. /\ Tells(l) /\ owner' = [owner EXCEPT ![n] = Nobody]
        /\ held' = [held EXCEPT ![n] = @ \cup {Nobody}]
    BY <1>3, <2>1 DEF Leave
  <2>4. /\ held'[n] = held[n] \cup {Nobody} /\ owner'[n] = Nobody
        /\ \A x \in Nicks \ {n} : held'[x] = held[x] /\ owner'[x] = owner[x]
        /\ held' \in [Nicks -> SUBSET (Who \cup {Unknown, Nobody})]
    BY <1>1, <2>3
  <2>5. Grows
    BY <1>2, <2>4 DEF Grows
  <2>6. HeldInv'
    <3>1. \A x \in Nicks : IsFiniteSet(held'[x])
      <4>1. \A x \in Nicks : IsFiniteSet(held[x])
        BY <1>1 DEF HeldInv
      <4>2. IsFiniteSet(held[n] \cup {Nobody})
        BY <4>1, FS_AddElement
      <4> QED BY <2>4, <4>1, <4>2
    <3>2. Single(owner')
      BY <1>1, <2>4 DEF HeldInv, Single
    <3>3. \A x \in Nicks : /\ owner'[x] # Nobody => owner'[x] \in held'[x]
                           /\ \A y \in held'[x] \cap Who : y = owner'[x] \/ Nobody \in held'[x]
      BY <1>1, <2>4 DEF HeldInv
    <3>4. \A p \in budget'.past : p[2] \in held'[p[1]] /\ Nobody \in held'[p[1]]
      BY <1>1, <1>2, <2>5 DEF HeldInv, Grows
    <3> QED BY <2>4, <3>1, <3>2, <3>3, <3>4 DEF HeldInv, Single
  <2>7. ASSUME NEW v \in Views, Fitting(v), Within(v)
        PROVE  \E v2 \in Views : Shows(v, l, v2) /\ Within(v2)' /\ Fitting(v2)'
    <3>1. PICK v2 \in Views : v2 = [v EXCEPT ![n] = Nobody]
      BY DEF Views, Owners
    <3>2. Shows(v, l, v2)
      BY <2>2, <3>1 DEF Shows
    <3>3. v2[n] = Nobody /\ \A x \in Nicks \ {n} : v2[x] = v[x]
      BY <3>1 DEF Views
    <3>4. Within(v2)'
      BY <2>4, <2>7, <3>3 DEF Within
    <3>5. Fitting(v2)'
      <4>1. \A x : Blurred(x) => Blurred(x)'
        BY <2>5, GrowsMore
      <4> QED BY <2>4, <2>7, <3>3, <4>1 DEF Fitting
    <3> QED BY <3>2, <3>4, <3>5
  <2> QED BY <1>2, <2>2, <2>3, <2>4, <2>5, <2>6, <2>7, MovingMeets
<1>4. CASE Arrive(n, w)
  <2>1. PICK l : l = [cmd |-> "JOIN", nick |-> n, who |-> w]
    OBVIOUS
  <2>2. l \in Lines /\ l.cmd = "JOIN" /\ l.nick = n /\ l.who = w
    BY <2>1 DEF Lines
  <2>3. /\ Tells(l) /\ owner' = [owner EXCEPT ![n] = w] /\ owner[n] = Nobody
        /\ held' = [held EXCEPT ![n] = @ \cup {w}]
        /\ \A x \in Nicks : owner[x] = w => w = Guest
    BY <1>4, <2>1 DEF Arrive
  <2>4. /\ held'[n] = held[n] \cup {w} /\ owner'[n] = w
        /\ \A x \in Nicks \ {n} : held'[x] = held[x] /\ owner'[x] = owner[x]
        /\ held' \in [Nicks -> SUBSET (Who \cup {Unknown, Nobody})]
    BY <1>1, <2>3
  <2>5. Grows
    BY <1>2, <2>4 DEF Grows
  <2>6. HeldInv'
    <3>1. \A x \in Nicks : IsFiniteSet(held'[x])
      <4>1. \A x \in Nicks : IsFiniteSet(held[x])
        BY <1>1 DEF HeldInv
      <4>2. IsFiniteSet(held[n] \cup {w})
        BY <4>1, FS_AddElement
      <4> QED BY <2>4, <4>1, <4>2
    <3>2. Single(owner')
      BY <1>1, <2>3, <2>4 DEF HeldInv, Single
    <3>3. \A x \in Nicks : /\ owner'[x] # Nobody => owner'[x] \in held'[x]
                           /\ \A y \in held'[x] \cap Who : y = owner'[x] \/ Nobody \in held'[x]
      BY <1>1, <2>3, <2>4 DEF HeldInv
    <3>4. \A p \in budget'.past : p[2] \in held'[p[1]] /\ Nobody \in held'[p[1]]
      BY <1>1, <1>2, <2>5 DEF HeldInv, Grows
    <3> QED BY <2>4, <3>1, <3>2, <3>3, <3>4 DEF HeldInv, Single
  <2>7. ASSUME NEW v \in Views, Fitting(v), Within(v)
        PROVE  \E v2 \in Views : Shows(v, l, v2) /\ Within(v2)' /\ Fitting(v2)'
    <3>1. PICK v2 \in Views : v2 = [v EXCEPT ![n] = w]
      BY DEF Views, Owners
    <3>2. Shows(v, l, v2)
      BY <2>2, <2>3, <2>7, <3>1 DEF Shows, Fitting
    <3>3. v2[n] = w /\ \A x \in Nicks \ {n} : v2[x] = v[x]
      BY <3>1 DEF Views
    <3>4. Within(v2)'
      BY <2>4, <2>7, <3>3 DEF Within
    <3>5. Fitting(v2)'
      <4>1. \A x : Blurred(x) => Blurred(x)'
        BY <2>5, GrowsMore
      <4> QED BY <2>4, <2>7, <3>3, <4>1 DEF Fitting
    <3> QED BY <3>2, <3>4, <3>5
  <2> QED BY <1>2, <2>2, <2>3, <2>5, <2>6, <2>7, MovingMeets
<1>5. CASE ChangeNick(n, o)
  <2>1. PICK l : l = [cmd |-> "NICK", nick |-> n, new |-> o]
    OBVIOUS
  <2>2. l \in Lines /\ l.cmd = "NICK" /\ l.nick = n /\ l.new = o
    BY <2>1 DEF Lines
  <2>3. /\ Tells(l) /\ owner' = [owner EXCEPT ![n] = Nobody, ![o] = owner[n]]
        /\ owner[n] # Nobody /\ owner[o] = Nobody /\ n # o
        /\ held' = [held EXCEPT ![n] = @ \cup {Nobody}, ![o] = @ \cup {owner[n]}]
    BY <1>5, <2>1 DEF ChangeNick
  <2>4. /\ held'[o] = held[o] \cup {owner[n]} /\ owner'[o] = owner[n] /\ owner'[n] = Nobody
        /\ held'[n] = held[n] \cup {Nobody} /\ owner[n] \in Who
        /\ \A x \in Nicks \ {n, o} : held'[x] = held[x] /\ owner'[x] = owner[x]
        /\ held' \in [Nicks -> SUBSET (Who \cup {Unknown, Nobody})]
    BY <1>1, <2>3
  <2>5. Grows
    BY <1>2, <2>4 DEF Grows
  <2>6. HeldInv'
    <3>1. \A x \in Nicks : IsFiniteSet(held'[x])
      <4>1. \A x \in Nicks : IsFiniteSet(held[x])
        BY <1>1 DEF HeldInv
      <4>2. IsFiniteSet(held[n] \cup {Nobody})
        BY <4>1, FS_AddElement
      <4>3. IsFiniteSet(held[o] \cup {owner[n]})
        BY <4>1, FS_AddElement
      <4>4. ASSUME NEW x \in Nicks PROVE IsFiniteSet(held'[x])
        <5>1. CASE x = n
          BY <2>4, <4>2, <5>1
        <5>2. CASE x = o
          BY <2>4, <4>3, <5>2
        <5>3. CASE x \in Nicks \ {n, o}
          BY <2>4, <4>1, <5>3
        <5> QED BY <5>1, <5>2, <5>3
      <4> QED BY <4>4
    <3>2. Single(owner')
      BY <1>1, <2>3, <2>4 DEF HeldInv, Single
    <3>3. \A x \in Nicks : /\ owner'[x] # Nobody => owner'[x] \in held'[x]
                           /\ \A y \in held'[x] \cap Who : y = owner'[x] \/ Nobody \in held'[x]
      BY <1>1, <2>3, <2>4 DEF HeldInv
    <3>4. \A p \in budget'.past : p[2] \in held'[p[1]] /\ Nobody \in held'[p[1]]
      BY <1>1, <1>2, <2>5 DEF HeldInv, Grows
    <3> QED BY <2>4, <3>1, <3>2, <3>3, <3>4 DEF HeldInv, Single
  <2>7. ASSUME NEW v \in Views, Fitting(v), Within(v)
        PROVE  \E v2 \in Views : Shows(v, l, v2) /\ Within(v2)' /\ Fitting(v2)'
    <3>1. PICK v2 \in Views : v2 = [v EXCEPT ![n] = Nobody, ![o] = v[n]]
      BY DEF Views, Owners
    <3>2. Shows(v, l, v2)
      BY <2>2, <2>3, <2>7, <3>1 DEF Shows, Fitting
    <3>3. v2[n] = Nobody /\ v2[o] = v[n] /\ \A x \in Nicks \ {n, o} : v2[x] = v[x]
      BY <2>3, <3>1 DEF Views
    <3>4. Within(v2)'
      BY <2>3, <2>4, <2>7, <3>3 DEF Within, Fitting
    <3>5. Fitting(v2)'
      <4>1. \A x : Blurred(x) => Blurred(x)'
        BY <2>5, GrowsMore
      <4>2. ASSUME NEW x \in Nicks
            PROVE  \/ v2[x] = owner'[x]
                   \/ v2[x] = Unknown /\ owner'[x] # Nobody /\ Blurred(owner'[x])
        <5>1. CASE x = n
          BY <2>4, <3>3, <5>1
        <5>2. CASE x = o
          <6>1. v2[x] = v[n] /\ owner'[x] = owner[n]
            BY <2>4, <3>3, <5>2
          <6> QED BY <2>7, <6>1 DEF Fitting
        <5>3. CASE x \in Nicks \ {n, o}
          <6>1. v2[x] = v[x] /\ owner'[x] = owner[x]
            BY <2>4, <3>3, <5>3
          <6> QED BY <2>7, <6>1 DEF Fitting
        <5> QED BY <5>1, <5>2, <5>3
      <4>3. ASSUME NEW x \in Nicks, Blurred(owner'[x]) PROVE Blurred(owner[x])'
        BY <4>1, <4>3 DEF Blurred
      <4> QED BY <4>2, <4>3 DEF Fitting
    <3> QED BY <3>2, <3>4, <3>5
  <2> QED BY <1>2, <2>2, <2>3, <2>4, <2>5, <2>6, <2>7, MovingMeets
<1> QED BY <1>3, <1>4, <1>5

\* A peer writes.
LEMMA WhisperMeets ==
    ASSUME IInv, MeetInv, NEW n \in Nicks, Whisper(n)
    PROVE  MeetInv'
<1> USE NamesAssumption
<1> DEFINE m == Len(said) + 1
           r == [from |-> owner[n], to |-> Unknown, route |-> NoRoute]
<1>1. /\ UNCHANGED <<addr, disp, bound, shown, rows, local, open, cmds, evs, online, budget,
                     seen, met, chosen, refused, routes, owner, held, spent>>
      /\ online /\ owner[n] \in Who /\ said' = Append(said, r) /\ Types
      /\ wire' = Append(wire, [cmd |-> "PRIVMSG", nick |-> n, who |-> owner[n], id |-> m])
  BY DEF Whisper, Tells, OutsideKeeps, sdkVars, appVars, historyVars, IInv, Types
<1>2. r \in [from : Who \cup {Unknown}, to : Keys \cup {Unknown}, route : Route]
  BY <1>1 DEF NoRoute, Route, Owners
<1>r. r.to = Unknown
  OBVIOUS
<1> HIDE DEF r
<1>3. m \in Nat /\ (\A x \in Ids : said'[x] = said[x]) /\ Ids' = Ids \cup {m} /\ said'[m] = r
  BY <1>1, <1>2, Saying
<1>4. Grows
  BY <1>1, <1>3 DEF Grows
<1>5. HeldInv' /\ MapsInv' /\ RingInv' /\ LocalInv' /\ CmdsInv'
  BY <1>1, <1>4, PartsStay DEF MeetInv, HeldInv, Single, MapsInv, KnownInv
<1>6. PICK l : l = [cmd |-> "PRIVMSG", nick |-> n, who |-> owner[n], id |-> m]
  OBVIOUS
<1>7. l \in Lines /\ l.cmd = "PRIVMSG" /\ wire' = Append(wire, l)
  BY <1>1, <1>3, <1>6 DEF Lines, Letters
<1>8. ASSUME NEW v \in Views, Fitting(v), Within(v)
      PROVE  \E v2 \in Views : Shows(v, l, v2) /\ Heard(l, v2)' /\ Within(v2)' /\ Fitting(v2)'
  <2>1. PICK v2 \in Views : v2 = [v EXCEPT ![n] = owner[n]]
    BY <1>1 DEF Views, Owners
  <2>2. Shows(v, l, v2)
    BY <1>1, <1>6, <1>8, <2>1 DEF Shows, Fitting
  <2>3. v2[n] = owner[n] /\ owner[n] \in held[n] /\ \A x \in Nicks \ {n} : v2[x] = v[x]
    BY <1>1, <2>1 DEF Views, MeetInv, HeldInv, Who, Keys
  <2>4. Within(v2)' /\ Fitting(v2)'
    BY <1>1, <1>8, <2>3 DEF Within, Fitting, Blurred
  <2>5. Heard(l, v2)'
    BY <1>7 DEF Heard
  <2> QED BY <2>2, <2>4, <2>5
<1>9. TaleInv'
  BY <1>1, <1>4, <1>5, <1>7, <1>8, TaleTold DEF MeetInv
<1>10. NamesInv'
  <2>1. Copied(wire')
    BY <1>1, <1>7, CopiedMore DEF MeetInv, NamesInv
  <2>2. \A d \in Dids : d # Unknown
    BY DEF Keys
  <2>3. ASSUME NEW d \in Dids, NEW x \in Ids', said'[x].to = d PROVE \E y \in Ids : said[y].to = d
    BY <1>r, <1>3, <2>2, <2>3
  <2> QED BY <1>1, <1>4, <2>1, <2>3, NamesStay
<1> QED BY <1>5, <1>9, <1>10 DEF MeetInv

\* The first session finds nicks that are taken.
LEMMA ConnectMeets ==
    ASSUME IInv, MeetInv, Connect
    PROVE  MeetInv'
<1> USE NamesAssumption
<1>1. /\ UNCHANGED <<addr, disp, bound, shown, rows, local, open, cmds, evs, owner, said, spent,
                     budget, chosen, refused, routes>>
      /\ online' = TRUE /\ ~online
      /\ seen' = [n \in Nicks |-> IF owner[n] = Nobody THEN Nobody ELSE Unknown]
      /\ held' = [n \in Nicks |-> IF owner[n] = Nobody THEN held[n] ELSE held[n] \cup {Unknown}]
      /\ Types
  BY DEF Connect, sdkVars, appVars, historyVars, IInv
<1>2. Grows /\ HeldInv
  BY <1>1 DEF Grows, MeetInv
<1>3. RingInv' /\ LocalInv' /\ CmdsInv'
  BY <1>1, <1>2, PartsStay
<1>4. HeldInv'
  <2>1. ASSUME NEW n \in Nicks PROVE IsFiniteSet(held'[n])
    <3>1. IsFiniteSet(held[n] \cup {Unknown})
      BY <1>2, FS_AddElement DEF HeldInv
    <3> QED BY <1>1, <1>2, <3>1 DEF HeldInv
  <2>2. held' \in [Nicks -> SUBSET (Who \cup {Unknown, Nobody})]
    BY <1>1, <1>2 DEF HeldInv
  <2>3. \A p \in budget'.past : p[2] \in held'[p[1]] /\ Nobody \in held'[p[1]]
    BY <1>1, <1>2 DEF HeldInv, Grows, Types
  <2>4. \A n \in Nicks : /\ owner'[n] # Nobody => owner'[n] \in held'[n]
                         /\ \A w \in held'[n] \cap Who : w = owner'[n] \/ Nobody \in held'[n]
    BY <1>1, <1>2 DEF HeldInv, Who, Keys
  <2> QED BY <1>1, <1>2, <2>1, <2>2, <2>3, <2>4 DEF HeldInv, Single
<1>5. MapsInv'
  BY <1>1, <1>2 DEF MeetInv, MapsInv, KnownInv, Types, Grows, Keys
<1>6. PICK v \in Views : v = seen'
  BY <1>1 DEF Views, Owners
<1>v. \A n \in Nicks : v[n] \in {Nobody, Unknown} /\ v[n] \notin Dids
  BY <1>1, <1>6 DEF Keys
<1>7. Within(v)' /\ Fitting(v)' /\ Single(v)
  <2>1. \A n \in Nicks : owner[n] # Nobody => Blurred(owner[n])'
    BY <1>1, <1>2 DEF HeldInv, Blurred
  <2> QED BY <1>1, <1>6, <1>v, <2>1 DEF Within, Fitting, Single, Who, Keys
<1> DEFINE N == Cardinality(budget.past)
<1>8. N \in Nat
  BY <1>1, FS_CardinalityType DEF Types
<1>9. PICK ps \in [1..N -> budget.past] :
         wire' = [i \in DOMAIN ps |-> [cmd |-> "TARGETS", nick |-> ps[i][1], who |-> ps[i][2]]]
  BY DEF Connect
<1>10. PICK k : k = N
  OBVIOUS
<1> HIDE DEF N
<1>11. /\ Len(wire') = k /\ k \in Nat /\ ps \in [1..k -> budget.past]
       /\ \A i \in 1..k : wire'[i] = [cmd |-> "TARGETS", nick |-> ps[i][1], who |-> ps[i][2]]
  <2>1. /\ DOMAIN ps = 1..k /\ k \in Nat /\ ps \in [1..k -> budget.past]
    BY <1>8, <1>9, <1>10
  <2>2. wire' = [i \in 1..k |-> [cmd |-> "TARGETS", nick |-> ps[i][1], who |-> ps[i][2]]]
    BY <1>9, <2>1
  <2> QED BY <2>1, <2>2
<1>12. ASSUME NEW i \in 1..k
       PROVE  Shows(v, wire'[i], v) /\ Heard(wire[i], v)'
  <2>1. PICK l : l = wire'[i] /\ l = [cmd |-> "TARGETS", nick |-> ps[i][1], who |-> ps[i][2]]
    BY <1>11
  <2>2. ps[i] \in budget.past /\ ps[i][1] \in Nicks
    <3>1. ps[i] \in budget.past
      BY <1>11
    <3>2. ps[i] \in Nicks \X Dids
      BY <1>1, <3>1 DEF Types
    <3> QED BY <3>1, <3>2
  <2>3. l.who \in held'[l.nick] /\ Nobody \in held'[l.nick]
    BY <1>2, <2>1, <2>2 DEF HeldInv, Grows
  <2>4. Shows(v, l, v) /\ Heard(l, v)'
    BY <1>v, <2>1, <2>3 DEF Shows, Heard
  <2> QED BY <2>1, <2>4 DEF Heard, Expected, Certain, Answers
<1>13. PICK h : h = [i \in 0..k |-> v]
  OBVIOUS
<1>14. /\ h \in [0..k -> Views] /\ \A i \in 0..k : h[i] = v
       /\ \A i \in 1..k : i \in 0..k /\ i - 1 \in 0..k
       /\ 0 \in 0..k /\ k \in 0..k
  BY <1>11, <1>13
<1>15. Tale(h)'
  <2>1. h[0] = seen' /\ Fitting(h[k])' /\ \A i \in 0..k : Within(h[i])' /\ Single(h[i])
    BY <1>6, <1>7, <1>14
  <2>2. \A i \in 1..k : Shows(h[i - 1], wire'[i], h[i]) /\ Heard(wire[i], h[i])'
    BY <1>12, <1>14
  <2> QED BY <1>11, <2>1, <2>2 DEF Tale, Single
<1>16. TaleInv'
  BY <1>11, <1>14, <1>15 DEF TaleInv
<1>17. NamesInv'
  <2>1. Copied(wire')
    BY <1>11 DEF Copied
  <2>2. Ids' = Ids
    BY <1>1 DEF Ids
  <2> QED BY <1>1, <1>2, <2>1, <2>2, NamesStay
<1> QED BY <1>3, <1>4, <1>5, <1>16, <1>17 DEF MeetInv

LEMMA InitMeets == Init => MeetInv
<1> SUFFICES ASSUME Init PROVE MeetInv
  OBVIOUS
<1> USE NamesAssumption
<1>1. 1..Len(<<>>) = {}
  OBVIOUS
<1>2. RingInv /\ CmdsInv /\ TaleInv /\ LocalInv /\ MapsInv
  BY <1>1 DEF Init, RingInv, CmdsInv, TaleInv, LocalInv, MapsInv, KnownInv
<1>3. budget.past \subseteq Nicks \X Dids /\ IsFiniteSet(budget.past)
  BY BudgetsAssumption DEF Init
<1>4. \A n \in Nicks : /\ held[n] = IF Earlier(n) = {} THEN {} ELSE Earlier(n) \cup {Nobody}
                       /\ owner[n] = Nobody /\ Earlier(n) \subseteq Dids
  BY DEF Init, Earlier
<1>5. ASSUME NEW n \in Nicks PROVE IsFiniteSet(held[n])
  <2>1. IsFiniteSet({p[2] : p \in budget.past})
    <3> DEFINE T == {p[2] : p \in budget.past}
               f == [p \in budget.past |-> p[2]]
    <3>1. f \in Surjection(budget.past, T)
      BY DEF Surjection
    <3> HIDE DEF f, T
    <3>2. IsFiniteSet(T)
      BY <1>3, <3>1, FS_Surjection
    <3> QED BY <3>2 DEF T
  <2>2. Earlier(n) \subseteq {p[2] : p \in budget.past}
    <3> SUFFICES ASSUME NEW d \in Earlier(n) PROVE d \in {p[2] : p \in budget.past}
      OBVIOUS
    <3>1. <<n, d>> \in budget.past /\ <<n, d>>[2] = d
      BY DEF Earlier
    <3> QED BY <3>1
  <2>3. IsFiniteSet(Earlier(n)) /\ IsFiniteSet(Earlier(n) \cup {Nobody})
    BY <2>1, <2>2, FS_Subset, FS_AddElement
  <2> QED BY <1>4, <2>3, FS_EmptySet
<1>6. HeldInv
  <2>1. held \in [Nicks -> SUBSET (Who \cup {Unknown, Nobody})]
    <3>1. held = [n \in Nicks |-> IF Earlier(n) = {} THEN {} ELSE Earlier(n) \cup {Nobody}]
      BY DEF Init
    <3> QED BY <1>4, <3>1 DEF Who
  <2>2. ASSUME NEW p \in budget.past PROVE p[2] \in held[p[1]] /\ Nobody \in held[p[1]]
    <3>1. p[1] \in Nicks /\ p[2] \in Dids /\ p = <<p[1], p[2]>>
      BY <1>3
    <3>2. p[2] \in Earlier(p[1])
      BY <3>1 DEF Earlier
    <3> QED BY <1>4, <3>1, <3>2
  <2>3. \A n \in Nicks : \A w \in held[n] \cap Who : Nobody \in held[n]
    BY <1>4
  <2>4. Single(owner)
    BY <1>4 DEF Single, Keys
  <2> QED BY <1>4, <1>5, <2>1, <2>2, <2>3, <2>4 DEF HeldInv
<1>7. NamesInv
  <2>1. \A d \in Dids : ~Known(d) /\ d # Unknown
    BY DEF Init, Known, Keys
  <2>2. Ids = {} /\ evs = <<>> /\ wire = <<>>
    BY DEF Init, Ids
  <2>3. Orderly(evs) /\ Copied(wire)
    BY <1>1, <2>2 DEF Orderly, Copied
  <2>4. \A n \in Nicks, d \in Dids : addr[n] # d /\ bound[n] # d
    BY <2>1 DEF Init
  <2>5. \A d \in Dids : ~(d \in shown \/ \E m \in Ids : said[m].to = d)
    BY <2>2 DEF Init
  <2> QED BY <2>1, <2>3, <2>4, <2>5 DEF NamesInv
<1> QED BY <1>2, <1>6, <1>7 DEF MeetInv

\* Lost sessions are counted.
LEMMA DropsCount ==
    ASSUME IInv, [Next]_vars, spent'.drops = 0
    PROVE  spent.drops = 0 /\ ~Drop
<1>1. spent.drops \in Nat
      /\ spent = [moves |-> spent.moves, drops |-> spent.drops, whois |-> spent.whois]
  BY DEF IInv, Types
<1>2. ~Drop
  <2>1. Drop => spent' = [spent EXCEPT !.drops = @ + 1]
    BY DEF Drop
  <2>2. Drop => spent'.drops = spent.drops + 1
    BY <1>1, <2>1
  <2> QED BY <1>1, <2>2
<1>3. CASE UNCHANGED spent
  BY <1>2, <1>3
<1>4. CASE \E n \in Nicks : OpenProfile(n)
  <2>1. spent' = [spent EXCEPT !.whois = @ + 1]
    BY <1>4 DEF OpenProfile
  <2> QED BY <1>1, <1>2, <2>1
<1>5. CASE spent' = [spent EXCEPT !.moves = @ + 1]
  BY <1>1, <1>2, <1>5
<1>6. Drop \/ UNCHANGED spent \/ (\E n \in Nicks : OpenProfile(n))
      \/ spent' = [spent EXCEPT !.moves = @ + 1]
  <2>1. CASE Read
    BY <2>1 DEF Read, ReadJoin, ReadQuit, ReadNick, ReadPrivmsg, ReadEcho, ReadWhois, ReadTargets,
                ReadKeeps
  <2>2. CASE Handle
    BY <2>2 DEF Handle, OnMemberDid, OnJoined, OnUserQuit, OnNickChanged, OnMessage, OnTarget,
                EventKeeps
  <2>3. CASE User
    BY <2>3 DEF User, MessageNick, OpenThread, Send
  <2>4. CASE Execute
    BY <2>4 DEF Execute
  <2>5. CASE Outside
    BY <2>5 DEF Outside, Leave, Whisper, Arrive, ChangeNick, Connect, Moves
  <2> QED BY <2>1, <2>2, <2>3, <2>4, <2>5 DEF Next, vars
<1> QED BY <1>1, <1>2, <1>3, <1>4, <1>5, <1>6

LEMMA StepMeets == IInv /\ MeetInv /\ [Next]_vars /\ ~Drop => MeetInv'
<1> SUFFICES ASSUME IInv, MeetInv, [Next]_vars, ~Drop PROVE MeetInv'
  OBVIOUS
<1>1. CASE Read
  BY <1>1, ReadMeets
<1>2. CASE Handle
  BY <1>2, HandleMeets
<1>3. CASE Execute
  BY <1>3, ExecuteMeets
<1>4. CASE User
  BY <1>4, LookMeets, SendMeets DEF User
<1>5. CASE Outside
  <2>1. Guest \in Who
    BY DEF Who
  <2> QED BY <1>5, <2>1, MoveMeets, WhisperMeets, ConnectMeets DEF Outside
<1>6. CASE UNCHANGED vars
  <2>1. /\ UNCHANGED <<addr, disp, bound, shown, rows, local, cmds, evs, online, wire, owner, held,
                       said, budget, seen, refused>>
    BY <1>6 DEF vars, sdkVars, appVars, netVars, serverVars, historyVars
  <2>2. Grows /\ Ids' = Ids
    BY <2>1 DEF Grows, Ids
  <2>3. RingInv' /\ LocalInv' /\ CmdsInv' /\ TaleInv'
    BY <2>1, <2>2, PartsStay
  <2>4. Copied(wire')
    BY <2>1 DEF MeetInv, NamesInv, Copied
  <2>5. NamesInv'
    BY <2>1, <2>2, <2>4, NamesStay
  <2> QED BY <2>1, <2>3, <2>5 DEF MeetInv, HeldInv, Single, MapsInv, KnownInv
<1> QED BY <1>1, <1>2, <1>3, <1>4, <1>5, <1>6 DEF Next

\* In every behaviour without a lost session, when nothing is on its way, no
\* optimistic row is left of a message that somebody was there to take and for
\* which it is certain which thread its copy comes to (Ambiguous says when it is
\* not): the copy came to the thread where the row was, although learning the
\* peer's account may have moved the row there while the copy was on its way.
THEOREM EchoMeets == Spec => []EchoMeetsLocal
<1> DEFINE J == spent.drops = 0 => MeetInv
<1>1. Spec => [](IInv /\ J)
  <2>1. Init => IInv /\ J
    BY InitInv, InitMeets
  <2>2. (IInv /\ J) /\ [Next]_vars => (IInv /\ J)'
    BY StepInv, StepMeets, DropsCount
  <2> HIDE DEF J
  <2> QED BY <2>1, <2>2, PTL DEF Spec
<1>2. IInv /\ J => EchoMeetsLocal
  <2> SUFFICES ASSUME IInv, MeetInv, spent.drops = 0, AtRest, NEW k \in Keys, NEW m \in local[k],
                      m \notin refused, ~Ambiguous(said[m].to)
               PROVE  FALSE
    BY DEF EchoMeetsLocal
  <2> DEFINE p == said[m].to
  <2>1. Homely(m, k) /\ m \in Ids
    BY DEF MeetInv, LocalInv, IInv, Types
  <2>2. Certain(p)
    <3>1. ASSUME NEW n \in Nicks, p = n \/ p \in held[n], NEW x \in held[n] \cap Who,
                 NEW y \in held[n] \cap Who, x # y
          PROVE  FALSE
      <4>0. PICK H : H = held[n] \cap Who
        OBVIOUS
      <4>1. IsFiniteSet(H)
        <5>1. IsFiniteSet(held[n]) /\ H \subseteq held[n]
          BY <4>0 DEF MeetInv, HeldInv
        <5> QED BY <5>1, FS_Subset
      <4>2. Cardinality(H) \in Nat
        BY <4>1, FS_CardinalityType
      <4>3. Cardinality(H) # 0
        BY <3>1, <4>0, <4>1, FS_EmptySet
      <4>4. Cardinality(H) # 1
        BY <3>1, <4>0, <4>1, FS_Singleton
      <4>5. Cardinality(H) > 1
        BY <4>2, <4>3, <4>4
      <4> QED BY <3>1, <4>0, <4>5 DEF Ambiguous
    <3>2. \A n \in Nicks \ {p} :
             p \in Nicks /\ Nobody \in held[p] => held[n] \cap held[p] \cap Who = {}
      BY DEF Ambiguous
    <3>3. \A n, o \in Nicks : n # o /\ p \in Dids /\ Unknown \in held[n] /\ p \in held[n]
                                => p \notin held[o]
      BY DEF Ambiguous
    <3> HIDE DEF p
    <3> QED BY <3>1, <3>2, <3>3 DEF Certain
  <2>3. m \notin Filing
    BY <2>1, <2>2 DEF Homely, Expected
  <2>4. Mail(cmds, Sendings) = {} /\ Mail(wire, Letters) = {} /\ Mail(evs, Arrivals) = {}
    BY NoMail DEF AtRest
  <2> QED BY <2>1, <2>3, <2>4 DEF IInv, MailInv
<1> QED BY <1>1, <1>2, PTL

===========================================================================
