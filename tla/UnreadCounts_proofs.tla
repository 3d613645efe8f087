------------------------ MODULE UnreadCounts_proofs ------------------------
(***************************************************************************)
(* Theorems about UnreadCounts for every set of rooms and every bound: the *)
(* cached badges agree with the store, and the detailed specification      *)
(* implements UnreadPromise.                                               *)
(***************************************************************************)
EXTENDS UnreadCounts, FiniteSetTheorems, SequenceTheorems, TLAPS

---------------------------------------------------------------------------
(* The inductive invariant                                                 *)

\* Rows always have a latest one: the store gains one row at a time.
HasLatest(rows) ==
    \E t \in {0} \cup {log[m].at : m \in rows} : \A m \in rows : log[m].at <= t

\* Nothing of the open chat counts.
OpenIsRead == open \in Rooms => Unread(open) = {}

\* The watermark is no later than the last look or the latest row.
MarkJustified ==
    \A c \in Rooms : /\ looked[c] <= now
                     /\ \/ mark[c] <= 0 \/ mark[c] <= looked[c]
                        \/ \E r \in stored[c] : mark[c] <= log[r].at

\* Line i of w is replayed by a batch that is open when it is handled.
Covered(w, bs, i) ==
    \/ \E b \in bs : /\ b.room = w[i].room
                     /\ \A j \in 1..i - 1 : w[j].ev = "End" => w[j].n # b.id
    \/ \E s \in 1..i - 1 : /\ w[s].ev = "Start" /\ w[s].room = w[i].room
                           /\ \A j \in s..i - 1 : w[j].ev = "End" => w[j].n # w[s].n

\* The message of line i is not in the store when the line is handled.
Fresh(w, st, i) ==
    /\ w[i].n \notin st[w[i].room]
    /\ \A j \in 1..i - 1 : w[j].ev = "Message" => w[j].n # w[i].n

\* A message comes live once at most, and before any batch that replays it.
LiveFirst(w, bs, st) ==
    \A i \in 1..Len(w) : w[i].ev = "Message" => Covered(w, bs, i) \/ Fresh(w, st, i)

StoreInv ==
    /\ StoreOK /\ OpenIsRead /\ MarkJustified
    /\ \A c \in Rooms : HasLatest(stored[c])

BufferInv == BuffersOK /\ BadgeAgrees

WireInv == SessionOK /\ LiveFirst(wire, batches, stored)

IInv == StoreInv /\ BufferInv /\ WireInv

---------------------------------------------------------------------------
\* The messages of the log.
LEMMA Entries ==
    ASSUME log \in Seq(Said)
    PROVE  /\ Len(log) \in Nat
           /\ \A r \in 1..Len(log) : /\ log[r] \in Said /\ log[r].room \in Rooms
                                     /\ log[r].at \in Nat /\ log[r].at > 0
                                     /\ log[r].mine \in BOOLEAN
<1>1. \A r \in 1..Len(log) : log[r] \in Said
  OBVIOUS
<1> QED BY <1>1 DEF Said

\* What CHOOSE gives when there is a latest row.
LEMMA LatestIs ==
    ASSUME NEW rows, HasLatest(rows)
    PROVE  /\ Latest(rows) \in {0} \cup {log[m].at : m \in rows}
           /\ \A m \in rows : log[m].at <= Latest(rows)
  BY DEF HasLatest, Latest

\* One more row leaves a latest one.
LEMMA LatestGrows ==
    ASSUME StoreOK, NEW rows \in SUBSET (1..Len(log)), HasLatest(rows), NEW m \in 1..Len(log)
    PROVE  HasLatest(rows \cup {m})
<1>1. \A r \in 1..Len(log) : log[r].at \in Nat
  BY Entries DEF StoreOK
<1>2. PICK t \in {0} \cup {log[r].at : r \in rows} : \A r \in rows : log[r].at <= t
  BY DEF HasLatest
<1>3. CASE log[m].at <= t
  BY <1>1, <1>2, <1>3 DEF HasLatest
<1>4. CASE ~(log[m].at <= t)
  <2>1. \A r \in rows \cup {m} : log[r].at <= log[m].at
    BY <1>1, <1>2, <1>4
  <2> QED BY <2>1 DEF HasLatest
<1> QED BY <1>3, <1>4

\* A row that is said leaves the latest of the stored ones.
LEMMA LatestKept ==
    ASSUME StoreOK, NEW x, log' = Append(log, x), NEW rows \in SUBSET (1..Len(log)),
           HasLatest(rows)
    PROVE  HasLatest(rows)'
<1>1. \A r \in 1..Len(log) : log'[r] = log[r]
  BY DEF StoreOK
<1> QED BY <1>1 DEF HasLatest

\* mark_read leaves nothing that counts, baselines leave what they found.
LEMMA ReadNothingLeft ==
    ASSUME StoreOK, NEW rows \in SUBSET (1..Len(log)), HasLatest(rows),
           NEW read \in Nat \cup {NoMark}, NEW at \in Nat
    PROVE  /\ MarkRead(read, rows, at) \in Nat
           /\ \A r \in rows : log[r].at <= MarkRead(read, rows, at)
           /\ UnreadOf(rows, MarkRead(read, rows, at)) = {}
<1>1. \A r \in 1..Len(log) : log[r].at \in Nat
  BY Entries DEF StoreOK
<1>2. Latest(rows) \in Nat /\ \A r \in rows : log[r].at <= Latest(rows)
  <2> DEFINE times == {0} \cup {log[m].at : m \in rows}
  <2>1. Latest(rows) \in times /\ \A r \in rows : log[r].at <= Latest(rows)
    BY LatestIs
  <2>2. times \subseteq Nat
    BY <1>1
  <2> HIDE DEF times
  <2> QED BY <2>1, <2>2
<1>3. MarkRead(read, rows, at) \in Nat /\ Latest(rows) <= MarkRead(read, rows, at)
  BY <1>2 DEF MarkRead, Later, NoMark
<1>4. \A r \in rows : log[r].at <= MarkRead(read, rows, at)
  BY <1>1, <1>2, <1>3
<1>5. MarkRead(read, rows, at) # NoMark
  BY <1>3 DEF NoMark
<1>6. \A r \in rows : ~(log[r].at > MarkRead(read, rows, at))
  BY <1>1, <1>3, <1>4
<1> QED BY <1>3, <1>4, <1>5, <1>6 DEF UnreadOf

LEMMA BaselineIs ==
    ASSUME StoreOK, NEW rows \in SUBSET (1..Len(log)), HasLatest(rows),
           NEW read \in Nat \cup {NoMark}
    PROVE  /\ Baseline(read, rows) \in Nat
           /\ read = NoMark => \A r \in rows : log[r].at <= Baseline(read, rows)
           /\ read # NoMark => Baseline(read, rows) = read
           /\ UnreadOf(rows, Baseline(read, rows)) = UnreadOf(rows, read)
<1>1. \A r \in 1..Len(log) : log[r].at \in Nat
  BY Entries DEF StoreOK
<1>2. Latest(rows) \in Nat /\ \A r \in rows : log[r].at <= Latest(rows)
  BY <1>1, LatestIs
<1>3. CASE read = NoMark
  <2>1. Baseline(read, rows) = Latest(rows) /\ UnreadOf(rows, read) = {}
    BY <1>3 DEF Baseline, UnreadOf
  <2>2. \A r \in rows : ~(log[r].at > Latest(rows))
    BY <1>1, <1>2
  <2>3. UnreadOf(rows, Latest(rows)) = {}
    BY <2>2 DEF UnreadOf
  <2> QED BY <1>2, <1>3, <2>1, <2>3
<1>4. CASE read # NoMark
  BY <1>4 DEF Baseline
<1> QED BY <1>3, <1>4

---------------------------------------------------------------------------
(* The store                                                               *)

\* Nothing of the store moves, and a chat is closed at most.
LEMMA StoreStays ==
    ASSUME StoreInv, UNCHANGED <<log, stored, mark, looked>>, open' \in {open, NoRoom},
           now' \in Nat \ {0}, now <= now'
    PROVE  StoreInv' /\ \A c \in Rooms : Unread(c)' = Unread(c)
<1>1. \A c \in Rooms : Unread(c)' = Unread(c)
  BY DEF Unread, UnreadOf
<1>2. StoreOK' /\ MarkJustified'
  <2>1. \A c \in Rooms : looked[c] <= now'
    BY DEF StoreInv, StoreOK, MarkJustified, NoMark
  <2> QED BY <2>1 DEF StoreInv, StoreOK, MarkJustified
<1>3. OpenIsRead'
  BY <1>1, RoomsAssumption DEF StoreInv, OpenIsRead, Unread, UnreadOf
<1>4. \A c \in Rooms : HasLatest(stored[c])'
  BY DEF StoreInv, HasLatest
<1> QED BY <1>1, <1>2, <1>3, <1>4 DEF StoreInv

\* The log gains a message.
LEMMA StorePost ==
    ASSUME StoreInv, NEW c \in Rooms, NEW mine \in BOOLEAN, Post(c, mine), budget \in Budgets
    PROVE  StoreInv' /\ \A d \in Rooms : Unread(d)' = Unread(d)
<1> DEFINE x == [room |-> c, at |-> now, mine |-> mine]
<1>1. /\ StoreOK /\ log' = Append(log, x) /\ Len(log) < budget.log
      /\ UNCHANGED <<now, stored, mark, looked, open>>
  BY DEF StoreInv, Post, diskVars
<1>2. budget.log \in 0..MaxLog
  BY BudgetsAssumption
<1>3. x \in Said /\ Len(log) \in Nat
  BY <1>1, Entries DEF StoreOK, Said
<1>4. log' \in Seq(Said) /\ Len(log') = Len(log) + 1 /\ \A r \in 1..Len(log) : log'[r] = log[r]
  BY <1>1, <1>3 DEF StoreOK
<1>5. StoreOK'
  BY <1>1, <1>2, <1>3, <1>4, LimitsAssumption DEF StoreOK
<1>6. \A d \in Rooms : stored[d] \subseteq 1..Len(log)
  BY <1>1 DEF StoreOK
<1>7. \A d \in Rooms : Unread(d)' = Unread(d)
  BY <1>1, <1>4, <1>6 DEF Unread, UnreadOf
<1>8. OpenIsRead'
  BY <1>1, <1>4, <1>6 DEF StoreInv, OpenIsRead, Unread, UnreadOf
<1>9. MarkJustified'
  BY <1>1, <1>4, <1>6 DEF StoreInv, MarkJustified
<1>10. \A d \in Rooms : HasLatest(stored[d])'
  BY <1>1, <1>4, <1>6 DEF StoreInv, HasLatest
<1> QED BY <1>5, <1>7, <1>8, <1>9, <1>10 DEF StoreInv

\* The first line, when it is a message.
LEMMA HeadMessage ==
    ASSUME StoreInv, WireInv, OnMessage
    PROVE  /\ wire[1] \in Lines /\ wire[1].room \in Rooms /\ wire[1].n \in 1..Len(log)
           /\ wire[1].n \in stored[wire[1].room] => InBatch(wire[1].room)
<1>1. wire \in Seq(Lines) /\ wire # <<>> /\ wire[1].ev = "Message"
  BY DEF WireInv, SessionOK, OnMessage, Head1
<1>2. 1 \in 1..Len(wire) /\ wire[1] \in Lines
  BY <1>1
<1>3. wire[1].room \in Rooms /\ wire[1].n \in 1..Len(log)
  BY <1>1, <1>2 DEF WireInv, SessionOK, Lines
<1>4. Covered(wire, batches, 1) => InBatch(wire[1].room)
  BY DEF Covered, InBatch
<1>5. Fresh(wire, stored, 1) => wire[1].n \notin stored[wire[1].room]
  BY DEF Fresh
<1> QED BY <1>1, <1>2, <1>3, <1>4, <1>5 DEF WireInv, LiveFirst

\* What a message does to the store: its row is counted, or it is not, and
\* the other rows of the room count as before unless the room is open.
LEMMA StoreMessage ==
    ASSUME StoreInv, WireInv, OnMessage, NEW c, NEW m, c = wire[1].room, m = wire[1].n
    PROVE  /\ StoreInv'
           /\ c \in Rooms /\ m \in 1..Len(log)
           /\ stored' = [stored EXCEPT ![c] = stored[c] \cup {m}]
           /\ \A d \in Rooms \ {c} : Unread(d)' = Unread(d)
           /\ Unread(c)' = UnreadOf(stored[c] \cup {m}, Watermark(c, m, stored[c] \cup {m}))
           /\ \/ Unread(c)' = Unread(c)
              \/ open # c /\ Unread(c)' = Unread(c) \cup {m}
           /\ m \in stored[c] => Unread(c)' = Unread(c)
           /\ ( /\ open # c /\ ~InBatch(c) /\ ~log[m].mine /\ log[m].at > looked[c]
                /\ \A r \in stored[c] : log[m].at > log[r].at )
              => m \in Unread(c)'
<1> DEFINE rows == stored[c] \cup {m}
           read == Watermark(c, m, rows)
<1>1. /\ c \in Rooms /\ m \in 1..Len(log)
      /\ m \in stored[c] => InBatch(c)
  BY HeadMessage
<1>2. /\ StoreOK /\ mark[c] \in Nat \cup {NoMark} /\ looked[c] \in Nat \cup {NoMark}
      /\ stored[c] \in SUBSET (1..Len(log)) /\ rows \in SUBSET (1..Len(log))
      /\ HasLatest(stored[c])
  BY <1>1 DEF StoreInv, StoreOK
<1>3. HasLatest(rows)
  BY <1>1, <1>2, LatestGrows
<1>4. /\ stored' = [stored EXCEPT ![c] = rows] /\ mark' = [mark EXCEPT ![c] = read]
      /\ UNCHANGED <<log, now, open, looked, batches>>
  BY DEF OnMessage
<1>5. /\ stored'[c] = rows /\ mark'[c] = read
      /\ \A d \in Rooms \ {c} : stored'[d] = stored[d] /\ mark'[d] = mark[d]
  BY <1>1, <1>2, <1>4 DEF StoreOK
<1>6. /\ Unread(c)' = UnreadOf(rows, read)
      /\ \A d \in Rooms \ {c} : Unread(d)' = Unread(d)
  BY <1>4, <1>5 DEF Unread, UnreadOf
<1>7. \A r \in 1..Len(log) : log[r].at \in Nat /\ log[r].at > 0
  BY <1>2, Entries DEF StoreOK
<1> HIDE DEF rows, read
<1> DEFINE Late == /\ open # c /\ ~InBatch(c) /\ ~log[m].mine /\ log[m].at > looked[c]
                   /\ \A r \in stored[c] : log[m].at > log[r].at
           Q == /\ read \in Nat \cup {NoMark}
                /\ read <= 0 \/ read <= looked[c] \/ \E r \in rows : read <= log[r].at
                /\ \/ UnreadOf(rows, read) = Unread(c)
                   \/ open # c /\ UnreadOf(rows, read) = Unread(c) \cup {m}
                /\ m \in stored[c] => UnreadOf(rows, read) = Unread(c)
                /\ open = c => UnreadOf(rows, read) = {}
                /\ Late => m \in UnreadOf(rows, read)
<1>8. ASSUME open = c PROVE Q
  <2>1. read = MarkRead(mark[c], rows, log[m].at) /\ log[m].at \in Nat
    BY <1>1, <1>7, <1>8 DEF read, Watermark
  <2>2. read \in Nat /\ UnreadOf(rows, read) = {}
    BY <1>2, <1>3, <2>1, ReadNothingLeft
  <2>3. Unread(c) = {}
    BY <1>1, <1>8 DEF StoreInv, OpenIsRead
  <2>4. Latest(rows) \in {0} \cup {log[r].at : r \in rows}
    BY <1>3, LatestIs
  <2>5. \/ read = mark[c] \/ read = Latest(rows) \/ read = log[m].at
    BY <2>1 DEF MarkRead, Later
  <2>6. m \in rows
    BY DEF rows
  <2>7. \/ read <= 0 \/ read <= looked[c] \/ \E r \in rows : read <= log[r].at
    <3>1. CASE read = mark[c]
      BY <1>1, <3>1 DEF StoreInv, MarkJustified, rows
    <3>2. CASE read = Latest(rows)
      BY <1>2, <1>7, <2>4, <3>2
    <3>3. CASE read = log[m].at
      BY <2>1, <2>6, <3>3
    <3> QED BY <2>5, <3>1, <3>2, <3>3
  <2> QED BY <1>8, <2>2, <2>3, <2>7
<1>9. ASSUME open # c PROVE Q
  <2>1. CASE ~log[m].mine /\ ~InBatch(c)
    <3>1. m \notin stored[c] /\ rows \ {m} = stored[c]
      BY <1>1, <2>1 DEF rows
    <3>2. read = Baseline(mark[c], stored[c])
      BY <1>9, <2>1, <3>1 DEF read, Watermark
    <3>3. /\ read \in Nat /\ UnreadOf(stored[c], read) = Unread(c)
          /\ mark[c] # NoMark => read = mark[c]
      BY <1>2, <3>2, BaselineIs DEF Unread
    <3>4. Latest(stored[c]) \in {0} \cup {log[r].at : r \in stored[c]}
      BY <1>2, LatestIs
    <3>5. \/ read <= 0 \/ read <= looked[c] \/ \E r \in stored[c] : read <= log[r].at
      <4>1. CASE mark[c] # NoMark
        BY <1>1, <3>3, <4>1 DEF StoreInv, MarkJustified
      <4>2. CASE mark[c] = NoMark
        <5>1. read = Latest(stored[c])
          BY <3>2, <4>2 DEF Baseline
        <5> QED BY <1>2, <1>7, <3>4, <5>1
      <4> QED BY <4>1, <4>2
    <3>6. UnreadOf(rows, read) \in {Unread(c), Unread(c) \cup {m}}
      BY <3>3 DEF rows, UnreadOf
    <3>7. (log[m].at > looked[c] /\ \A r \in stored[c] : log[m].at > log[r].at)
            => m \in UnreadOf(rows, read)
      <4>1. SUFFICES ASSUME log[m].at > looked[c],
                            \A r \in stored[c] : log[m].at > log[r].at
                     PROVE  log[m].at > read /\ read # NoMark /\ m \in rows
        BY <2>1 DEF UnreadOf
      <4>2. log[m].at > read
        BY <1>1, <1>2, <1>7, <3>3, <3>5, <4>1 DEF NoMark
      <4> QED BY <3>3, <4>2 DEF NoMark, rows
    <3>8. \/ read <= 0 \/ read <= looked[c] \/ \E r \in rows : read <= log[r].at
      BY <3>5 DEF rows
    <3> QED BY <1>9, <3>1, <3>3, <3>6, <3>7, <3>8
  <2>2. CASE ~(~log[m].mine /\ ~InBatch(c))
    <3>1. read = mark[c]
      BY <1>9, <2>2 DEF read, Watermark
    <3>2. UnreadOf(rows, read) \in {Unread(c), Unread(c) \cup {m}}
      BY <3>1 DEF rows, Unread, UnreadOf
    <3>3. m \in stored[c] => UnreadOf(rows, read) = Unread(c)
      BY <3>1 DEF rows, Unread, UnreadOf
    <3>4. \/ read <= 0 \/ read <= looked[c] \/ \E r \in rows : read <= log[r].at
      BY <1>1, <3>1 DEF StoreInv, MarkJustified, rows
    <3> QED BY <1>2, <1>9, <2>2, <3>1, <3>2, <3>3, <3>4
  <2> QED BY <2>1, <2>2
<1>10. Q
  BY <1>8, <1>9
<1>11. StoreOK'
  BY <1>1, <1>2, <1>4, <1>10 DEF StoreOK
<1>12. MarkJustified'
  <2> SUFFICES ASSUME NEW d \in Rooms
               PROVE  \/ mark'[d] <= 0 \/ mark'[d] <= looked[d]
                      \/ \E r \in stored'[d] : mark'[d] <= log[r].at
    BY <1>4 DEF StoreInv, MarkJustified
  <2>1. CASE d = c
    BY <1>5, <1>10, <2>1
  <2>2. CASE d # c
    BY <1>5, <2>2 DEF StoreInv, MarkJustified
  <2> QED BY <2>1, <2>2
<1>13. \A d \in Rooms : HasLatest(stored[d])'
  <2> SUFFICES ASSUME NEW d \in Rooms PROVE HasLatest(stored'[d])
    BY <1>4 DEF HasLatest
  <2> QED BY <1>3, <1>5 DEF StoreInv
<1>14. OpenIsRead'
  <2> SUFFICES ASSUME open \in Rooms PROVE Unread(open)' = {}
    BY <1>4 DEF OpenIsRead, Unread, UnreadOf
  <2>1. CASE open = c
    BY <1>4, <1>6, <1>10, <2>1 DEF Unread, UnreadOf
  <2>2. CASE open # c
    BY <1>4, <1>6, <2>2 DEF StoreInv, OpenIsRead, Unread, UnreadOf
  <2> QED BY <2>1, <2>2
<1>15. StoreInv'
  BY <1>11, <1>12, <1>13, <1>14 DEF StoreInv
<1>16. stored' = [stored EXCEPT ![c] = stored[c] \cup {m}]
  BY <1>4 DEF rows
<1>17. Unread(c)' = UnreadOf(stored[c] \cup {m}, Watermark(c, m, stored[c] \cup {m}))
  BY <1>6 DEF rows, read
<1> QED BY <1>1, <1>6, <1>10, <1>15, <1>16, <1>17

\* The end of a batch gives a first watermark; nothing starts or stops to count.
LEMMA StoreBatchEnd ==
    ASSUME StoreInv, OnBatchEnd, NEW c \in Rooms, c = wire[1].room
    PROVE  /\ StoreInv' /\ \A d \in Rooms : Unread(d)' = Unread(d)
           /\ Unread(c)' = UnreadOf(stored[c], Baseline(mark[c], stored[c]))
<1> DEFINE read == Baseline(mark[c], stored[c])
<1>1. /\ StoreOK /\ mark[c] \in Nat \cup {NoMark} /\ stored[c] \in SUBSET (1..Len(log))
      /\ HasLatest(stored[c])
  BY DEF StoreInv, StoreOK
<1>2. /\ read \in Nat /\ UnreadOf(stored[c], read) = Unread(c)
      /\ mark[c] # NoMark => read = mark[c]
  BY <1>1, BaselineIs DEF Unread
<1>3. /\ mark' = [mark EXCEPT ![c] = read]
      /\ UNCHANGED <<log, now, stored, open, looked>>
  BY DEF OnBatchEnd
<1>4. /\ mark'[c] = read /\ \A d \in Rooms \ {c} : mark'[d] = mark[d]
  BY <1>1, <1>3 DEF StoreOK
<1>5. \A d \in Rooms : Unread(d)' = Unread(d)
  <2>1. Unread(c)' = UnreadOf(stored[c], read)
    BY <1>3, <1>4 DEF Unread, UnreadOf
  <2>2. \A d \in Rooms \ {c} : Unread(d)' = Unread(d)
    BY <1>3, <1>4 DEF Unread, UnreadOf
  <2> QED BY <1>2, <2>1, <2>2
<1>6. StoreOK'
  BY <1>1, <1>2, <1>3 DEF StoreOK
<1>7. \/ read <= 0 \/ read <= looked[c] \/ \E r \in stored[c] : read <= log[r].at
  <2>1. CASE mark[c] # NoMark
    BY <1>2, <2>1 DEF StoreInv, MarkJustified
  <2>2. CASE mark[c] = NoMark
    <3>1. read = Latest(stored[c]) /\ Latest(stored[c]) \in {0} \cup {log[r].at : r \in stored[c]}
      BY <1>1, <2>2, LatestIs DEF Baseline
    <3> QED BY <1>2, <3>1
  <2> QED BY <2>1, <2>2
<1> HIDE DEF read
<1>8. MarkJustified'
  BY <1>3, <1>4, <1>7 DEF StoreInv, MarkJustified
<1>9. \A d \in Rooms : HasLatest(stored[d])'
  BY <1>3 DEF StoreInv, HasLatest
<1>10. OpenIsRead'
  BY <1>3, <1>5 DEF StoreInv, OpenIsRead, Unread, UnreadOf
<1>11. StoreInv'
  BY <1>6, <1>8, <1>9, <1>10 DEF StoreInv
<1> QED BY <1>2, <1>5, <1>11 DEF read

\* Opening a room leaves nothing of it that counts.
LEMMA StoreOpen ==
    ASSUME StoreInv, NEW c \in Rooms, OpenChat(c)
    PROVE  /\ StoreInv' /\ Unread(c)' = {}
           /\ \A d \in Rooms \ {c} : Unread(d)' = Unread(d)
           /\ Unread(c)' = UnreadOf(stored[c], MarkRead(mark[c], stored[c], now))
<1> DEFINE read == MarkRead(mark[c], stored[c], now)
<1>1. /\ StoreOK /\ mark[c] \in Nat \cup {NoMark} /\ stored[c] \in SUBSET (1..Len(log))
      /\ HasLatest(stored[c]) /\ now \in Nat
  BY DEF StoreInv, StoreOK
<1>2. read \in Nat /\ UnreadOf(stored[c], read) = {}
  BY <1>1, ReadNothingLeft
<1>3. /\ mark' = [mark EXCEPT ![c] = read] /\ looked' = [looked EXCEPT ![c] = now]
      /\ open' = c /\ UNCHANGED <<log, now, stored>>
  BY DEF OpenChat
<1>4. /\ mark'[c] = read /\ looked'[c] = now
      /\ \A d \in Rooms \ {c} : mark'[d] = mark[d] /\ looked'[d] = looked[d]
  BY <1>1, <1>3 DEF StoreOK
<1>5. \A d \in Rooms \ {c} : Unread(d)' = Unread(d)
  BY <1>3, <1>4 DEF Unread, UnreadOf
<1>6. Unread(c)' = UnreadOf(stored[c], read)
  BY <1>3, <1>4 DEF Unread, UnreadOf
<1>7. StoreOK'
  BY <1>1, <1>2, <1>3 DEF StoreOK
<1>8. \/ read <= 0 \/ read <= now \/ \E r \in stored[c] : read <= log[r].at
  <2>1. Latest(stored[c]) \in {0} \cup {log[r].at : r \in stored[c]}
    BY <1>1, LatestIs
  <2>2. \/ read = mark[c] \/ read = Latest(stored[c]) \/ read = now
    BY DEF MarkRead, Later
  <2>3. CASE read = mark[c]
    <3>1. looked[c] <= now /\ looked[c] \in Int
      BY <1>1 DEF StoreInv, MarkJustified, StoreOK, NoMark
    <3>2. \/ read <= 0 \/ read <= looked[c] \/ \E r \in stored[c] : read <= log[r].at
      BY <2>3 DEF StoreInv, MarkJustified
    <3> QED BY <1>1, <1>2, <3>1, <3>2
  <2>4. CASE read = Latest(stored[c])
    BY <1>2, <2>1, <2>4
  <2>5. CASE read = now
    BY <1>2, <2>5
  <2> QED BY <2>2, <2>3, <2>4, <2>5
<1> HIDE DEF read
<1>9. MarkJustified'
  <2> SUFFICES ASSUME NEW d \in Rooms
               PROVE  /\ looked'[d] <= now
                      /\ \/ mark'[d] <= 0 \/ mark'[d] <= looked'[d]
                         \/ \E r \in stored[d] : mark'[d] <= log[r].at
    BY <1>3 DEF MarkJustified
  <2>1. CASE d = c
    BY <1>1, <1>4, <1>8, <2>1
  <2>2. CASE d # c
    BY <1>4, <2>2 DEF StoreInv, MarkJustified
  <2> QED BY <2>1, <2>2
<1>10. \A d \in Rooms : HasLatest(stored[d])'
  BY <1>3 DEF StoreInv, HasLatest
<1>11. OpenIsRead'
  BY <1>2, <1>3, <1>6 DEF OpenIsRead, Unread, UnreadOf
<1>12. StoreInv'
  BY <1>7, <1>9, <1>10, <1>11 DEF StoreInv
<1> QED BY <1>2, <1>5, <1>6, <1>12 DEF read

---------------------------------------------------------------------------
(* The lines that wait                                                     *)

\* What the lines have to do with the log.
LinesOK(w, l) ==
    /\ w \in Seq(Lines)
    /\ \A i \in 1..Len(w) : w[i].ev = "Message" =>
           w[i].n \in 1..Len(l) /\ l[w[i].n].room = w[i].room

\* The first line is handled: its batch opens or closes, its row is stored.
LEMMA TailLiveFirst ==
    ASSUME NEW w \in Seq(Lines), w # <<>>, NEW bs, NEW st, LiveFirst(w, bs, st),
           NEW bs2, NEW st2,
           w[1].ev = "Start" => [id |-> w[1].n, room |-> w[1].room] \in bs2,
           \A b \in bs : b \in bs2 \/ (w[1].ev = "End" /\ w[1].n = b.id),
           \A c \in Rooms : \A m \in st2[c] : m \in st[c] \/ (w[1].ev = "Message" /\ m = w[1].n)
    PROVE  LiveFirst(Tail(w), bs2, st2)
<1> DEFINE t == Tail(w)
<1>1. /\ Len(w) \in Nat /\ t \in Seq(Lines) /\ Len(t) = Len(w) - 1
      /\ \A i \in 1..Len(t) : t[i] = w[i + 1]
  OBVIOUS
<1> SUFFICES ASSUME NEW i \in 1..Len(t), t[i].ev = "Message"
             PROVE  Covered(t, bs2, i) \/ Fresh(t, st2, i)
  BY DEF LiveFirst
<1> HIDE DEF t
<1>2. /\ i + 1 \in 1..Len(w) /\ t[i] = w[i + 1] /\ w[i + 1] \in Lines /\ i \in Nat
      /\ \A j \in 1..i - 1 : t[j] = w[j + 1] /\ j + 1 \in 1..(i + 1) - 1
      /\ 1 \in 1..(i + 1) - 1
  BY <1>1
<1>3. Covered(w, bs, i + 1) \/ Fresh(w, st, i + 1)
  BY <1>2 DEF LiveFirst
<1>4. CASE Fresh(w, st, i + 1)
  <2>1. t[i].n \notin st[t[i].room] /\ t[i].room \in Rooms
    BY <1>2, <1>4 DEF Fresh, Lines
  <2>2. ~(w[1].ev = "Message" /\ w[1].n = t[i].n)
    BY <1>2, <1>4 DEF Fresh
  <2>3. t[i].n \notin st2[t[i].room]
    BY <2>1, <2>2
  <2>4. \A j \in 1..i - 1 : t[j].ev = "Message" => t[j].n # t[i].n
    BY <1>2, <1>4 DEF Fresh
  <2> QED BY <2>3, <2>4 DEF Fresh
<1>5. ASSUME NEW b \in bs, b.room = w[i + 1].room,
             \A j \in 1..(i + 1) - 1 : w[j].ev = "End" => w[j].n # b.id
      PROVE  Covered(t, bs2, i)
  <2>1. b \in bs2
    BY <1>2, <1>5
  <2>2. \A j \in 1..i - 1 : t[j].ev = "End" => t[j].n # b.id
    BY <1>2, <1>5
  <2> QED BY <1>2, <1>5, <2>1, <2>2 DEF Covered
<1>6. ASSUME NEW s \in 1..(i + 1) - 1, w[s].ev = "Start", w[s].room = w[i + 1].room,
             \A j \in s..(i + 1) - 1 : w[j].ev = "End" => w[j].n # w[s].n
      PROVE  Covered(t, bs2, i)
  <2>1. CASE s = 1
    <3> DEFINE b == [id |-> w[1].n, room |-> w[1].room]
    <3>1. b \in bs2 /\ b.room = t[i].room
      BY <1>2, <1>6, <2>1
    <3>2. \A j \in 1..i - 1 : t[j].ev = "End" => t[j].n # b.id
      BY <1>2, <1>6, <2>1
    <3> QED BY <3>1, <3>2 DEF Covered
  <2>2. CASE s # 1
    <3>1. s - 1 \in 1..i - 1 /\ t[s - 1] = w[s]
      BY <1>1, <1>2, <1>6, <2>2
    <3>2. \A j \in s - 1..i - 1 : j + 1 \in s..(i + 1) - 1 /\ t[j] = w[j + 1]
      BY <1>1, <1>2, <1>6, <2>2
    <3>3. \A j \in s - 1..i - 1 : t[j].ev = "End" => t[j].n # t[s - 1].n
      BY <1>6, <3>1, <3>2
    <3> QED BY <1>2, <1>6, <3>1, <3>3 DEF Covered
  <2> QED BY <2>1, <2>2
<1> QED BY <1>3, <1>4, <1>5, <1>6 DEF Covered

\* Lines that are already there do not mind what comes after them.
LEMMA PrefixLiveFirst ==
    ASSUME NEW w \in Seq(Lines), NEW bs, NEW st, NEW v \in Seq(Lines), NEW k \in 0..Len(w),
           k <= Len(v), \A i \in 1..k : v[i] = w[i], LiveFirst(w, bs, st),
           NEW i \in 1..k, v[i].ev = "Message"
    PROVE  Covered(v, bs, i) \/ Fresh(v, st, i)
<1>1. Len(w) \in Nat /\ i \in 1..Len(w) /\ v[i] = w[i] /\ \A j \in 1..i - 1 : v[j] = w[j]
  OBVIOUS
<1>2. Covered(w, bs, i) \/ Fresh(w, st, i)
  BY <1>1 DEF LiveFirst
<1>3. ASSUME NEW b \in bs, b.room = w[i].room,
             \A j \in 1..i - 1 : w[j].ev = "End" => w[j].n # b.id
      PROVE  Covered(v, bs, i)
  <2>1. b.room = v[i].room /\ \A j \in 1..i - 1 : v[j].ev = "End" => v[j].n # b.id
    BY <1>1, <1>3
  <2> QED BY <2>1 DEF Covered
<1>5. ASSUME NEW s \in 1..i - 1, w[s].ev = "Start", w[s].room = w[i].room,
             \A j \in s..i - 1 : w[j].ev = "End" => w[j].n # w[s].n
      PROVE  Covered(v, bs, i)
  <2>1. \A j \in s..i - 1 : j \in 1..i - 1
    OBVIOUS
  <2>2. /\ v[s].ev = "Start" /\ v[s].room = v[i].room
        /\ \A j \in s..i - 1 : v[j].ev = "End" => v[j].n # v[s].n
    BY <1>1, <1>5, <2>1
  <2> QED BY <2>2 DEF Covered
<1>6. Covered(w, bs, i) => Covered(v, bs, i)
  BY <1>3, <1>5 DEF Covered
<1>4. Fresh(w, st, i) => Fresh(v, st, i)
  BY <1>1 DEF Fresh
<1> QED BY <1>2, <1>4, <1>6

\* A line is handled.
LEMMA WireHandled ==
    ASSUME WireInv, NEW e, Head1(e), UNCHANGED <<log, nextBatch, budget, member>>,
           asked' \subseteq Rooms, batches' \subseteq Batch,
           wire[1].ev = "Start" => [id |-> wire[1].n, room |-> wire[1].room] \in batches',
           \A b \in batches : b \in batches' \/ (wire[1].ev = "End" /\ wire[1].n = b.id),
           \A c \in Rooms : \A m \in stored'[c] :
               m \in stored[c] \/ (wire[1].ev = "Message" /\ m = wire[1].n)
    PROVE  WireInv'
<1>1. wire \in Seq(Lines) /\ wire # <<>> /\ wire' = Tail(wire)
  BY DEF WireInv, SessionOK, Head1
<1>2. LiveFirst(wire, batches, stored)
  BY DEF WireInv
<1>3. LiveFirst(Tail(wire), batches', stored')
  BY <1>1, <1>2, TailLiveFirst
<1>7. LiveFirst(wire', batches', stored')
  BY <1>1, <1>3
<1>4. LiveFirst(wire, batches, stored)'
  BY <1>7 DEF LiveFirst, Covered, Fresh
<1>5. /\ wire' \in Seq(Lines) /\ Len(wire') = Len(wire) - 1
      /\ \A i \in 1..Len(wire') : i + 1 \in 1..Len(wire) /\ wire'[i] = wire[i + 1]
  BY <1>1
<1>6. SessionOK'
  BY <1>5 DEF WireInv, SessionOK
<1> QED BY <1>4, <1>6 DEF WireInv

\* The session is cut: some of its lines are lost.
LEMMA WireCut ==
    ASSUME WireInv, NEW k \in 0..Len(wire), wire' = SubSeq(wire, 1, k),
           UNCHANGED <<log, stored, batches, nextBatch, budget>>,
           member' \subseteq Rooms, asked' \subseteq Rooms
    PROVE  WireInv'
<1>1. wire \in Seq(Lines) /\ LiveFirst(wire, batches, stored)
  BY DEF WireInv, SessionOK
<1>2. /\ wire' \in Seq(Lines) /\ Len(wire') = k /\ k <= Len(wire) /\ Len(wire) \in Nat
      /\ \A i \in 1..k : wire'[i] = wire[i]
  BY <1>1
<1>3. ASSUME NEW i \in 1..k, wire'[i].ev = "Message"
      PROVE  Covered(wire', batches, i) \/ Fresh(wire', stored, i)
  <2>1. k \in 0..Len(wire) /\ k <= Len(wire') /\ i \in 1..k
    BY <1>2
  <2> QED BY <1>1, <1>2, <1>3, <2>1, PrefixLiveFirst
<1>4. LiveFirst(wire, batches, stored)'
  BY <1>2, <1>3 DEF LiveFirst, Covered, Fresh
<1>5. SessionOK'
  BY <1>2 DEF WireInv, SessionOK
<1> QED BY <1>4, <1>5 DEF WireInv

\* The server adds a line.
LEMMA WireAppend ==
    ASSUME WireInv, log \in Seq(Said), NEW x \in Lines, wire' = Append(wire, x),
           UNCHANGED <<stored, batches, nextBatch, budget>>,
           member' \subseteq Rooms, asked' \subseteq Rooms,
           Len(log') \in Nat, Len(log) <= Len(log'),
           \A r \in 1..Len(log) : log'[r] = log[r],
           x.ev = "Message" =>
               /\ x.n \in 1..Len(log') /\ log'[x.n].room = x.room
               /\ x.n \notin stored[x.room] /\ x.n \notin 1..Len(log)
    PROVE  WireInv'
<1>1. /\ wire \in Seq(Lines) /\ LiveFirst(wire, batches, stored)
      /\ Len(wire) \in Nat /\ Len(log) \in Nat
  BY DEF WireInv, SessionOK
<1>2. /\ wire' \in Seq(Lines) /\ Len(wire') = Len(wire) + 1
      /\ \A i \in 1..Len(wire) : wire'[i] = wire[i]
      /\ wire'[Len(wire) + 1] = x
      /\ \A i \in 1..Len(wire') : i \in 1..Len(wire) \/ i = Len(wire) + 1
  BY <1>1
<1>3. ASSUME NEW i \in 1..Len(wire), wire'[i].ev = "Message"
      PROVE  Covered(wire', batches, i) \/ Fresh(wire', stored, i)
  <2> DEFINE k == Len(wire)
  <2>1. k \in 0..Len(wire) /\ k <= Len(wire') /\ i \in 1..k
    BY <1>1, <1>2
  <2> QED BY <1>1, <1>2, <1>3, <2>1, PrefixLiveFirst
<1>4. \A i \in 1..Len(wire) : wire[i].ev = "Message" =>
          wire[i].n \in 1..Len(log) /\ log[wire[i].n].room = wire[i].room
  BY DEF WireInv, SessionOK
<1>5. x.ev = "Message" => Fresh(wire', stored, Len(wire) + 1)
  BY <1>1, <1>2, <1>4 DEF Fresh
<1>6. LiveFirst(wire, batches, stored)'
  <2>1. \A i \in 1..Len(wire') : wire'[i].ev = "Message" =>
            Covered(wire', batches, i) \/ Fresh(wire', stored, i)
    BY <1>2, <1>3, <1>5
  <2> QED BY <2>1 DEF LiveFirst, Covered, Fresh
<1>7. \A i \in 1..Len(wire') : wire'[i].ev = "Message" =>
          wire'[i].n \in 1..Len(log') /\ log'[wire'[i].n].room = wire'[i].room
  <2>1. ASSUME NEW i \in 1..Len(wire), wire'[i].ev = "Message"
        PROVE  wire'[i].n \in 1..Len(log') /\ log'[wire'[i].n].room = wire'[i].room
    BY <1>1, <1>2, <1>4, <2>1
  <2> QED BY <1>2, <2>1
<1>8. SessionOK'
  BY <1>2, <1>7 DEF WireInv, SessionOK
<1> QED BY <1>6, <1>8 DEF WireInv

\* A history batch is replayed: its messages are covered by its first line.
LEMMA WireReplay ==
    ASSUME WireInv, StoreOK, NEW c \in Rooms, Replay(c)
    PROVE  WireInv'
<1> DEFINE L == Len(wire)
           first == Line("Start", c, nextBatch)
           last == Line("End", c, nextBatch)
<1>1. /\ wire \in Seq(Lines) /\ LiveFirst(wire, batches, stored) /\ nextBatch \in Nat
      /\ L \in Nat /\ Len(log) \in Nat
  BY DEF WireInv, SessionOK, StoreOK
<1>2. /\ Newest(c) \subseteq 1..Len(log) /\ \A m \in Newest(c) : log[m].room = c
      /\ Cardinality(Newest(c)) \in Nat
  <2>1. Newest(c) \subseteq 1..Len(log) /\ \A m \in Newest(c) : log[m].room = c
    BY DEF Newest
  <2>2. IsFiniteSet(1..Len(log))
    BY <1>1, FS_Interval
  <2> QED BY <2>1, <2>2, FS_Subset, FS_CardinalityType
<1>3. PICK s \in [1..Cardinality(Newest(c)) -> Newest(c)] :
          wire' = wire \o <<first>> \o [i \in DOMAIN s |-> Line("Message", c, s[i])] \o <<last>>
  BY DEF Replay
<1> DEFINE K == Cardinality(Newest(c))
           body == [i \in DOMAIN s |-> Line("Message", c, s[i])]
<1>4. /\ K \in Nat /\ first \in Lines /\ last \in Lines
      /\ body \in Seq(Lines) /\ Len(body) = K
      /\ \A i \in 1..K : /\ body[i] = Line("Message", c, s[i])
                         /\ s[i] \in 1..Len(log) /\ log[s[i]].room = c
  <2>1. first \in Lines /\ last \in Lines
    BY <1>1 DEF Line, Lines
  <2>2. \A i \in 1..K : s[i] \in Newest(c)
    OBVIOUS
  <2>3. \A i \in 1..K : s[i] \in 1..Len(log) /\ log[s[i]].room = c
    BY <1>2, <2>2
  <2>4. \A i \in 1..K : Line("Message", c, s[i]) \in Lines
    BY <1>1, <2>3 DEF Line, Lines
  <2>5. DOMAIN s = 1..K
    OBVIOUS
  <2>6. body \in [1..K -> Lines]
    BY <2>4, <2>5
  <2>7. body \in Seq(Lines) /\ Len(body) = K
    BY <1>2, <2>6
  <2> QED BY <1>2, <2>1, <2>3, <2>5, <2>7
<1>5. wire' = (wire \o <<first>> \o body) \o <<last>>
  BY <1>3
<1> HIDE DEF first, last, body, K
<1>6. /\ wire' \in Seq(Lines) /\ Len(wire') = L + K + 2
      /\ \A i \in 1..L : wire'[i] = wire[i]
      /\ wire'[L + 1] = first /\ wire'[L + K + 2] = last
      /\ \A i \in 1..K : wire'[L + 1 + i] = body[i]
  <2> DEFINE p == wire \o <<first>>
             q == p \o body
  <2>1. /\ p \in Seq(Lines) /\ Len(p) = L + 1 /\ p[L + 1] = first
        /\ \A i \in 1..L : p[i] = wire[i]
    BY <1>1, <1>4
  <2> HIDE DEF p
  <2>2. /\ q \in Seq(Lines) /\ Len(q) = L + 1 + K
        /\ \A i \in 1..L + 1 : q[i] = p[i]
        /\ \A i \in 1..K : q[L + 1 + i] = body[i]
    <3>1. /\ q \in Seq(Lines) /\ Len(q) = L + 1 + K
          /\ \A i \in 1..L + 1 + K : q[i] = IF i <= L + 1 THEN p[i] ELSE body[i - (L + 1)]
      <4>1. /\ q \in Seq(Lines) /\ Len(q) = Len(p) + Len(body)
            /\ \A i \in 1..Len(p) + Len(body) :
                   q[i] = IF i <= Len(p) THEN p[i] ELSE body[i - Len(p)]
        BY <1>4, <2>1, ConcatProperties, Zenon
      <4> HIDE DEF q
      <4> QED BY <1>1, <1>4, <2>1, <4>1
    <3>2. ASSUME NEW i \in 1..K PROVE q[L + 1 + i] = body[i]
      <4>1. L + 1 + i \in 1..L + 1 + K /\ ~(L + 1 + i <= L + 1) /\ L + 1 + i - (L + 1) = i
        BY <1>1, <1>4
      <4> QED BY <3>1, <4>1
    <3>3. ASSUME NEW i \in 1..L + 1 PROVE q[i] = p[i]
      BY <1>1, <1>4, <3>1
    <3> QED BY <3>1, <3>2, <3>3
  <2>3. wire' = q \o <<last>>
    BY <1>5 DEF p
  <2> HIDE DEF q
  <2>4. /\ wire' \in Seq(Lines) /\ Len(wire') = L + K + 2 /\ wire'[L + K + 2] = last
        /\ \A i \in 1..L + 1 + K : wire'[i] = q[i]
    <3>1. /\ <<last>> \in Seq(Lines) /\ Len(<<last>>) = 1 /\ <<last>>[1] = last
          /\ L + K + 2 = L + 1 + K + 1 /\ L + 1 + K \in Nat
      BY <1>1, <1>4
    <3> HIDE DEF last
    <3>2. /\ wire' \in Seq(Lines) /\ Len(wire') = Len(q) + Len(<<last>>)
          /\ \A i \in 1..Len(q) + Len(<<last>>) :
                 wire'[i] = IF i <= Len(q) THEN q[i] ELSE <<last>>[i - Len(q)]
      BY <2>2, <2>3, <3>1, ConcatProperties, Zenon
    <3> QED BY <2>2, <3>1, <3>2
  <2>5. /\ L + 1 \in 1..L + 1 /\ \A i \in 1..L : i \in 1..L + 1
        /\ \A i \in 1..L + 1 : i \in 1..L + 1 + K
        /\ \A i \in 1..K : L + 1 + i \in 1..L + 1 + K
    BY <1>1, <1>4
  <2> QED BY <2>1, <2>2, <2>4, <2>5
<1>7. /\ first.ev = "Start" /\ first.room = c /\ first.n = nextBatch /\ last.ev = "End"
      /\ \A i \in 1..K : body[i].ev = "Message" /\ body[i].room = c /\ body[i].n = s[i]
  BY <1>4 DEF first, last, Line
<1>8. ASSUME NEW i \in 1..Len(wire')
      PROVE  \/ i \in 1..L /\ wire'[i] = wire[i]
             \/ i = L + 1 /\ wire'[i].ev # "Message"
             \/ i = L + K + 2 /\ wire'[i].ev # "Message"
             \/ \E k \in 1..K : i = L + 1 + k /\ wire'[i] = body[k]
  <2>1. \/ i \in 1..L \/ i = L + 1 \/ i = L + K + 2 \/ i - L - 1 \in 1..K
    BY <1>1, <1>4, <1>6
  <2>2. CASE i - L - 1 \in 1..K
    <3>1. i = L + 1 + (i - L - 1)
      BY <1>1
    <3> QED BY <1>6, <2>2, <3>1
  <2> QED BY <1>6, <1>7, <2>1, <2>2
<1>9. ASSUME NEW i \in 1..L, wire'[i].ev = "Message"
      PROVE  Covered(wire', batches, i) \/ Fresh(wire', stored, i)
  <2>1. L \in 0..Len(wire) /\ L <= Len(wire')
    BY <1>1, <1>4, <1>6
  <2> QED BY <1>1, <1>6, <1>9, <2>1, PrefixLiveFirst
<1>10. ASSUME NEW k \in 1..K
       PROVE  Covered(wire', batches, L + 1 + k)
  <2>1. L + 1 \in 1..(L + 1 + k) - 1
    BY <1>1, <1>4
  <2>2. \A j \in L + 1..(L + 1 + k) - 1 : j = L + 1 \/ j - L - 1 \in 1..K
    BY <1>1, <1>4
  <2>3. \A j \in L + 1..(L + 1 + k) - 1 : wire'[j].ev # "End"
    <3> SUFFICES ASSUME NEW j \in L + 1..(L + 1 + k) - 1 PROVE wire'[j].ev # "End"
      OBVIOUS
    <3>1. CASE j = L + 1
      BY <1>6, <1>7, <3>1
    <3>2. CASE j - L - 1 \in 1..K
      <4>1. j = L + 1 + (j - L - 1)
        BY <1>1
      <4>2. wire'[j] = body[j - L - 1]
        BY <1>6, <3>2, <4>1
      <4> QED BY <1>7, <3>2, <4>2
    <3> QED BY <2>2, <3>1, <3>2
  <2>4. wire'[L + 1].ev = "Start" /\ wire'[L + 1].room = wire'[L + 1 + k].room
    BY <1>6, <1>7
  <2> QED BY <2>1, <2>3, <2>4 DEF Covered
<1>11. \A i \in 1..Len(wire') : wire'[i].ev = "Message" =>
           Covered(wire', batches, i) \/ Fresh(wire', stored, i)
  BY <1>8, <1>9, <1>10
<1>12. /\ UNCHANGED <<log, stored, batches, budget>> /\ asked' = asked \ {c}
       /\ nextBatch' = nextBatch + 1 /\ member' = member
  BY DEF Replay, diskVars
<1>13. LiveFirst(wire, batches, stored)'
  BY <1>11, <1>12 DEF LiveFirst, Covered, Fresh
<1>14. \A i \in 1..Len(wire') : wire'[i].ev = "Message" =>
           wire'[i].n \in 1..Len(log) /\ log[wire'[i].n].room = wire'[i].room
  <2>1. \A i \in 1..L : wire[i].ev = "Message" =>
            wire[i].n \in 1..Len(log) /\ log[wire[i].n].room = wire[i].room
    BY DEF WireInv, SessionOK
  <2>2. \A k \in 1..K : body[k].n \in 1..Len(log) /\ log[body[k].n].room = body[k].room
    BY <1>4, <1>7
  <2>3. ASSUME NEW i \in 1..Len(wire'), wire'[i].ev = "Message"
        PROVE  (i \in 1..L /\ wire'[i] = wire[i]) \/ \E k \in 1..K : wire'[i] = body[k]
    BY <1>8, <2>3
  <2>4. ASSUME NEW i \in 1..Len(wire'), wire'[i].ev = "Message"
        PROVE  wire'[i].n \in 1..Len(log) /\ log[wire'[i].n].room = wire'[i].room
    <3>1. CASE i \in 1..L /\ wire'[i] = wire[i]
      BY <2>1, <2>4, <3>1
    <3>2. CASE \E k \in 1..K : wire'[i] = body[k]
      <4>1. PICK k \in 1..K : wire'[i] = body[k]
        BY <3>2
      <4> QED BY <2>2, <4>1
    <3> QED BY <2>3, <2>4, <3>1, <3>2
  <2> QED BY <2>4
<1>15. SessionOK'
  BY <1>1, <1>6, <1>12, <1>14 DEF WireInv, SessionOK
<1> QED BY <1>13, <1>15 DEF WireInv

---------------------------------------------------------------------------
(* The buffers                                                             *)

\* Badges of shown rooms follow what the store counts when the store, the
\* shown rooms and the badges move together.
LEMMA BadgesFollow ==
    ASSUME BufferInv, StoreOK', Len(log) <= Len(log'), Len(log) \in Nat,
           NEW c \in Rooms, shown' = shown \cup {c}, filled' \subseteq filled \cup {c},
           badge' = [badge EXCEPT ![c] = Unread(c)'],
           \A d \in Rooms \ {c} : Unread(d)' = Unread(d)
    PROVE  BufferInv'
<1>1. Unread(c)' \subseteq 1..Len(log')
  BY DEF StoreOK, Unread, UnreadOf
<1>2. badge \in [Rooms -> SUBSET (1..Len(log))] /\ Len(log') \in Nat
  BY DEF BufferInv, BuffersOK, StoreOK
<1>3. \A d \in Rooms : badge[d] \subseteq 1..Len(log')
  BY <1>2
<1>4. badge' \in [Rooms -> SUBSET (1..Len(log'))]
  BY <1>1, <1>2, <1>3
<1>5. shown' \subseteq Rooms /\ filled' \subseteq shown'
  BY DEF BufferInv, BuffersOK
<1>6. \A d \in shown' : badge'[d] = Unread(d)'
  BY <1>2, <1>5 DEF BufferInv, BadgeAgrees
<1> QED BY <1>4, <1>5, <1>6 DEF BufferInv, BuffersOK, BadgeAgrees

\* Buffers that go away, and a store that counts as before.
LEMMA BadgesStay ==
    ASSUME BufferInv, StoreOK', Len(log) <= Len(log'), Len(log) \in Nat,
           shown' \subseteq shown, filled' \subseteq filled \cap shown',
           badge' \in [Rooms -> SUBSET (1..Len(log))],
           \A d \in shown' : badge'[d] = badge[d],
           \A d \in Rooms : Unread(d)' = Unread(d)
    PROVE  BufferInv'
<1>1. Len(log') \in Nat
  BY DEF StoreOK
<1>2. badge' \in [Rooms -> SUBSET (1..Len(log'))]
  <2>1. \A d \in Rooms : badge'[d] \subseteq 1..Len(log')
    BY <1>1
  <2> QED BY <2>1
<1>3. \A d \in shown' : badge'[d] = Unread(d)'
  BY DEF BufferInv, BuffersOK, BadgeAgrees
<1> QED BY <1>2, <1>3 DEF BufferInv, BuffersOK, BadgeAgrees

---------------------------------------------------------------------------
(* What a step does                                                        *)

\* The store stays as it is, and a chat is closed at most.
Quiet ==
    /\ stored' = stored /\ open' \in {open, NoRoom}
    /\ \A d \in Rooms : Unread(d)' = Unread(d)

\* The user opens a room.
Reads ==
    /\ stored' = stored
    /\ \E c \in Rooms : /\ open' = c /\ Unread(c)' = {}
                        /\ \A d \in Rooms \ {c} : Unread(d)' = Unread(d)

\* A message that is live and later than all the user has seen of its room.
IsLive(c, m) ==
    /\ open # c /\ ~InBatch(c) /\ ~log[m].mine /\ log[m].at > looked[c]
    /\ \A r \in stored[c] : log[m].at > log[r].at

\* A row is stored, and counts or does not.
Stores ==
    \E c \in Rooms, m \in 1..Len(log) :
        /\ stored' = [stored EXCEPT ![c] = stored[c] \cup {m}]
        /\ UNCHANGED open
        /\ \A d \in Rooms \ {c} : Unread(d)' = Unread(d)
        /\ \/ Unread(c)' = Unread(c)
           \/ open # c /\ Unread(c)' = Unread(c) \cup {m}
        /\ m \in stored[c] => Unread(c)' = Unread(c)
        /\ IsLive(c, m) => m \in Unread(c)'

Effect == Quiet \/ Reads \/ Stores

\* The common facts of the invariant.
LEMMA Basics ==
    ASSUME IInv
    PROVE  /\ Len(log) \in Nat /\ log \in Seq(Said) /\ now \in Nat \ {0}
           /\ shown \subseteq Rooms /\ filled \subseteq shown /\ member \subseteq Rooms
           /\ asked \subseteq Rooms /\ batches \subseteq Batch /\ nextBatch \in Nat
           /\ budget \in Budgets
           /\ wire \in Seq(Lines) /\ Len(wire) \in Nat
           /\ wire # <<>> => wire[1] \in Lines /\ wire[1].room \in Rooms /\ wire[1].n \in Nat
           /\ badge \in [Rooms -> SUBSET (1..Len(log))]
<1>1. wire \in Seq(Lines) /\ log \in Seq(Said)
  BY DEF IInv, WireInv, SessionOK, StoreInv, StoreOK
<1>2. wire # <<>> => wire[1] \in Lines
  BY <1>1
<1> QED BY <1>1, <1>2 DEF IInv, WireInv, SessionOK, StoreInv, StoreOK, BufferInv, BuffersOK, Lines

\* Own JOIN: a buffer of its own, with the count of the store.
LEMMA StepJoined ==
    ASSUME IInv, OnJoined
    PROVE  IInv' /\ Effect
<1>0. PICK c \in Rooms : c = wire[1].room
  BY Basics DEF OnJoined, Head1
<1>1. /\ Head1("Joined") /\ UNCHANGED <<log, now, stored, mark, batches, open, looked>>
      /\ UNCHANGED <<member, nextBatch, budget>>
      /\ shown' = shown \cup {c} /\ filled' = filled
      /\ badge' = IF c \in shown THEN badge ELSE [badge EXCEPT ![c] = Unread(c)]
      /\ asked' \subseteq Rooms /\ c \in Rooms /\ wire # <<>> /\ wire[1].ev = "Joined"
  BY <1>0, Basics DEF OnJoined, EnsureBuffer, AskHistory, Head1, diskVars
<1>2. StoreInv' /\ \A d \in Rooms : Unread(d)' = Unread(d)
  BY <1>1, Basics, StoreStays DEF IInv
<1>3. WireInv'
  BY <1>1, Basics, WireHandled DEF IInv
<1>4. BufferInv'
  <2>1. CASE c \in shown
    <3>1. shown' = shown /\ badge' = badge
      BY <1>1, <2>1
    <3> QED BY <1>1, <1>2, <3>1, Basics, BadgesStay DEF IInv, StoreInv
  <2>2. CASE c \notin shown
    <3>1. BufferInv /\ StoreOK' /\ Len(log) <= Len(log') /\ Len(log) \in Nat
      BY <1>1, <1>2, Basics DEF IInv, StoreInv
    <3>2. shown' = shown \cup {c} /\ filled' \subseteq filled \cup {c}
      BY <1>1
    <3>3. badge' = [badge EXCEPT ![c] = Unread(c)']
      BY <1>1, <1>2, <2>2
    <3>4. \A d \in Rooms \ {c} : Unread(d)' = Unread(d)
      BY <1>2
    <3> QED BY <3>1, <3>2, <3>3, <3>4, BadgesFollow
  <2> QED BY <2>1, <2>2
<1> QED BY <1>1, <1>2, <1>3, <1>4 DEF IInv, Effect, Quiet

\* The buffer of a room goes away.
LEMMA BufferDropped ==
    ASSUME IInv, NEW c \in Rooms, DropBuffer(c), UNCHANGED <<log, now, stored, mark, looked>>
    PROVE  /\ StoreInv' /\ BufferInv' /\ Quiet
<1>1. /\ shown' = shown \ {c} /\ filled' = filled \ {c}
      /\ badge' = [badge EXCEPT ![c] = {}] /\ open' \in {open, NoRoom}
  BY DEF DropBuffer
<1>2. StoreInv' /\ \A d \in Rooms : Unread(d)' = Unread(d)
  BY <1>1, Basics, StoreStays DEF IInv
<1>3. /\ badge' \in [Rooms -> SUBSET (1..Len(log))]
      /\ \A d \in shown' : badge'[d] = badge[d]
      /\ shown' \subseteq shown /\ filled' \subseteq filled \cap shown'
  BY <1>1, Basics
<1>4. BufferInv'
  BY <1>2, <1>3, Basics, BadgesStay DEF IInv, StoreInv
<1> QED BY <1>1, <1>2, <1>4 DEF Quiet

\* Own PART.
LEMMA StepParted ==
    ASSUME IInv, OnParted
    PROVE  IInv' /\ Effect
<1> DEFINE c == wire[1].room
<1>1. /\ Head1("Parted") /\ UNCHANGED <<log, now, stored, mark, batches, looked>>
      /\ UNCHANGED <<member, asked, nextBatch, budget>>
      /\ DropBuffer(c) /\ c \in Rooms /\ wire[1].ev = "Parted"
  BY Basics DEF OnParted, Head1, diskVars
<1>2. StoreInv' /\ BufferInv' /\ Quiet
  BY <1>1, BufferDropped
<1>3. WireInv'
  BY <1>1, Basics, WireHandled DEF IInv
<1> QED BY <1>2, <1>3 DEF IInv, Effect

\* The user leaves a room.
LEMMA StepPart ==
    ASSUME IInv, NEW c \in Rooms, PartRoom(c)
    PROVE  IInv' /\ Effect
<1>1. /\ UNCHANGED <<log, now, stored, mark, batches, looked>>
      /\ UNCHANGED <<asked, nextBatch, budget>>
      /\ DropBuffer(c) /\ member' = member \ {c}
      /\ wire' = Append(wire, Line("Parted", c, 0))
  BY DEF PartRoom, diskVars
<1>2. StoreInv' /\ BufferInv' /\ Quiet
  BY <1>1, BufferDropped
<1>3. Line("Parted", c, 0) \in Lines /\ Line("Parted", c, 0).ev = "Parted"
  BY DEF Line, Lines
<1>4. WireInv'
  BY <1>1, <1>3, Basics, WireAppend DEF IInv
<1> QED BY <1>2, <1>4 DEF IInv, Effect

\* A message, live or of a batch.
LEMMA StepMessage ==
    ASSUME IInv, OnMessage
    PROVE  IInv' /\ Effect
<1>0. PICK c \in Rooms, m \in Nat : c = wire[1].room /\ m = wire[1].n
  BY Basics DEF OnMessage, Head1
<1>1. /\ Head1("Message") /\ UNCHANGED <<log, now, batches, open, looked>>
      /\ UNCHANGED <<member, asked, nextBatch, budget>>
      /\ shown' = shown \cup {c} /\ filled' = filled \cup {c}
      /\ wire[1].ev = "Message" /\ c = wire[1].room /\ m = wire[1].n
      /\ badge' = [badge EXCEPT ![c] = UnreadOf(stored[c] \cup {m},
                                                Watermark(c, m, stored[c] \cup {m}))]
  BY <1>0 DEF OnMessage, Head1
<1>2. /\ StoreInv' /\ c \in Rooms /\ m \in 1..Len(log)
      /\ stored' = [stored EXCEPT ![c] = stored[c] \cup {m}]
      /\ \A d \in Rooms \ {c} : Unread(d)' = Unread(d)
      /\ Unread(c)' = UnreadOf(stored[c] \cup {m}, Watermark(c, m, stored[c] \cup {m}))
      /\ \/ Unread(c)' = Unread(c)
         \/ open # c /\ Unread(c)' = Unread(c) \cup {m}
      /\ m \in stored[c] => Unread(c)' = Unread(c)
      /\ IsLive(c, m) => m \in Unread(c)'
  BY <1>1, StoreMessage DEF IInv, IsLive
<1>3. BufferInv'
  <2>1. BufferInv /\ StoreOK' /\ Len(log) <= Len(log') /\ Len(log) \in Nat
    BY <1>1, <1>2, Basics DEF IInv, StoreInv
  <2>2. shown' = shown \cup {c} /\ filled' \subseteq filled \cup {c}
    BY <1>1
  <2>3. badge' = [badge EXCEPT ![c] = Unread(c)']
    BY <1>1, <1>2
  <2>4. \A d \in Rooms \ {c} : Unread(d)' = Unread(d)
    BY <1>2
  <2> QED BY <2>1, <2>2, <2>3, <2>4, BadgesFollow
<1>4. \A d \in Rooms : \A k \in stored'[d] : k \in stored[d] \/ k = m
  BY <1>2 DEF IInv, StoreInv, StoreOK
<1>5. WireInv'
  BY <1>1, <1>4, Basics, WireHandled DEF IInv
<1>6. Stores
  BY <1>1, <1>2 DEF Stores
<1> QED BY <1>2, <1>3, <1>5, <1>6 DEF IInv, Effect

\* A history batch begins.
LEMMA StepBatchStart ==
    ASSUME IInv, OnBatchStart
    PROVE  IInv' /\ Effect
<1> DEFINE b == [id |-> wire[1].n, room |-> wire[1].room]
<1>1. /\ Head1("Start") /\ batches' = batches \cup {b} /\ wire # <<>> /\ wire[1].ev = "Start"
      /\ UNCHANGED <<log, now, stored, mark, open, looked, shown, filled, badge>>
      /\ UNCHANGED <<member, asked, nextBatch, budget>>
  BY DEF OnBatchStart, Head1, diskVars, bufVars
<1>2. b \in Batch
  BY <1>1, Basics DEF Batch
<1>3. StoreInv' /\ \A d \in Rooms : Unread(d)' = Unread(d)
  BY <1>1, Basics, StoreStays DEF IInv
<1>4. BufferInv'
  BY <1>1, <1>3, Basics, BadgesStay DEF IInv, StoreInv
<1>5. WireInv'
  BY <1>1, <1>2, Basics, WireHandled DEF IInv
<1> QED BY <1>1, <1>3, <1>4, <1>5 DEF IInv, Effect, Quiet

\* A history batch ends.
LEMMA StepBatchEnd ==
    ASSUME IInv, OnBatchEnd
    PROVE  IInv' /\ Effect
<1>0. PICK c \in Rooms : c = wire[1].room
  BY Basics DEF OnBatchEnd, Head1
<1>1. /\ Head1("End") /\ batches' = {b \in batches : b.id # wire[1].n} /\ wire[1].ev = "End"
      /\ UNCHANGED <<log, now, stored, shown, filled, open, member, asked>>
      /\ UNCHANGED <<nextBatch, budget, looked>>
      /\ c = wire[1].room /\ c \in Rooms
      /\ badge' = IF c \in shown
                  THEN [badge EXCEPT ![c] = UnreadOf(stored[c], Baseline(mark[c], stored[c]))]
                  ELSE badge
  BY <1>0 DEF OnBatchEnd, Head1
<1>2. /\ StoreInv' /\ \A d \in Rooms : Unread(d)' = Unread(d)
      /\ Unread(c)' = UnreadOf(stored[c], Baseline(mark[c], stored[c]))
  BY <1>1, StoreBatchEnd DEF IInv
<1>3. BufferInv'
  <2>1. CASE c \in shown
    <3>1. BufferInv /\ StoreOK' /\ Len(log) <= Len(log') /\ Len(log) \in Nat
      BY <1>1, <1>2, Basics DEF IInv, StoreInv
    <3>2. shown' = shown \cup {c} /\ filled' \subseteq filled \cup {c}
      BY <1>1, <2>1
    <3>3. badge' = [badge EXCEPT ![c] = Unread(c)']
      BY <1>1, <1>2, <2>1
    <3>4. \A d \in Rooms \ {c} : Unread(d)' = Unread(d)
      BY <1>2
    <3> QED BY <3>1, <3>2, <3>3, <3>4, BadgesFollow
  <2>2. CASE c \notin shown
    <3>1. badge' = badge
      BY <1>1, <2>2
    <3> QED BY <1>1, <1>2, <3>1, Basics, BadgesStay DEF IInv, StoreInv
  <2> QED BY <2>1, <2>2
<1>4. WireInv'
  BY <1>1, Basics, WireHandled DEF IInv
<1> QED BY <1>1, <1>2, <1>3, <1>4 DEF IInv, Effect, Quiet

\* The user opens a room.
LEMMA StepOpen ==
    ASSUME IInv, NEW c \in Rooms, OpenChat(c)
    PROVE  IInv' /\ Effect
<1>1. /\ UNCHANGED <<log, now, stored, filled, batches, member, wire, nextBatch, budget>>
      /\ shown' = shown \cup {c} /\ open' = c /\ asked' \subseteq Rooms
      /\ badge' = [badge EXCEPT ![c] = UnreadOf(stored[c], MarkRead(mark[c], stored[c], now))]
  BY Basics DEF OpenChat, AskHistory
<1>2. /\ StoreInv' /\ Unread(c)' = {}
      /\ \A d \in Rooms \ {c} : Unread(d)' = Unread(d)
      /\ Unread(c)' = UnreadOf(stored[c], MarkRead(mark[c], stored[c], now))
  BY StoreOpen DEF IInv
<1>3. badge' = [badge EXCEPT ![c] = Unread(c)']
  BY <1>1, <1>2
<1>4. BufferInv'
  <2>1. BufferInv /\ StoreOK' /\ Len(log) <= Len(log') /\ Len(log) \in Nat
    BY <1>1, <1>2, Basics DEF IInv, StoreInv
  <2>2. shown' = shown \cup {c} /\ filled' \subseteq filled \cup {c}
    BY <1>1
  <2>3. badge' = [badge EXCEPT ![c] = Unread(c)']
    BY <1>3
  <2>4. \A d \in Rooms \ {c} : Unread(d)' = Unread(d)
    BY <1>2
  <2> QED BY <2>1, <2>2, <2>3, <2>4, BadgesFollow
<1>5. WireInv'
  <2>1. SessionOK'
    BY <1>1 DEF IInv, WireInv, SessionOK
  <2>2. LiveFirst(wire, batches, stored)'
    BY <1>1 DEF IInv, WireInv, LiveFirst, Covered, Fresh
  <2> QED BY <2>1, <2>2 DEF WireInv
<1> QED BY <1>1, <1>2, <1>4, <1>5 DEF IInv, Effect, Reads

\* The session goes down, with the buffers or without them.
LEMMA StepCut ==
    ASSUME IInv, Disconnect \/ Drop
    PROVE  IInv' /\ Effect
<1>1. /\ UNCHANGED <<log, now, stored, mark, batches, nextBatch, budget, looked>>
      /\ member' = {} /\ asked' = {} /\ open' \in {open, NoRoom}
  BY DEF Disconnect, Drop, diskVars, bufVars
<1>2. StoreInv' /\ \A d \in Rooms : Unread(d)' = Unread(d)
  BY <1>1, Basics, StoreStays DEF IInv
<1>3. PICK k \in 0..Len(wire) : wire' = SubSeq(wire, 1, k)
  BY DEF Disconnect, Drop
<1>4. WireInv'
  BY <1>1, <1>3, WireCut DEF IInv
<1>5. /\ shown' \subseteq shown /\ filled' \subseteq filled \cap shown'
      /\ badge' \in [Rooms -> SUBSET (1..Len(log))]
      /\ \A d \in shown' : badge'[d] = badge[d]
  BY Basics DEF Disconnect, Drop, bufVars
<1>6. BufferInv'
  BY <1>1, <1>2, <1>5, Basics, BadgesStay DEF IInv, StoreInv
<1> QED BY <1>1, <1>2, <1>4, <1>6 DEF IInv, Effect, Quiet

\* The process starts again.
LEMMA StepRestart ==
    ASSUME IInv, Restart
    PROVE  IInv' /\ Effect
<1>1. /\ UNCHANGED <<log, now, stored, mark, nextBatch, budget, looked>>
      /\ member' = {} /\ asked' = {} /\ wire' = <<>> /\ batches' = {} /\ open' = NoRoom
      /\ shown' = {} /\ filled' = {} /\ badge' = [d \in Rooms |-> {}]
  BY DEF Restart, diskVars
<1>2. StoreInv' /\ \A d \in Rooms : Unread(d)' = Unread(d)
  BY <1>1, Basics, StoreStays DEF IInv
<1>3. WireInv'
  BY <1>1, Basics DEF IInv, WireInv, SessionOK, LiveFirst
<1>4. BufferInv'
  BY <1>1, <1>2, Basics, BadgesStay DEF IInv, StoreInv
<1> QED BY <1>1, <1>2, <1>3, <1>4 DEF IInv, Effect, Quiet

\* Nothing but the session, the clock or the open chat moves.
LEMMA StepAside ==
    ASSUME IInv, UNCHANGED <<log, stored, mark, looked, shown, filled, badge>>,
           open' \in {open, NoRoom}, now' \in Nat \ {0}, now <= now', WireInv'
    PROVE  IInv' /\ Effect
<1>1. StoreInv' /\ \A d \in Rooms : Unread(d)' = Unread(d)
  BY StoreStays DEF IInv
<1>2. BufferInv'
  BY <1>1, Basics, BadgesStay DEF IInv, StoreInv
<1> QED BY <1>1, <1>2 DEF IInv, Effect, Quiet

\* A message is said.
LEMMA StepPost ==
    ASSUME IInv, NEW c \in Rooms, NEW mine \in BOOLEAN, Post(c, mine)
    PROVE  IInv' /\ Effect
<1> DEFINE x == Line("Message", c, Len(log) + 1)
           y == [room |-> c, at |-> now, mine |-> mine]
<1>1. /\ UNCHANGED <<now, stored, mark, shown, filled, badge, batches, open, member, asked>>
      /\ UNCHANGED <<nextBatch, budget, looked>>
      /\ log' = Append(log, y)
      /\ wire' = IF c \in member THEN Append(wire, x) ELSE wire
  BY DEF Post, diskVars, bufVars
<1>2. StoreInv' /\ \A d \in Rooms : Unread(d)' = Unread(d)
  BY Basics, StorePost DEF IInv
<1>3. /\ y \in Said /\ y.room = c /\ x \in Lines
      /\ x.ev = "Message" /\ x.room = c /\ x.n = Len(log) + 1
  BY Basics DEF Said, Line, Lines
<1>4. /\ Len(log') = Len(log) + 1 /\ log'[Len(log) + 1] = y
      /\ \A r \in 1..Len(log) : log'[r] = log[r]
      /\ Len(log') \in Nat /\ Len(log) <= Len(log') /\ Len(log) + 1 \in 1..Len(log')
      /\ Len(log) + 1 \notin 1..Len(log)
  BY <1>1, <1>3, Basics
<1>5. BufferInv'
  BY <1>1, <1>2, <1>4, Basics, BadgesStay DEF IInv, StoreInv
<1>6. Len(log) + 1 \notin stored[c]
  BY <1>4 DEF IInv, StoreInv, StoreOK
<1>7. WireInv'
  <2>1. CASE c \in member
    <3>1. wire' = Append(wire, x)
      BY <1>1, <2>1
    <3> HIDE DEF x, y
    <3> QED BY <1>1, <1>3, <1>4, <1>6, <3>1, Basics, WireAppend DEF IInv
  <2>2. CASE c \notin member
    <3>1. wire' = wire
      BY <1>1, <2>2
    <3>2. \A i \in 1..Len(wire) : wire[i].ev = "Message" =>
              wire[i].n \in 1..Len(log') /\ log'[wire[i].n].room = wire[i].room
      BY <1>4, Basics DEF IInv, WireInv, SessionOK
    <3>3. SessionOK'
      BY <1>1, <3>1, <3>2 DEF IInv, WireInv, SessionOK
    <3>4. LiveFirst(wire, batches, stored)'
      BY <1>1, <3>1 DEF IInv, WireInv, LiveFirst, Covered, Fresh
    <3> QED BY <3>3, <3>4 DEF WireInv
  <2> QED BY <2>1, <2>2
<1> QED BY <1>1, <1>2, <1>5, <1>7 DEF IInv, Effect, Quiet

---------------------------------------------------------------------------
(* The theorems                                                            *)

LEMMA InitInv == Init => IInv
<1> SUFFICES ASSUME Init PROVE IInv
  OBVIOUS
<1>1. StoreOK
  BY LimitsAssumption DEF Init, StoreOK, NoMark
<1>2. OpenIsRead /\ MarkJustified
  BY RoomsAssumption DEF Init, OpenIsRead, MarkJustified, NoMark
<1>3. \A c \in Rooms : HasLatest(stored[c])
  BY DEF Init, HasLatest
<1>4. BufferInv
  BY DEF Init, BufferInv, BuffersOK, BadgeAgrees
<1>5. SessionOK /\ LiveFirst(wire, batches, stored)
  BY DEF Init, SessionOK, LiveFirst
<1> QED BY <1>1, <1>2, <1>3, <1>4, <1>5 DEF IInv, StoreInv, WireInv

LEMMA StepInv ==
    ASSUME IInv, [Next]_vars
    PROVE  IInv' /\ Effect
<1>1. CASE UNCHANGED vars
  <2>1. /\ UNCHANGED <<log, stored, mark, looked, shown, filled, badge, now, open>>
        /\ UNCHANGED <<batches, member, wire, asked, nextBatch, budget>>
    BY <1>1 DEF vars, diskVars, bufVars, netVars
  <2>2. WireInv'
    BY <2>1 DEF IInv, WireInv, SessionOK, LiveFirst, Covered, Fresh
  <2> QED BY <2>1, <2>2, Basics, StepAside
<1>2. CASE OnJoined
  BY <1>2, StepJoined
<1>3. CASE OnParted
  BY <1>3, StepParted
<1>4. CASE OnMessage
  BY <1>4, StepMessage
<1>5. CASE OnBatchStart
  BY <1>5, StepBatchStart
<1>6. CASE OnBatchEnd
  BY <1>6, StepBatchEnd
<1>7. CASE \E c \in Rooms : OpenChat(c) \/ PartRoom(c)
  BY <1>7, StepOpen, StepPart
<1>8. CASE Disconnect \/ Drop
  BY <1>8, StepCut
<1>9. CASE Restart
  BY <1>9, StepRestart
<1>10. CASE CloseChat
  <2>1. /\ UNCHANGED <<log, stored, mark, looked, shown, filled, badge, now>>
        /\ UNCHANGED <<batches, member, wire, asked, nextBatch, budget>>
        /\ open' \in {open, NoRoom}
    BY <1>10 DEF CloseChat, diskVars, bufVars, netVars
  <2>2. WireInv'
    BY <2>1 DEF IInv, WireInv, SessionOK, LiveFirst, Covered, Fresh
  <2> QED BY <2>1, <2>2, Basics, StepAside
<1>11. CASE Tick
  <2>1. /\ UNCHANGED <<log, stored, mark, looked, shown, filled, badge, open>>
        /\ UNCHANGED <<batches, member, wire, asked, nextBatch, budget>>
        /\ now' = now + 1
    BY <1>11 DEF Tick, diskVars, bufVars, netVars
  <2>2. WireInv'
    BY <2>1 DEF IInv, WireInv, SessionOK, LiveFirst, Covered, Fresh
  <2>3. now' \in Nat \ {0} /\ now <= now'
    BY <2>1, Basics
  <2> QED BY <2>1, <2>2, <2>3, StepAside
<1>12. ASSUME NEW c \in Rooms, Join(c) PROVE IInv' /\ Effect
  <2>1. /\ UNCHANGED <<log, stored, mark, looked, shown, filled, badge, open, now>>
        /\ UNCHANGED <<batches, asked, nextBatch, budget>>
        /\ member' = member \cup {c} /\ wire' = Append(wire, Line("Joined", c, 0))
    BY <1>12 DEF Join, diskVars, bufVars
  <2>2. Line("Joined", c, 0) \in Lines /\ Line("Joined", c, 0).ev = "Joined"
    BY DEF Line, Lines
  <2>3. WireInv'
    BY <2>1, <2>2, Basics, WireAppend DEF IInv
  <2>4. now' \in Nat \ {0} /\ now <= now'
    BY <2>1, Basics
  <2> QED BY <2>1, <2>3, <2>4, StepAside
<1>13. ASSUME NEW c \in Rooms, Replay(c) PROVE IInv' /\ Effect
  <2>1. UNCHANGED <<log, stored, mark, looked, shown, filled, badge, open, now>>
    BY <1>13 DEF Replay, diskVars, bufVars
  <2>2. WireInv'
    BY <1>13, WireReplay DEF IInv, StoreInv
  <2>3. now' \in Nat \ {0} /\ now <= now'
    BY <2>1, Basics
  <2> QED BY <2>1, <2>2, <2>3, StepAside
<1>14. CASE \E c \in Rooms, mine \in BOOLEAN : Post(c, mine)
  BY <1>14, StepPost
<1> QED BY <1>1, <1>2, <1>3, <1>4, <1>5, <1>6, <1>7, <1>8, <1>9, <1>10, <1>11, <1>12, <1>13,
           <1>14 DEF Next

\* The inductive invariant holds in every reachable state.
THEOREM Invariance == Spec => []IInv
<1>1. IInv /\ [Next]_vars => IInv'
  BY StepInv
<1> QED BY InitInv, <1>1, PTL DEF Spec

\* Store, buffers and session keep their types.
THEOREM TypeCorrect == Spec => []TypeOK
<1>1. IInv => TypeOK
  BY DEF IInv, StoreInv, BufferInv, WireInv, TypeOK
<1> QED BY Invariance, <1>1, PTL

\* The badge a buffer caches is the count of the store, whatever the order of
\* messages, batches, opened chats, parts, reconnects and restarts
\* (state.rs:1969-2005).
THEOREM BadgesAgree == Spec => []BadgeAgrees
<1>1. IInv => BadgeAgrees
  BY DEF IInv, BufferInv
<1> QED BY Invariance, <1>1, PTL

\* A live message later than all the user has seen of its room counts
\* (state.rs:1944-1965).
THEOREM LiveMessagesCount == Spec => LiveCounts
<1> DEFINE A == \A c \in Rooms : \A m \in stored'[c] \ stored[c] :
                   ( /\ open # c /\ ~InBatch(c) /\ ~log[m].mine
                     /\ log[m].at > looked[c]
                     /\ \A r \in stored[c] : log[m].at > log[r].at )
                   => m \in Unread(c)'
<1>1. ASSUME IInv, [Next]_vars PROVE A
  <2>1. Effect
    BY <1>1, StepInv
  <2>2. CASE stored' = stored
    BY <2>2
  <2>3. CASE Stores
    <3>1. PICK c \in Rooms, m \in 1..Len(log) :
              /\ stored' = [stored EXCEPT ![c] = stored[c] \cup {m}]
              /\ IsLive(c, m) => m \in Unread(c)'
      BY <2>3 DEF Stores
    <3>2. \A d \in Rooms : \A k \in stored'[d] \ stored[d] : d = c /\ k = m
      BY <1>1, <3>1 DEF IInv, StoreInv, StoreOK
    <3>3. ASSUME NEW d \in Rooms, NEW k \in stored'[d] \ stored[d], IsLive(d, k)
          PROVE  k \in Unread(d)'
      <4>1. d = c /\ k = m
        BY <3>2
      <4> QED BY <3>1, <3>3, <4>1
    <3> QED BY <3>3 DEF IsLive
  <2> QED BY <2>1, <2>2, <2>3 DEF Effect, Quiet, Reads
<1>2. IInv /\ [Next]_vars => [A]_vars
  BY <1>1
<1>3. Spec => [][A]_vars
  BY Invariance, <1>2, PTL DEF Spec
<1> QED BY <1>3 DEF LiveCounts

\* The store, the watermarks, the batches and the buffers implement
\* UnreadPromise: every step of the detailed specification is a step of the
\* promise or leaves what it promises alone.
THEOREM Refinement == Spec => KeepsPromise
<1> DEFINE counted == [c \in Rooms |-> Unread(c)]
           passed == [c \in Rooms |-> stored[c] \ Unread(c)]
<1>1. Init => Promise!Init
  <2> SUFFICES ASSUME Init PROVE Promise!Init
    OBVIOUS
  <2>1. \A c \in Rooms : Unread(c) = {} /\ stored[c] = {}
    BY DEF Init, Unread, UnreadOf
  <2> QED BY <2>1 DEF Init, Promise!Init
<1>2. ASSUME IInv, [Next]_vars PROVE [Promise!Next]_(Promise!vars)
  <2>1. Effect
    BY <1>2, StepInv
  <2>2. CASE Quiet
    <3>1. counted' = counted /\ passed' = passed
      BY <2>2 DEF Quiet
    <3>2. CASE open' = open
      BY <3>1, <3>2 DEF Promise!vars
    <3>3. CASE open' = NoRoom
      BY <3>1, <3>3 DEF Promise!Next, Promise!Closes
    <3> QED BY <2>2, <3>2, <3>3 DEF Quiet
  <2>3. CASE Reads
    <3>1. PICK c \in Rooms : /\ stored' = stored /\ open' = c /\ Unread(c)' = {}
                             /\ \A d \in Rooms \ {c} : Unread(d)' = Unread(d)
      BY <2>3 DEF Reads
    <3>2. counted' = [counted EXCEPT ![c] = {}]
      BY <3>1
    <3>3. passed' = [passed EXCEPT ![c] = passed[c] \cup counted[c]]
      <4>1. Unread(c) \subseteq stored[c]
        BY DEF Unread, UnreadOf
      <4> QED BY <3>1, <4>1
    <3>4. Promise!Opens(c)
      BY <3>1, <3>2, <3>3 DEF Promise!Opens
    <3> QED BY <3>4 DEF Promise!Next
  <2>4. CASE Stores
    <3>1. PICK c \in Rooms, m \in 1..Len(log) :
              /\ stored' = [stored EXCEPT ![c] = stored[c] \cup {m}]
              /\ UNCHANGED open
              /\ \A d \in Rooms \ {c} : Unread(d)' = Unread(d)
              /\ \/ Unread(c)' = Unread(c)
                 \/ open # c /\ Unread(c)' = Unread(c) \cup {m}
              /\ m \in stored[c] => Unread(c)' = Unread(c)
      BY <2>4 DEF Stores
    <3>2. /\ stored'[c] = stored[c] \cup {m} /\ \A d \in Rooms \ {c} : stored'[d] = stored[d]
          /\ Unread(c) \subseteq stored[c] /\ m \in 1..MaxLog
      <4>1. Len(log) \in Nat /\ Len(log) <= MaxLog /\ stored \in [Rooms -> SUBSET (1..Len(log))]
        BY <1>2 DEF IInv, StoreInv, StoreOK
      <4>2. Unread(c) \subseteq stored[c]
        BY DEF Unread, UnreadOf
      <4> QED BY <3>1, <4>1, <4>2, LimitsAssumption
    <3>3. CASE m \in stored[c]
      <4>1. counted' = counted /\ passed' = passed
        BY <3>1, <3>2, <3>3
      <4> QED BY <3>1, <4>1 DEF Promise!vars
    <3>4. CASE m \notin stored[c] /\ Unread(c)' = Unread(c)
      <4>1. counted' = counted
        BY <3>1, <3>4
      <4>2. passed' = [passed EXCEPT ![c] = passed[c] \cup {m}]
        BY <3>1, <3>2, <3>4
      <4>3. Promise!New(c, m)
        BY <3>2, <3>4 DEF Promise!New
      <4>4. Promise!Passes(c, m)
        BY <3>1, <4>1, <4>2, <4>3 DEF Promise!Passes
      <4> QED BY <3>2, <4>4 DEF Promise!Next
    <3>5. CASE m \notin stored[c] /\ open # c /\ Unread(c)' = Unread(c) \cup {m}
      <4>1. counted' = [counted EXCEPT ![c] = counted[c] \cup {m}]
        BY <3>1, <3>5
      <4>2. passed' = passed
        BY <3>1, <3>2, <3>5
      <4>3. Promise!New(c, m)
        BY <3>2, <3>5 DEF Promise!New
      <4>4. Promise!Counts(c, m)
        BY <3>1, <3>5, <4>1, <4>2, <4>3 DEF Promise!Counts
      <4> QED BY <3>2, <4>4 DEF Promise!Next
    <3> QED BY <3>1, <3>3, <3>4, <3>5
  <2> QED BY <2>1, <2>2, <2>3, <2>4 DEF Effect
<1>3. IInv /\ [Next]_vars => [Promise!Next]_(Promise!vars)
  BY <1>2
<1>4. Spec => Promise!Spec
  BY Invariance, <1>1, <1>3, PTL DEF Spec, Promise!Spec
<1> QED BY <1>4 DEF KeepsPromise

===========================================================================
