-------------------------- MODULE ChatBuffer_proofs --------------------------
(***************************************************************************)
(* Theorems about ChatBuffer for every value of its constants: any number  *)
(* of messages, edits, deletions, replays, lost connections and changes of *)
(* nick, whatever the size of the buffer.                                  *)
(***************************************************************************)
EXTENDS ChatBuffer, QueueFacts

---------------------------------------------------------------------------
(* Rows that come from rows                                                *)

\* r is made of elements of q, each at most once, and of e, once at most.
Drawn(r, q, e) ==
    \E g \in [1..Len(r) -> 0..Len(q)] :
        /\ \A k, l \in 1..Len(r) : g[k] = g[l] => k = l
        /\ \A k \in 1..Len(r) : r[k] = IF g[k] = 0 THEN e ELSE q[g[k]]

\* r is made of elements of q alone.
Thinned(r, q) ==
    \E g \in [1..Len(r) -> 1..Len(q)] :
        /\ \A k, l \in 1..Len(r) : g[k] = g[l] => k = l
        /\ \A k \in 1..Len(r) : r[k] = q[g[k]]

\* r is made of elements of q without the i-th.
Skips(r, q, i) ==
    \E g \in [1..Len(r) -> (1..Len(q)) \ {i}] :
        /\ \A k, l \in 1..Len(r) : g[k] = g[l] => k = l
        /\ \A k \in 1..Len(r) : r[k] = q[g[k]]

LEMMA ThinnedSelf == ASSUME NEW S, NEW q \in Seq(S) PROVE Thinned(q, q)
<1> DEFINE g == [k \in 1..Len(q) |-> k]
<1>1. g \in [1..Len(q) -> 1..Len(q)]
  OBVIOUS
<1>2. /\ \A k, l \in 1..Len(q) : g[k] = g[l] => k = l
      /\ \A k \in 1..Len(q) : q[k] = q[g[k]]
  OBVIOUS
<1> QED BY <1>1, <1>2 DEF Thinned

LEMMA RemoveAtThins ==
    ASSUME NEW S, NEW q \in Seq(S), NEW i \in 1..Len(q)
    PROVE  /\ RemoveAt(q, i) \in Seq(S) /\ Thinned(RemoveAt(q, i), q)
           /\ Len(RemoveAt(q, i)) = Len(q) - 1 /\ Skips(RemoveAt(q, i), q, i)
<1> DEFINE a == SubSeq(q, 1, i - 1)
           b == SubSeq(q, i + 1, Len(q))
           r == a \o b
           g == [k \in 1..Len(r) |-> IF k < i THEN k ELSE k + 1]
<1>1. /\ a \in Seq(S) /\ Len(a) = i - 1 /\ \A k \in 1..(i - 1) : a[k] = q[k]
  OBVIOUS
<1>2. b \in Seq(S) /\ Len(b) = Len(q) - i /\ \A k \in 1..(Len(q) - i) : b[k] = q[i + k]
  OBVIOUS
<1> HIDE DEF a, b
<1>3. r \in Seq(S) /\ Len(r) = Len(q) - 1
  <2>1. r \in Seq(S) /\ Len(r) = Len(a) + Len(b)
    BY <1>1, <1>2, ConcatProperties
  <2> QED BY <1>1, <1>2, <2>1
<1>4. \A k \in 1..Len(r) : r[k] = IF k < i THEN q[k] ELSE q[k + 1]
  <2> SUFFICES ASSUME NEW k \in 1..Len(r) PROVE r[k] = IF k < i THEN q[k] ELSE q[k + 1]
    OBVIOUS
  <2>1. r[k] = IF k <= Len(a) THEN a[k] ELSE b[k - Len(a)]
    BY <1>1, <1>2, <1>3, ConcatProperties
  <2>2. CASE k < i
    BY <1>1, <2>1, <2>2
  <2>3. CASE k >= i
    <3>1. PICK m \in 1..(Len(q) - i) : m = k - Len(a)
      BY <1>1, <1>3, <2>3
    <3>2. i + m = k + 1 /\ ~(k <= Len(a))
      BY <1>1, <2>3, <3>1
    <3>3. r[k] = b[m]
      BY <2>1, <3>1, <3>2
    <3>4. b[m] = q[k + 1]
      BY <1>2, <3>2
    <3> QED BY <2>3, <3>3, <3>4
  <2> QED BY <2>2, <2>3
<1> HIDE DEF r
<1>5. /\ g \in [1..Len(r) -> 1..Len(q)] /\ g \in [1..Len(r) -> (1..Len(q)) \ {i}]
      /\ \A k, l \in 1..Len(r) : g[k] = g[l] => k = l
  BY <1>3
<1>6. \A k \in 1..Len(r) : r[k] = q[g[k]]
  BY <1>3, <1>4
<1> HIDE DEF g
<1>7. Thinned(r, q) /\ Skips(r, q, i)
  BY <1>5, <1>6 DEF Thinned, Skips
<1>8. RemoveAt(q, i) = r
  BY DEF RemoveAt, r, a, b
<1> QED BY <1>3, <1>7, <1>8

LEMMA TailThins ==
    ASSUME NEW S, NEW q \in Seq(S), q # <<>>
    PROVE  Thinned(Tail(q), q)
<1> DEFINE g == [k \in 1..Len(Tail(q)) |-> k + 1]
<1>1. Len(Tail(q)) = Len(q) - 1 /\ \A k \in 1..Len(Tail(q)) : Tail(q)[k] = q[k + 1]
  OBVIOUS
<1>2. /\ g \in [1..Len(Tail(q)) -> 1..Len(q)]
      /\ \A k, l \in 1..Len(Tail(q)) : g[k] = g[l] => k = l
  BY <1>1
<1>3. \A k \in 1..Len(Tail(q)) : Tail(q)[k] = q[g[k]]
  BY <1>1
<1> QED BY <1>2, <1>3 DEF Thinned

LEMMA InsertAtDraws ==
    ASSUME NEW S, NEW q \in Seq(S), NEW i \in 1..Len(q), NEW e \in S
    PROVE  /\ InsertAt(q, i, e) \in Seq(S) /\ Drawn(InsertAt(q, i, e), q, e)
           /\ Len(InsertAt(q, i, e)) = Len(q) + 1
<1> DEFINE a == SubSeq(q, 1, i - 1)
           b == SubSeq(q, i, Len(q))
           c == a \o <<e>>
           r == c \o b
           g == [k \in 1..Len(r) |-> IF k < i THEN k ELSE IF k = i THEN 0 ELSE k - 1]
<1>1. /\ a \in Seq(S) /\ Len(a) = i - 1 /\ \A k \in 1..(i - 1) : a[k] = q[k]
  OBVIOUS
<1>2. b \in Seq(S) /\ Len(b) = Len(q) - i + 1 /\ \A k \in 1..(Len(q) - i + 1) : b[k] = q[i + k - 1]
  OBVIOUS
<1>3. InsertAt(q, i, e) = r
  BY DEF InsertAt
<1> HIDE DEF a, b
<1>4. c \in Seq(S) /\ Len(c) = i /\ c[i] = e /\ \A k \in 1..(i - 1) : c[k] = q[k]
  BY <1>1
<1> HIDE DEF c
<1>5. r \in Seq(S) /\ Len(r) = Len(q) + 1
  BY <1>2, <1>4
<1>6. \A k \in 1..Len(r) : r[k] = IF k < i THEN q[k] ELSE IF k = i THEN e ELSE q[k - 1]
  <2> SUFFICES ASSUME NEW k \in 1..Len(r)
               PROVE  r[k] = IF k < i THEN q[k] ELSE IF k = i THEN e ELSE q[k - 1]
    OBVIOUS
  <2>1. r[k] = IF k <= Len(c) THEN c[k] ELSE b[k - Len(c)]
    BY <1>2, <1>4, <1>5, ConcatProperties
  <2>2. CASE k <= i
    BY <1>4, <2>1, <2>2
  <2>3. CASE k > i
    <3>1. k - Len(c) \in 1..(Len(q) - i + 1) /\ i + (k - Len(c)) - 1 = k - 1
      BY <1>4, <1>5, <2>3
    <3> QED BY <1>2, <1>4, <2>1, <2>3, <3>1
  <2> QED BY <2>2, <2>3
<1> HIDE DEF r
<1>7. g \in [1..Len(r) -> 0..Len(q)] /\ \A k, l \in 1..Len(r) : g[k] = g[l] => k = l
  BY <1>5
<1>8. \A k \in 1..Len(r) : r[k] = IF g[k] = 0 THEN e ELSE q[g[k]]
  BY <1>5, <1>6
<1>9. Drawn(r, q, e)
  BY <1>7, <1>8 DEF Drawn
<1> QED BY <1>3, <1>5, <1>9

LEMMA AppendDraws ==
    ASSUME NEW S, NEW q \in Seq(S), NEW e \in S
    PROVE  Drawn(Append(q, e), q, e)
<1> DEFINE r == Append(q, e)
           g == [k \in 1..Len(r) |-> IF k = Len(q) + 1 THEN 0 ELSE k]
<1>1. /\ Len(r) = Len(q) + 1 /\ r[Len(q) + 1] = e /\ \A k \in 1..Len(q) : r[k] = q[k]
  OBVIOUS
<1> HIDE DEF r
<1>2. g \in [1..Len(r) -> 0..Len(q)] /\ \A k, l \in 1..Len(r) : g[k] = g[l] => k = l
  BY <1>1
<1>3. \A k \in 1..Len(r) : r[k] = IF g[k] = 0 THEN e ELSE q[g[k]]
  BY <1>1
<1>4. Drawn(r, q, e)
  BY <1>2, <1>3 DEF Drawn
<1> QED BY <1>4 DEF r

LEMMA ThinnedDrawn ==
    ASSUME NEW r, NEW q, NEW p, NEW e, Len(r) \in Nat, Len(q) \in Nat, Len(p) \in Nat,
           Thinned(q, p), Drawn(r, q, e)
    PROVE  Drawn(r, p, e)
<1>1. PICK g \in [1..Len(q) -> 1..Len(p)] :
         /\ \A k, l \in 1..Len(q) : g[k] = g[l] => k = l
         /\ \A k \in 1..Len(q) : q[k] = p[g[k]]
  BY DEF Thinned
<1>2. PICK h \in [1..Len(r) -> 0..Len(q)] :
         /\ \A k, l \in 1..Len(r) : h[k] = h[l] => k = l
         /\ \A k \in 1..Len(r) : r[k] = IF h[k] = 0 THEN e ELSE q[h[k]]
  BY DEF Drawn
<1> DEFINE f == [k \in 1..Len(r) |-> IF h[k] = 0 THEN 0 ELSE g[h[k]]]
<1>3. \A k \in 1..Len(r) : h[k] # 0 => h[k] \in 1..Len(q) /\ g[h[k]] \in 1..Len(p)
  OBVIOUS
<1>4. f \in [1..Len(r) -> 0..Len(p)]
  BY <1>3
<1>5. \A k, l \in 1..Len(r) : f[k] = f[l] => k = l
  <2> SUFFICES ASSUME NEW k \in 1..Len(r), NEW l \in 1..Len(r), f[k] = f[l] PROVE k = l
    OBVIOUS
  <2>1. CASE h[k] = 0
    <3>1. h[l] = 0
      BY <1>3, <2>1
    <3> QED BY <1>2, <2>1, <3>1
  <2>2. CASE h[k] # 0
    <3>1. h[l] # 0 /\ g[h[k]] = g[h[l]]
      BY <1>3, <2>2
    <3>2. h[k] = h[l]
      BY <1>1, <1>3, <2>2, <3>1
    <3> QED BY <1>2, <3>2
  <2> QED BY <2>1, <2>2
<1>6. \A k \in 1..Len(r) : r[k] = IF f[k] = 0 THEN e ELSE p[f[k]]
  <2> SUFFICES ASSUME NEW k \in 1..Len(r) PROVE r[k] = IF f[k] = 0 THEN e ELSE p[f[k]]
    OBVIOUS
  <2>1. CASE h[k] = 0
    BY <1>2, <2>1
  <2>2. CASE h[k] # 0
    <3>1. r[k] = q[h[k]] /\ q[h[k]] = p[g[h[k]]] /\ f[k] = g[h[k]] /\ f[k] # 0
      BY <1>1, <1>2, <1>3, <2>2
    <3> QED BY <3>1
  <2> QED BY <2>1, <2>2
<1> HIDE DEF f
<1> QED BY <1>4, <1>5, <1>6 DEF Drawn

---------------------------------------------------------------------------
(* What the operations on the buffer do to its rows                        *)

Buffer == [rows : Seq(Row), ids : SUBSET Ids, aliases : SUBSET Ids]

LEMMA FirstNamedIs ==
    ASSUME NEW rows \in Seq(Row), NEW n
    PROVE  /\ FirstNamed(rows, n) \in 0..Len(rows)
           /\ FirstNamed(rows, n) # 0 => Matches(rows[FirstNamed(rows, n)], n)
           /\ FirstNamed(rows, n) = 0 => \A j \in 1..Len(rows) : ~Matches(rows[j], n)
<1> DEFINE I == {i \in 1..Len(rows) : Matches(rows[i], n)}
<1>1. FirstNamed(rows, n) = IF I # {} THEN Min(I) ELSE 0
  BY DEF FirstNamed, SelectInSeq
<1>2. CASE I # {}
  <2>1. FirstNamed(rows, n) \in I
    <3>1. I \in SUBSET Nat
      OBVIOUS
    <3>2. Min(I) \in I
      BY <1>2, <3>1, MinIs
    <3> QED BY <1>1, <1>2, <3>2
  <2> QED BY <2>1
<1>3. CASE I = {}
  BY <1>1, <1>3
<1> QED BY <1>2, <1>3

LEMMA LastNamedIs ==
    ASSUME NEW rows \in Seq(Row), NEW n
    PROVE  /\ LastNamed(rows, n) \in 0..Len(rows)
           /\ LastNamed(rows, n) # 0 => Matches(rows[LastNamed(rows, n)], n)
           /\ LastNamed(rows, n) = 0 => \A j \in 1..Len(rows) : ~Matches(rows[j], n)
<1> DEFINE I == {i \in 1..Len(rows) : Matches(rows[i], n)}
<1>1. LastNamed(rows, n) = IF I # {} THEN Max(I) ELSE 0
  BY DEF LastNamed, SelectLastInSeq
<1>2. CASE I # {}
  <2>1. LastNamed(rows, n) \in I
    <3>1. Len(rows) \in Nat /\ I \in SUBSET (1..Len(rows))
      OBVIOUS
    <3>2. Max(I) \in I
      BY <1>2, <3>1, MaxIs
    <3> QED BY <1>1, <1>2, <3>2
  <2> QED BY <2>1
<1>3. CASE I = {}
  BY <1>1, <1>3
<1> QED BY <1>2, <1>3

LEMMA WithoutEchoIs ==
    ASSUME NEW rows \in Seq(Row), NEW row
    PROVE  /\ WithoutEcho(rows, row) \in Seq(Row) /\ Thinned(WithoutEcho(rows, row), rows)
           /\ Len(WithoutEcho(rows, row)) <= Len(rows)
<1> DEFINE I == {i \in 1..Len(rows) : /\ rows[i].id = Local /\ rows[i].from = row.from
                                      /\ rows[i].text = row.text}
           i == IF I # {} THEN Max(I) ELSE 0
<1>1. WithoutEcho(rows, row) = IF row.id = Local \/ i = 0 THEN rows ELSE RemoveAt(rows, i)
  BY DEF WithoutEcho, SelectLastInSeq
<1>2. i \in 0..Len(rows)
  <2>1. Len(rows) \in Nat /\ I \in SUBSET (1..Len(rows))
    OBVIOUS
  <2>2. I # {} => Max(I) \in I
    BY <2>1, MaxIs
  <2> QED BY <2>1, <2>2
<1> HIDE DEF i
<1>3. CASE row.id = Local \/ i = 0
  BY <1>1, <1>3, ThinnedSelf
<1>4. CASE ~(row.id = Local \/ i = 0)
  <2>1. i \in 1..Len(rows)
    BY <1>2, <1>4
  <2>2. /\ RemoveAt(rows, i) \in Seq(Row) /\ Thinned(RemoveAt(rows, i), rows)
        /\ Len(RemoveAt(rows, i)) = Len(rows) - 1
    BY <2>1, RemoveAtThins
  <2> QED BY <1>1, <1>4, <2>2
<1> QED BY <1>3, <1>4

LEMMA InsertedIs ==
    ASSUME NEW rows \in Seq(Row), NEW row \in Row
    PROVE  /\ Inserted(rows, row) \in Seq(Row) /\ Drawn(Inserted(rows, row), rows, row)
           /\ Len(Inserted(rows, row)) = Len(rows) + 1
<1> DEFINE I == {k \in 1..Len(rows) : row.ts < rows[k].ts}
           i == IF I # {} THEN Min(I) ELSE 0
<1>1. Inserted(rows, row) = IF rows = <<>> \/ row.ts >= Last(rows).ts THEN Append(rows, row)
                            ELSE InsertAt(rows, i, row)
  BY DEF Inserted, SelectInSeq
<1>2. CASE rows = <<>> \/ row.ts >= Last(rows).ts
  BY <1>1, <1>2, AppendDraws
<1>3. CASE ~(rows = <<>> \/ row.ts >= Last(rows).ts)
  <2>1. Len(rows) \in 1..Len(rows) /\ Last(rows) = rows[Len(rows)]
    BY <1>3 DEF Last
  <2>2. rows[Len(rows)].ts \in Nat /\ row.ts \in Nat
    <3>1. rows[Len(rows)] \in Row
      BY <2>1
    <3> QED BY <3>1 DEF Row
  <2>3. Len(rows) \in I
    BY <1>3, <2>1, <2>2
  <2>4. I \in SUBSET Nat
    OBVIOUS
  <2>5. i \in I
    BY <2>3, <2>4, MinIs
  <2>6. i \in 1..Len(rows)
    BY <2>5
  <2> HIDE DEF i
  <2>7. /\ InsertAt(rows, i, row) \in Seq(Row) /\ Drawn(InsertAt(rows, i, row), rows, row)
        /\ Len(InsertAt(rows, i, row)) = Len(rows) + 1
    BY <2>6, InsertAtDraws
  <2> QED BY <1>1, <1>3, <2>7
<1> QED BY <1>2, <1>3

\* The rows before the oldest is dropped, and the msgids known then.
Made(b, row)  == Inserted(WithoutEcho(b.rows, row), row)
Known(b, row) == IF row.id = Local THEN b.ids ELSE b.ids \cup {row.id}
Fresh(b, row) == row.id = Local \/ row.id \notin b.aliases \cup b.ids

LEMMA MadeIs ==
    ASSUME NEW b \in Buffer, NEW row \in Row
    PROVE  /\ Made(b, row) \in Seq(Row) /\ Drawn(Made(b, row), b.rows, row)
           /\ Made(b, row) # <<>> /\ Len(Made(b, row)) <= Len(b.rows) + 1
           /\ Known(b, row) \in SUBSET Ids
<1>1. b.rows \in Seq(Row)
  BY DEF Buffer
<1>2. PICK rest \in Seq(Row) : /\ rest = WithoutEcho(b.rows, row) /\ Thinned(rest, b.rows)
                               /\ Len(rest) <= Len(b.rows)
  BY <1>1, WithoutEchoIs
<1>3. PICK r \in Seq(Row) : /\ r = Inserted(rest, row) /\ Drawn(r, rest, row)
                            /\ Len(r) = Len(rest) + 1
  BY InsertedIs
<1>4. Drawn(r, b.rows, row)
  <2>1. Len(r) \in Nat /\ Len(rest) \in Nat /\ Len(b.rows) \in Nat
    BY <1>1
  <2> QED BY <1>2, <1>3, <2>1, ThinnedDrawn
<1>5. Known(b, row) \in SUBSET Ids
  BY DEF Known, Buffer, Row, Local
<1>6. Made(b, row) = r
  BY <1>2, <1>3 DEF Made
<1>7. Len(r) <= Len(b.rows) + 1 /\ r # <<>>
  BY <1>1, <1>2, <1>3
<1> QED BY <1>4, <1>5, <1>6, <1>7

LEMMA AppendedIs ==
    ASSUME NEW b \in Buffer, NEW row \in Row
    PROVE  \/ ~Fresh(b, row) /\ Appended(b, row) = b
           \/ /\ Fresh(b, row) /\ Len(Made(b, row)) <= MaxRows
              /\ Appended(b, row) = [rows |-> Made(b, row), ids |-> Known(b, row),
                                     aliases |-> b.aliases]
           \/ /\ Fresh(b, row) /\ Len(Made(b, row)) > MaxRows
              /\ Appended(b, row) = [rows |-> Tail(Made(b, row)),
                                     ids |-> Known(b, row) \ {Head(Made(b, row)).id},
                                     aliases |-> b.aliases]
<1>1. CASE ~Fresh(b, row)
  BY <1>1 DEF Appended, Fresh
<1>2. CASE Fresh(b, row)
  <2> DEFINE over == Len(Made(b, row)) > MaxRows
  <2>1. Appended(b, row) =
          [b EXCEPT !.rows = IF over THEN Tail(Made(b, row)) ELSE Made(b, row),
                    !.ids = IF over THEN Known(b, row) \ {Head(Made(b, row)).id}
                            ELSE Known(b, row)]
    BY <1>2, Zenon DEF Appended, Fresh, Made, Known
  <2>2. CASE over
    BY <1>2, <2>1, <2>2 DEF Buffer
  <2>3. CASE ~over
    <3>1. Len(Made(b, row)) <= MaxRows
      BY <2>3, MadeIs, LimitsAssumption
    <3> QED BY <1>2, <2>1, <2>3, <3>1 DEF Buffer
  <2> QED BY <2>2, <2>3
<1> QED BY <1>1, <1>2

LEMMA AppendedType ==
    ASSUME NEW b \in Buffer, Len(b.rows) <= MaxRows, NEW row \in Row
    PROVE  /\ Appended(b, row) \in Buffer /\ Len(Appended(b, row).rows) <= MaxRows
           /\ Appended(b, row).aliases = b.aliases
<1>1. CASE ~Fresh(b, row) /\ Appended(b, row) = b
  BY <1>1
<1>2. CASE Len(Made(b, row)) <= MaxRows /\
           Appended(b, row) = [rows |-> Made(b, row), ids |-> Known(b, row),
                               aliases |-> b.aliases]
  BY <1>2, MadeIs, SMTT(40) DEF Buffer
<1>3. CASE Appended(b, row) = [rows |-> Tail(Made(b, row)),
                               ids |-> Known(b, row) \ {Head(Made(b, row)).id},
                               aliases |-> b.aliases]
  <2>1. PICK r \in Seq(Row) : r = Made(b, row) /\ r # <<>> /\ Len(r) <= Len(b.rows) + 1
    BY MadeIs
  <2>2. Tail(r) \in Seq(Row) /\ Len(Tail(r)) = Len(r) - 1
    BY <2>1
  <2>3. Len(Tail(r)) <= MaxRows
    <3>1. Len(b.rows) \in Nat /\ Len(r) \in Nat /\ MaxRows \in Nat
      BY LimitsAssumption DEF Buffer
    <3> QED BY <2>1, <2>2, <3>1
  <2>4. Known(b, row) \in SUBSET Ids
    BY MadeIs
  <2> QED BY <1>3, <2>1, <2>2, <2>3, <2>4 DEF Buffer
<1> QED BY <1>1, <1>2, <1>3, AppendedIs

\* e is b with the row i rewritten: it carries id now.
Rewrites(e, b, i, n, id, text) ==
    /\ i \in 1..Len(b.rows) /\ Matches(b.rows[i], n)
    /\ e.rows \in Seq(Row) /\ Len(e.rows) = Len(b.rows)
    /\ \A k \in 1..Len(b.rows) : k # i => e.rows[k] = b.rows[k]
    /\ e.rows[i].id = id /\ e.rows[i].text = text
    /\ e.rows[i].of = IF b.rows[i].of = 0 THEN n ELSE b.rows[i].of
    /\ e.rows[i].from = b.rows[i].from /\ e.rows[i].deleted = b.rows[i].deleted
    /\ e.ids = IF id = b.rows[i].id THEN b.ids ELSE (b.ids \ {b.rows[i].id}) \cup {id}
    /\ e.aliases = b.aliases \cup {n, b.rows[i].id}

IdAfter(b, n, new) == IF new = 0 THEN b.rows[FirstNamed(b.rows, n)].id ELSE new

\* An edit in place changes one row.
LEMMA EditedIs ==
    ASSUME NEW b \in Buffer, NEW n \in Ids, NEW new \in Ids \cup {0}, NEW text \in Texts,
           FirstNamed(b.rows, n) # 0
    PROVE  Rewrites(Edited(b, n, new, text), b, FirstNamed(b.rows, n), n,
                    IdAfter(b, n, new), text)
<1>1. b.rows \in Seq(Row)
  BY DEF Buffer
<1>2. PICK i : i = FirstNamed(b.rows, n)
  OBVIOUS
<1>3. i \in 1..Len(b.rows) /\ Matches(b.rows[i], n)
  BY <1>1, <1>2, FirstNamedIs
<1>4. PICK old : old = b.rows[i].id
  OBVIOUS
<1>5. PICK id : id = IF new = 0 THEN old ELSE new
  OBVIOUS
<1>6. PICK of : of = IF b.rows[i].of = 0 THEN n ELSE b.rows[i].of
  OBVIOUS
<1>7. b.rows[i] \in Row
  BY <1>1, <1>3
<1>8. PICK row : row = [b.rows[i] EXCEPT !.text = text, !.id = id, !.of = of]
  OBVIOUS
<1>9. /\ row \in Row /\ row.id = id /\ row.text = text /\ row.of = of
      /\ row.from = b.rows[i].from /\ row.deleted = b.rows[i].deleted
      /\ row.ts = b.rows[i].ts
  <2>1. id \in Ids \cup {Local} /\ of \in Ids \cup {0}
    BY <1>4, <1>5, <1>6, <1>7 DEF Row
  <2> QED BY <1>7, <1>8, <2>1 DEF Row
<1>10. Edited(b, n, new, text) =
         [rows |-> [b.rows EXCEPT ![i] = row],
          ids |-> IF id = old THEN b.ids ELSE (b.ids \ {old}) \cup {id},
          aliases |-> b.aliases \cup {n, old}]
  BY <1>2, <1>4, <1>5, <1>6, <1>8, Zenon DEF Edited
<1>11. /\ [b.rows EXCEPT ![i] = row] \in Seq(Row) /\ Len([b.rows EXCEPT ![i] = row]) = Len(b.rows)
       /\ [b.rows EXCEPT ![i] = row][i] = row
       /\ \A k \in 1..Len(b.rows) : k # i => [b.rows EXCEPT ![i] = row][k] = b.rows[k]
  BY <1>1, <1>3, <1>9
<1>12. PICK e : e = Edited(b, n, new, text)
  OBVIOUS
<1>13. /\ e.rows = [b.rows EXCEPT ![i] = row]
       /\ e.ids = IF id = old THEN b.ids ELSE (b.ids \ {old}) \cup {id}
       /\ e.aliases = b.aliases \cup {n, old}
  BY <1>10, <1>12
<1>14. Rewrites(e, b, i, n, id, text)
  BY <1>3, <1>4, <1>6, <1>9, <1>11, <1>13 DEF Rewrites
<1>15. id = IdAfter(b, n, new)
  BY <1>2, <1>4, <1>5 DEF IdAfter
<1> QED BY <1>2, <1>12, <1>14, <1>15

\* An optimistic row rewrote nothing.
LocalsPlain(rows) == \A i \in 1..Len(rows) : rows[i].id = Local => rows[i].of = 0

LEMMA EditedType ==
    ASSUME NEW b \in Buffer, NEW n \in Ids, NEW new \in Ids \cup {0}, NEW text \in Texts,
           FirstNamed(b.rows, n) # 0, LocalsPlain(b.rows)
    PROVE  /\ Edited(b, n, new, text) \in Buffer
           /\ b.rows[FirstNamed(b.rows, n)].id \in Ids
<1>1. PICK e : e = Edited(b, n, new, text)
  OBVIOUS
<1>2. e = [rows |-> e.rows, ids |-> e.ids, aliases |-> e.aliases]
  BY <1>1 DEF Edited
<1>3. PICK i : i = FirstNamed(b.rows, n)
  OBVIOUS
<1>4. PICK old : old = b.rows[i].id
  OBVIOUS
<1>5. PICK id : id = IF new = 0 THEN old ELSE new
  OBVIOUS
<1>6. /\ i \in 1..Len(b.rows) /\ Matches(b.rows[i], n)
      /\ e.rows \in Seq(Row) /\ e.aliases = b.aliases \cup {n, old}
      /\ e.ids = (IF id = old THEN b.ids ELSE (b.ids \ {old}) \cup {id})
  <2>1. Rewrites(e, b, i, n, id, text)
    BY <1>1, <1>3, <1>4, <1>5, EditedIs DEF IdAfter
  <2> QED BY <1>4, <2>1 DEF Rewrites
<1>7. b.rows[i] \in Row
  BY <1>6 DEF Buffer
<1>8. old \in Ids
  <2>1. old \in Ids \cup {Local}
    BY <1>4, <1>7 DEF Row
  <2>2. old # Local
    <3> SUFFICES ASSUME old = Local PROVE FALSE
      OBVIOUS
    <3>1. b.rows[i].of = 0
      BY <1>4, <1>6 DEF LocalsPlain
    <3> QED BY <1>4, <1>6, <3>1 DEF Matches, Local
  <2> QED BY <2>1, <2>2
<1>9. id \in Ids
  BY <1>5, <1>8
<1>10. e.ids \in SUBSET Ids /\ e.aliases \in SUBSET Ids
  BY <1>6, <1>8, <1>9 DEF Buffer
<1>11. e \in Buffer
  BY <1>2, <1>6, <1>10 DEF Buffer
<1> QED BY <1>1, <1>3, <1>4, <1>8, <1>11

\* A deletion makes a tombstone of one row at most.
LEMMA DeletedIs ==
    ASSUME NEW b \in Buffer, NEW from, NEW n
    PROVE  /\ Deleted(b, from, n) \in Buffer
           /\ Deleted(b, from, n).ids = b.ids /\ Deleted(b, from, n).aliases = b.aliases
           /\ Len(Deleted(b, from, n).rows) = Len(b.rows)
           /\ \A k \in 1..Len(b.rows) :
                 /\ Deleted(b, from, n).rows[k].id = b.rows[k].id
                 /\ Deleted(b, from, n).rows[k].of = b.rows[k].of
                 /\ Deleted(b, from, n).rows[k].from = b.rows[k].from
                 /\ Deleted(b, from, n).rows[k].text = b.rows[k].text
                 /\ b.rows[k].deleted => Deleted(b, from, n).rows[k].deleted
<1>1. PICK i \in 0..Len(b.rows) : i = LastNamed(b.rows, n)
  BY LastNamedIs DEF Buffer
<1>2. CASE i = 0 \/ b.rows[i].from # from
  BY <1>1, <1>2 DEF Deleted
<1>3. CASE ~(i = 0 \/ b.rows[i].from # from)
  <2>1. i \in 1..Len(b.rows) /\ b.rows \in Seq(Row) /\ b.rows[i] \in Row
    BY <1>1, <1>3 DEF Buffer
  <2>2. PICK row : row = [b.rows[i] EXCEPT !.deleted = TRUE]
    OBVIOUS
  <2>3. /\ row \in Row /\ row.id = b.rows[i].id /\ row.of = b.rows[i].of
        /\ row.from = b.rows[i].from /\ row.text = b.rows[i].text /\ row.deleted
    BY <2>1, <2>2 DEF Row
  <2>4. PICK r : r = [b.rows EXCEPT ![i] = row]
    OBVIOUS
  <2>5. /\ r \in Seq(Row) /\ Len(r) = Len(b.rows) /\ r[i] = row
        /\ \A k \in 1..Len(b.rows) : k # i => r[k] = b.rows[k]
    BY <2>1, <2>3, <2>4
  <2>6. Deleted(b, from, n) = [b EXCEPT !.rows = r]
    <3>1. Deleted(b, from, n) = [b EXCEPT !.rows[i].deleted = TRUE]
      BY <1>1, <1>3, Zenon DEF Deleted
    <3>2. [b EXCEPT !.rows[i].deleted = TRUE]
             = [b EXCEPT !.rows = [b.rows EXCEPT ![i] = [b.rows[i] EXCEPT !.deleted = TRUE]]]
      BY <2>1 DEF Buffer
    <3> QED BY <2>2, <2>4, <3>1, <3>2
  <2>7. PICK d : d = Deleted(b, from, n)
    OBVIOUS
  <2>8. d \in Buffer /\ d.rows = r /\ d.ids = b.ids /\ d.aliases = b.aliases
    BY <2>5, <2>6, <2>7 DEF Buffer
  <2>9. \A k \in 1..Len(b.rows) :
           /\ r[k].id = b.rows[k].id /\ r[k].of = b.rows[k].of
           /\ r[k].from = b.rows[k].from /\ r[k].text = b.rows[k].text
           /\ b.rows[k].deleted => r[k].deleted
    BY <2>3, <2>5
  <2> QED BY <2>5, <2>7, <2>8, <2>9
<1> QED BY <1>2, <1>3

---------------------------------------------------------------------------
(* What the rows say of the server's log                                   *)

\* A row with a msgid shows a logged message; what it replaced is a version of
\* the same message.
Refers(row, l) ==
    /\ row.id \in 0..Len(l) /\ row.of \in 0..Len(l)
    /\ row.id = 0 => row.of = 0
    /\ row.id # 0 => row.from = l[row.id].from
    /\ row.id # 0 /\ row.of # 0 => l[row.of].root = l[row.id].root

RowsRefer(b, l) == \A i \in 1..Len(b.rows) : Refers(b.rows[i], l)

Shown(b) == {i \in 1..Len(b.rows) : b.rows[i].id # Local}

\* OneRowPerMessage of a buffer.
RowsDiffer(b, l, o) ==
    \A i, j \in Shown(b) :
        l[b.rows[i].id].root = l[b.rows[j].id].root => i = j \/ l[b.rows[i].id].root \in o

\* The msgid a row has now and the one its message began with are both known.
RowsKnown(b, l, o) ==
    \A i \in Shown(b) : l[b.rows[i].id].root \notin o =>
        /\ b.rows[i].id \in b.ids
        /\ b.rows[i].id = l[b.rows[i].id].root \/ l[b.rows[i].id].root \in b.aliases

Sound(b, l, o) == RowsRefer(b, l) /\ RowsDiffer(b, l, o) /\ RowsKnown(b, l, o)

\* A tombstone of b is not shown as text in e.
TombsKept(b, l, e, k, o) ==
    \A i \in Shown(b), j \in Shown(e) :
        b.rows[i].deleted /\ k[e.rows[j].id].root = l[b.rows[i].id].root =>
            e.rows[j].deleted \/ l[b.rows[i].id].root \in o

\* The log only grows.
Longer(l, k) == Len(l) <= Len(k) /\ \A i \in 1..Len(l) : k[i] = l[i]

LEMMA ShownRefer ==
    ASSUME NEW b, NEW l, Len(l) \in Nat, RowsRefer(b, l), NEW i \in Shown(b)
    PROVE  i \in 1..Len(b.rows) /\ b.rows[i].id \in 1..Len(l) /\ b.rows[i].id # 0
  BY DEF RowsRefer, Refers, Shown, Local

\* The log grew, or more messages were split by an edit.
LEMMA SoundLater ==
    ASSUME NEW b, NEW l, NEW k, NEW o, NEW oo, Len(l) \in Nat, Len(k) \in Nat,
           Sound(b, l, o), Longer(l, k), o \subseteq oo
    PROVE  Sound(b, k, oo) /\ TombsKept(b, l, b, k, oo)
<1>1. \A i \in Shown(b) : k[b.rows[i].id] = l[b.rows[i].id]
  BY ShownRefer DEF Sound, Longer
<1>2. RowsRefer(b, k)
  <2> SUFFICES ASSUME NEW i \in 1..Len(b.rows) PROVE Refers(b.rows[i], k)
    BY DEF RowsRefer
  <2>1. Refers(b.rows[i], l)
    BY DEF Sound, RowsRefer
  <2>2. b.rows[i].id \in 0..Len(k) /\ b.rows[i].of \in 0..Len(k)
    BY <2>1 DEF Refers, Longer
  <2>3. /\ b.rows[i].id # 0 => k[b.rows[i].id] = l[b.rows[i].id]
        /\ b.rows[i].of # 0 => k[b.rows[i].of] = l[b.rows[i].of]
    BY <2>1 DEF Refers, Longer
  <2> QED BY <2>1, <2>2, <2>3 DEF Refers
<1>3. RowsDiffer(b, k, oo)
  BY <1>1 DEF Sound, RowsDiffer
<1>4. RowsKnown(b, k, oo)
  BY <1>1 DEF Sound, RowsKnown
<1>5. TombsKept(b, l, b, k, oo)
  <2> SUFFICES ASSUME NEW i \in Shown(b), NEW j \in Shown(b), b.rows[i].deleted,
                      k[b.rows[j].id].root = l[b.rows[i].id].root
               PROVE  b.rows[j].deleted \/ l[b.rows[i].id].root \in oo
    BY DEF TombsKept
  <2>1. i = j \/ l[b.rows[i].id].root \in o
    BY <1>1 DEF Sound, RowsDiffer
  <2> QED BY <2>1
<1> QED BY <1>2, <1>3, <1>4, <1>5 DEF Sound

---------------------------------------------------------------------------
(* Appending keeps it                                                      *)

\* A row shows a message as it was posted, unless the message is split.
Plain(row, l, o) == row.id = Local \/ l[row.id].root = row.id \/ l[row.id].root \in o

\* Before the oldest row is dropped.
MadeBuf(b, row) == [rows |-> Made(b, row), ids |-> Known(b, row), aliases |-> b.aliases]

LEMMA MadeKeeps ==
    ASSUME NEW b \in Buffer, NEW row \in Row, NEW l, Len(l) \in Nat, NEW o, Sound(b, l, o),
           Refers(row, l), Plain(row, l, o), Fresh(b, row)
    PROVE  Sound(MadeBuf(b, row), l, o) /\ TombsKept(b, l, MadeBuf(b, row), l, o)
<1>1. PICK e : e = MadeBuf(b, row)
  OBVIOUS
<1>2. /\ e.rows \in Seq(Row) /\ Drawn(e.rows, b.rows, row)
      /\ e.ids = Known(b, row) /\ e.aliases = b.aliases
  BY <1>1, MadeIs DEF MadeBuf
<1>3. PICK g \in [1..Len(e.rows) -> 0..Len(b.rows)] :
        /\ \A k, m \in 1..Len(e.rows) : g[k] = g[m] => k = m
        /\ \A k \in 1..Len(e.rows) : e.rows[k] = IF g[k] = 0 THEN row ELSE b.rows[g[k]]
  BY <1>2 DEF Drawn
<1>4. \A k \in 1..Len(e.rows) : \/ g[k] = 0 /\ e.rows[k] = row
                                \/ g[k] \in 1..Len(b.rows) /\ e.rows[k] = b.rows[g[k]]
  <2>1. Len(b.rows) \in Nat
    BY DEF Buffer
  <2> QED BY <1>3, <2>1
<1>5. RowsRefer(e, l)
  BY <1>4 DEF Sound, RowsRefer
<1>6. \A k \in Shown(e) : \/ g[k] = 0 /\ e.rows[k] = row /\ row.id # Local
                          \/ g[k] \in Shown(b) /\ e.rows[k] = b.rows[g[k]]
  BY <1>4 DEF Shown
\* The new row is of no message that is shown.
<1>7. ASSUME NEW i \in Shown(b), row.id # Local, l[b.rows[i].id].root = l[row.id].root
      PROVE  l[row.id].root \in o
  <2> SUFFICES ASSUME l[row.id].root \notin o PROVE FALSE
    OBVIOUS
  <2>1. l[row.id].root = row.id
    BY <1>7 DEF Plain
  <2>2. row.id \in b.ids \cup b.aliases
    BY <1>7, <2>1 DEF Sound, RowsKnown
  <2> QED BY <1>7, <2>2 DEF Fresh
<1>8. RowsDiffer(e, l, o)
  <2> SUFFICES ASSUME NEW k \in Shown(e), NEW m \in Shown(e),
                      l[e.rows[k].id].root = l[e.rows[m].id].root,
                      l[e.rows[k].id].root \notin o
               PROVE  k = m
    BY DEF RowsDiffer
  <2>1. g[k] = g[m] => k = m
    BY <1>3 DEF Shown
  <2>2. CASE g[k] \in Shown(b) /\ e.rows[k] = b.rows[g[k]]
    <3>1. CASE g[m] \in Shown(b) /\ e.rows[m] = b.rows[g[m]]
      BY <2>1, <2>2, <3>1 DEF Sound, RowsDiffer
    <3>2. CASE g[m] = 0 /\ e.rows[m] = row /\ row.id # Local
      BY <1>7, <2>2, <3>2
    <3> QED BY <1>6, <3>1, <3>2
  <2>3. CASE g[k] = 0 /\ e.rows[k] = row /\ row.id # Local
    <3>1. CASE g[m] \in Shown(b) /\ e.rows[m] = b.rows[g[m]]
      BY <1>7, <2>3, <3>1
    <3>2. CASE g[m] = 0
      BY <2>1, <2>3, <3>2
    <3> QED BY <1>6, <3>1, <3>2
  <2> QED BY <1>6, <2>2, <2>3
<1>9. RowsKnown(e, l, o)
  <2> SUFFICES ASSUME NEW k \in Shown(e), l[e.rows[k].id].root \notin o
               PROVE  /\ e.rows[k].id \in e.ids
                      /\ \/ e.rows[k].id = l[e.rows[k].id].root
                         \/ l[e.rows[k].id].root \in e.aliases
    BY DEF RowsKnown
  <2>1. CASE g[k] \in Shown(b) /\ e.rows[k] = b.rows[g[k]]
    BY <1>2, <2>1 DEF Sound, RowsKnown, Known
  <2>2. CASE g[k] = 0 /\ e.rows[k] = row /\ row.id # Local
    BY <1>2, <2>2 DEF Known, Plain
  <2> QED BY <1>6, <2>1, <2>2
<1>10. TombsKept(b, l, e, l, o)
  <2> SUFFICES ASSUME NEW i \in Shown(b), NEW k \in Shown(e), b.rows[i].deleted,
                      l[e.rows[k].id].root = l[b.rows[i].id].root,
                      l[b.rows[i].id].root \notin o
               PROVE  e.rows[k].deleted
    BY DEF TombsKept
  <2>1. CASE g[k] \in Shown(b) /\ e.rows[k] = b.rows[g[k]]
    BY <2>1 DEF Sound, RowsDiffer
  <2>2. CASE g[k] = 0 /\ e.rows[k] = row /\ row.id # Local
    BY <1>7, <2>2
  <2> QED BY <1>6, <2>1, <2>2
<1> QED BY <1>1, <1>5, <1>8, <1>9, <1>10 DEF Sound

\* The oldest row is dropped, and its msgid with it.
LEMMA TrimKeeps ==
    ASSUME NEW b, NEW b2, NEW l, Len(l) \in Nat, NEW o, Sound(b, l, o),
           b.rows \in Seq(Row), b.rows # <<>>,
           b2.rows = Tail(b.rows), b2.ids = b.ids \ {Head(b.rows).id},
           b2.aliases = b.aliases, NEW c, TombsKept(c, l, b, l, o)
    PROVE  Sound(b2, l, o) /\ TombsKept(c, l, b2, l, o)
<1>1. /\ Len(b2.rows) = Len(b.rows) - 1 /\ Len(b.rows) \in Nat /\ Head(b.rows) = b.rows[1]
      /\ \A k \in 1..Len(b2.rows) : k + 1 \in 1..Len(b.rows) /\ b2.rows[k] = b.rows[k + 1]
  OBVIOUS
<1>2. \A k \in Shown(b2) : k \in Nat /\ k + 1 \in Shown(b) /\ b2.rows[k] = b.rows[k + 1]
  BY <1>1 DEF Shown
<1>3. RowsRefer(b2, l)
  BY <1>1 DEF Sound, RowsRefer
<1>4. RowsDiffer(b2, l, o)
  <2> SUFFICES ASSUME NEW k \in Shown(b2), NEW m \in Shown(b2),
                      l[b2.rows[k].id].root = l[b2.rows[m].id].root,
                      l[b2.rows[k].id].root \notin o
               PROVE  k = m
    BY DEF RowsDiffer
  <2>1. k + 1 = m + 1
    BY <1>2 DEF Sound, RowsDiffer
  <2> QED BY <1>2, <2>1
<1>5. RowsKnown(b2, l, o)
  <2> SUFFICES ASSUME NEW k \in Shown(b2), l[b2.rows[k].id].root \notin o
               PROVE  /\ b2.rows[k].id \in b2.ids
                      /\ \/ b2.rows[k].id = l[b2.rows[k].id].root
                         \/ l[b2.rows[k].id].root \in b2.aliases
    BY DEF RowsKnown
  <2>1. /\ b2.rows[k].id \in b.ids
        /\ \/ b2.rows[k].id = l[b2.rows[k].id].root
           \/ l[b2.rows[k].id].root \in b2.aliases
    BY <1>2 DEF Sound, RowsKnown
  <2>2. b2.rows[k].id # Head(b.rows).id
    <3> SUFFICES ASSUME b2.rows[k].id = Head(b.rows).id PROVE FALSE
      OBVIOUS
    <3>1. 1 \in Shown(b) /\ b.rows[1].id = b.rows[k + 1].id
      BY <1>1, <1>2 DEF Shown
    <3>2. k + 1 = 1
      BY <1>2, <3>1 DEF Sound, RowsDiffer
    <3>3. k \in 1..Len(b2.rows)
      BY DEF Shown
    <3> QED BY <3>2, <3>3
  <2> QED BY <2>1, <2>2
<1>6. TombsKept(c, l, b2, l, o)
  BY <1>2 DEF TombsKept
<1> QED BY <1>3, <1>4, <1>5, <1>6 DEF Sound

LEMMA AppendedKeeps ==
    ASSUME NEW b \in Buffer, NEW row \in Row, NEW l, Len(l) \in Nat, NEW o, Sound(b, l, o),
           Refers(row, l), Plain(row, l, o)
    PROVE  Sound(Appended(b, row), l, o) /\ TombsKept(b, l, Appended(b, row), l, o)
<1>1. CASE Appended(b, row) = b
  <2>1. Longer(l, l)
    BY DEF Longer
  <2> QED BY <1>1, <2>1, SoundLater
<1>2. CASE Fresh(b, row)
  <2>1. PICK m : m = MadeBuf(b, row)
    OBVIOUS
  <2>2. Sound(m, l, o) /\ TombsKept(b, l, m, l, o)
    BY <1>2, <2>1, MadeKeeps
  <2>3. CASE Appended(b, row) = m
    BY <2>2, <2>3
  <2>4. CASE Appended(b, row) = [rows |-> Tail(Made(b, row)),
                                 ids |-> Known(b, row) \ {Head(Made(b, row)).id},
                                 aliases |-> b.aliases]
    <3>1. PICK a : a = Appended(b, row)
      OBVIOUS
    <3>2. /\ a.rows = Tail(m.rows) /\ a.ids = m.ids \ {Head(m.rows).id}
          /\ a.aliases = m.aliases
      BY <2>1, <2>4, <3>1 DEF MadeBuf
    <3>3. m.rows \in Seq(Row) /\ m.rows # <<>>
      BY <2>1, MadeIs DEF MadeBuf
    <3>4. Sound(a, l, o) /\ TombsKept(b, l, a, l, o)
      BY <2>2, <3>2, <3>3, TrimKeeps
    <3> QED BY <3>1, <3>4
  <2> QED BY <1>2, <2>1, <2>3, <2>4, AppendedIs DEF MadeBuf
<1> QED BY <1>1, <1>2, AppendedIs

---------------------------------------------------------------------------
(* An edit in place and a deletion keep it                                 *)

LEMMA EditedKeeps ==
    ASSUME NEW b \in Buffer, NEW n \in Ids, NEW new \in Ids \cup {0}, NEW text \in Texts,
           FirstNamed(b.rows, n) # 0, NEW l, Len(l) \in Nat, NEW o, Sound(b, l, o),
           n \in 1..Len(l), new \in 0..Len(l),
           new # 0 => /\ l[new].root = l[n].root
                      /\ l[new].from = b.rows[FirstNamed(b.rows, n)].from
    PROVE  Sound(Edited(b, n, new, text), l, o) /\ TombsKept(b, l, Edited(b, n, new, text), l, o)
<1>1. PICK e : e = Edited(b, n, new, text)
  OBVIOUS
<1>2. PICK i : i = FirstNamed(b.rows, n)
  OBVIOUS
<1>3. PICK id : id = IdAfter(b, n, new)
  OBVIOUS
<1>4. Rewrites(e, b, i, n, id, text)
  BY <1>1, <1>2, <1>3, EditedIs
<1>5. i \in 1..Len(b.rows) /\ Matches(b.rows[i], n) /\ Refers(b.rows[i], l)
  BY <1>4 DEF Rewrites, Sound, RowsRefer
<1>6. /\ b.rows[i].id \in 1..Len(l) /\ i \in Shown(b)
      /\ l[b.rows[i].id].root = l[n].root
  <2>1. b.rows[i].id # 0
    BY <1>5 DEF Refers, Matches
  <2> QED BY <1>5, <2>1 DEF Refers, Matches, Shown, Local
<1>7. /\ id \in 1..Len(l) /\ id # 0 /\ l[id].root = l[n].root
      /\ l[id].from = b.rows[i].from
  <2>1. CASE new = 0
    <3>1. id = b.rows[i].id
      BY <1>2, <1>3, <2>1 DEF IdAfter
    <3> QED BY <1>5, <1>6, <3>1 DEF Refers
  <2>2. CASE new # 0
    <3>1. id = new
      BY <1>3, <2>2 DEF IdAfter
    <3> QED BY <1>2, <2>2, <3>1
  <2> QED BY <2>1, <2>2
<1>8. Len(e.rows) = Len(b.rows) /\ \A k \in 1..Len(b.rows) : k # i => e.rows[k] = b.rows[k]
  BY <1>4 DEF Rewrites
<1>9. /\ e.rows[i].id = id /\ e.rows[i].from = b.rows[i].from
      /\ e.rows[i].deleted = b.rows[i].deleted
      /\ e.rows[i].of = IF b.rows[i].of = 0 THEN n ELSE b.rows[i].of
  BY <1>4 DEF Rewrites
\* Every row is of the message it was of.
<1>10. Shown(e) = Shown(b) /\ \A k \in Shown(b) : l[e.rows[k].id].root = l[b.rows[k].id].root
  <2>1. \A k \in 1..Len(b.rows) : e.rows[k].id # Local <=> b.rows[k].id # Local
    BY <1>6, <1>7, <1>8, <1>9 DEF Shown, Local
  <2>2. \A k \in 1..Len(b.rows) : b.rows[k].id # Local =>
           l[e.rows[k].id].root = l[b.rows[k].id].root
    BY <1>6, <1>7, <1>8, <1>9
  <2> QED BY <1>8, <2>1, <2>2 DEF Shown
<1>11. RowsRefer(e, l)
  <2> SUFFICES ASSUME NEW k \in 1..Len(b.rows) PROVE Refers(e.rows[k], l)
    BY <1>8 DEF RowsRefer
  <2>1. CASE k = i
    <3>1. /\ e.rows[i].of \in 1..Len(l) /\ l[e.rows[i].of].root = l[n].root
      BY <1>5, <1>6, <1>9 DEF Refers
    <3> QED BY <1>7, <1>9, <2>1, <3>1, SMTT(40) DEF Refers
  <2>2. CASE k # i
    BY <1>8, <2>2 DEF Sound, RowsRefer
  <2> QED BY <2>1, <2>2
<1>12. RowsDiffer(e, l, o)
  BY <1>10 DEF Sound, RowsDiffer
<1>13. RowsKnown(e, l, o)
  <2> SUFFICES ASSUME NEW k \in Shown(b), l[b.rows[k].id].root \notin o
               PROVE  /\ e.rows[k].id \in e.ids
                      /\ \/ e.rows[k].id = l[b.rows[k].id].root
                         \/ l[b.rows[k].id].root \in e.aliases
    BY <1>10 DEF RowsKnown
  <2>1. /\ b.rows[k].id \in b.ids
        /\ b.rows[k].id = l[b.rows[k].id].root \/ l[b.rows[k].id].root \in b.aliases
    BY DEF Sound, RowsKnown
  <2>2. e.aliases = b.aliases \cup {n, b.rows[i].id}
    BY <1>4 DEF Rewrites
  <2>3. e.ids = IF id = b.rows[i].id THEN b.ids ELSE (b.ids \ {b.rows[i].id}) \cup {id}
    BY <1>4 DEF Rewrites
  <2>4. CASE k = i
    BY <1>9, <2>1, <2>2, <2>3, <2>4
  <2>5. CASE k # i
    <3>1. e.rows[k] = b.rows[k]
      BY <1>8, <2>5 DEF Shown
    <3>2. b.rows[k].id # b.rows[i].id
      BY <1>6, <2>5 DEF Sound, RowsDiffer
    <3> QED BY <2>1, <2>2, <2>3, <3>1, <3>2
  <2> QED BY <2>4, <2>5
<1>14. TombsKept(b, l, e, l, o)
  <2> SUFFICES ASSUME NEW k \in Shown(b), NEW m \in Shown(b), b.rows[k].deleted,
                      l[b.rows[m].id].root = l[b.rows[k].id].root,
                      l[b.rows[k].id].root \notin o
               PROVE  e.rows[m].deleted
    BY <1>10 DEF TombsKept
  <2>1. k = m
    BY DEF Sound, RowsDiffer
  <2>2. e.rows[m].deleted = b.rows[m].deleted
    BY <1>8, <1>9 DEF Shown
  <2> QED BY <2>1, <2>2
<1> QED BY <1>1, <1>11, <1>12, <1>13, <1>14 DEF Sound

LEMMA DeletedKeeps ==
    ASSUME NEW b \in Buffer, NEW from, NEW n, NEW l, NEW o, Sound(b, l, o)
    PROVE  Sound(Deleted(b, from, n), l, o) /\ TombsKept(b, l, Deleted(b, from, n), l, o)
<1>1. PICK e : e = Deleted(b, from, n)
  OBVIOUS
<1>2. /\ e.ids = b.ids /\ e.aliases = b.aliases /\ Len(e.rows) = Len(b.rows)
      /\ \A k \in 1..Len(b.rows) :
            /\ e.rows[k].id = b.rows[k].id /\ e.rows[k].of = b.rows[k].of
            /\ e.rows[k].from = b.rows[k].from /\ (b.rows[k].deleted => e.rows[k].deleted)
  BY <1>1, DeletedIs
<1>3. Shown(e) = Shown(b) /\ Shown(b) \subseteq 1..Len(b.rows)
  BY <1>2 DEF Shown
<1>4. RowsRefer(e, l)
  BY <1>2 DEF Sound, RowsRefer, Refers
<1>5. RowsDiffer(e, l, o)
  BY <1>2, <1>3 DEF Sound, RowsDiffer
<1>6. RowsKnown(e, l, o)
  BY <1>2, <1>3 DEF Sound, RowsKnown
<1>7. TombsKept(b, l, e, l, o)
  <2> SUFFICES ASSUME NEW k \in Shown(b), NEW m \in Shown(b), b.rows[k].deleted,
                      l[b.rows[m].id].root = l[b.rows[k].id].root,
                      l[b.rows[k].id].root \notin o
               PROVE  e.rows[m].deleted
    BY <1>2, <1>3 DEF TombsKept
  <2>1. k = m
    BY DEF Sound, RowsDiffer
  <2> QED BY <1>2, <1>3, <2>1
<1> QED BY <1>1, <1>4, <1>5, <1>6, <1>7 DEF Sound

---------------------------------------------------------------------------
(* The lines on their way                                                  *)

OfKind(kinds) == {r \in Request : r.kind \in kinds}

LEMMA ManyPlaces ==
    ASSUME NEW q \in Seq(Request), NEW kinds
    PROVE  /\ Many(q, kinds) = Cardinality(Places(q, OfKind(kinds)))
           /\ Many(q, kinds) \in Nat
<1>1. {i \in 1..Len(q) : q[i].kind \in kinds} = Places(q, OfKind(kinds))
  BY DEF Places, OfKind
<1>2. Many(q, kinds) = Cardinality(Places(q, OfKind(kinds)))
  BY <1>1 DEF Many
<1> QED BY <1>2, PlacesFinite

\* The later of two places has fewer behind it.
LEMMA RankFalls ==
    ASSUME NEW I \in SUBSET Nat, IsFiniteSet(I), NEW i \in I, NEW j \in I, i < j
    PROVE  /\ Cardinality({m \in I : m > i}) \in Nat /\ Cardinality({m \in I : m > j}) \in Nat
           /\ Cardinality({m \in I : m > j}) < Cardinality({m \in I : m > i})
<1> DEFINE later(k) == {m \in I : m > k}
<1>1. IsFiniteSet(later(i)) /\ Cardinality(later(i)) \in Nat
  <2>1. later(i) \in SUBSET I
    OBVIOUS
  <2> QED BY <2>1, FS_Subset, FS_CardinalityType
<1>2. later(j) \in SUBSET later(i) /\ j \in later(i) /\ j \notin later(j)
  <2>1. i \in Nat /\ j \in Nat /\ ~(j > j)
    OBVIOUS
  <2>2. \A m \in I : m > j => m > i
    BY <2>1
  <2> QED BY <2>1, <2>2
<1>3. later(j) # later(i)
  BY <1>2
<1> HIDE DEF later
<1>4. /\ IsFiniteSet(later(j)) /\ Cardinality(later(j)) \in Nat
      /\ Cardinality(later(j)) <= Cardinality(later(i))
      /\ Cardinality(later(j)) # Cardinality(later(i))
  BY <1>1, <1>2, <1>3, FS_Subset, FS_CardinalityType
<1>5. Cardinality(later(j)) < Cardinality(later(i))
  BY <1>1, <1>4
<1> QED BY <1>1, <1>4, <1>5 DEF later

\* The k-th from the end of a set of places.
LEMMA Ranked ==
    ASSUME NEW I \in SUBSET Nat, IsFiniteSet(I), NEW k \in 0..(Cardinality(I) - 1)
    PROVE  \E i \in I : Cardinality({j \in I : j > i}) = k
<1> DEFINE later(i) == {j \in I : j > i}
           f == [i \in I |-> Cardinality(later(i))]
           c == Cardinality(I)
<1>1. c \in Nat
  BY FS_CardinalityType
<1>2. ASSUME NEW i \in I
      PROVE  IsFiniteSet(later(i)) /\ Cardinality(later(i)) \in 0..(c - 1)
  <2>1. IsFiniteSet(I \ {i}) /\ Cardinality(I \ {i}) = c - 1
    BY FS_RemoveElement
  <2>2. later(i) \in SUBSET (I \ {i})
    OBVIOUS
  <2>3. IsFiniteSet(later(i)) /\ Cardinality(later(i)) <= c - 1
    BY <2>1, <2>2, FS_Subset
  <2>4. Cardinality(later(i)) \in Nat
    BY <2>3, FS_CardinalityType
  <2> QED BY <1>1, <2>3, <2>4
<1>3. ASSUME NEW i \in I, NEW j \in I, i < j
      PROVE  Cardinality(later(i)) # Cardinality(later(j))
  BY <1>3, RankFalls
<1>4. f \in [I -> 0..(c - 1)] /\ \A i \in I : f[i] = Cardinality(later(i))
  BY <1>2
<1>5. \A i, j \in I : f[i] = f[j] => i = j
  <2> SUFFICES ASSUME NEW i \in I, NEW j \in I, f[i] = f[j], i # j PROVE FALSE
    OBVIOUS
  <2>1. i < j \/ j < i
    OBVIOUS
  <2> QED BY <1>3, <1>4, <2>1
<1> HIDE DEF f
<1>6. f \in Injection(I, 0..(c - 1))
  BY <1>4, <1>5 DEF Injection, IsInjective
<1>7. IsFiniteSet(0..(c - 1)) /\ Cardinality(0..(c - 1)) = c
  <2>1. 0 <= c - 1
    BY <1>1
  <2> QED BY <1>1, <2>1, FS_Interval
<1>8. f \in Surjection(I, 0..(c - 1))
  BY <1>6, <1>7, FS_Injection
<1>9. PICK i \in I : f[i] = k
  BY <1>8 DEF Surjection
<1> QED BY <1>4, <1>9

\* A replay is made of logged lines: of messages that are not deleted, in their
\* order, and none is left out behind the first.
LEMMA ReplayIs ==
    ASSUME log \in Seq(Entry)
    PROVE  \E n \in Nat : \E f \in [1..n -> 1..Len(log)] :
              /\ Replay \in Seq(Entry) /\ Len(Replay) = n
              /\ \A k \in 1..n : Replay[k] = log[f[k]] /\ log[f[k]].root \notin gone
              /\ \A j, k \in 1..n : j < k => f[j] < f[k]
              /\ \A k \in 1..n, v \in 1..Len(log) :
                    f[k] < v /\ log[v].root \notin gone => \E j \in 1..n : f[j] = v
<1> DEFINE kept == {i \in 1..Len(log) : log[i].root \notin gone}
           c == Cardinality(kept)
           n == IF c > HistLimit THEN HistLimit ELSE c
           rank(i) == Cardinality({j \in kept : j > i})
           at(k) == CHOOSE i \in kept : rank(i) = n - k
           f == [k \in 1..n |-> at(k)]
           r == [k \in 1..n |-> log[at(k)]]
<1>1. kept \in SUBSET Nat /\ IsFiniteSet(kept) /\ c \in Nat
  <2>1. IsFiniteSet(1..Len(log)) /\ kept \in SUBSET (1..Len(log))
    BY FS_Interval
  <2>2. IsFiniteSet(kept)
    BY <2>1, FS_Subset
  <2> QED BY <2>1, <2>2, FS_CardinalityType
<1>2. n \in Nat /\ n <= c
  BY <1>1, LimitsAssumption
<1>3. /\ kept \subseteq 1..Len(log) /\ \A i \in kept : log[i].root \notin gone
      /\ \A v \in 1..Len(log) : log[v].root \notin gone => v \in kept
  OBVIOUS
<1>4. Replay = r
  BY DEF Replay
<1> HIDE DEF kept, n
<1>5. ASSUME NEW k \in 1..n PROVE at(k) \in kept /\ rank(at(k)) = n - k
  <2>1. n - k \in 0..(Cardinality(kept) - 1)
    BY <1>1, <1>2 DEF c
  <2>2. \E i \in kept : rank(i) = n - k
    BY <1>1, <2>1, Ranked
  <2> QED BY <2>2
<1>6. \A i, j \in kept : i < j => rank(i) \in Nat /\ rank(j) \in Nat /\ rank(j) < rank(i)
  BY <1>1, RankFalls
<1> HIDE DEF rank
<1>7. f \in [1..n -> 1..Len(log)] /\ \A k \in 1..n : f[k] = at(k)
  BY <1>3, <1>5
<1>8. \A k \in 1..n : f[k] \in kept /\ rank(f[k]) = n - k /\ r[k] = log[f[k]]
  BY <1>5, <1>7
<1>9. Len(r) = n /\ r \in Seq(Entry)
  <2>1. \A k \in 1..n : r[k] \in Entry
    BY <1>7, <1>8
  <2>2. r \in [1..n -> Entry]
    BY <2>1
  <2>3. PICK m \in Nat : m = n
    BY <1>2
  <2>4. r \in [1..m -> Entry]
    BY <2>2, <2>3
  <2> HIDE DEF r
  <2>5. r \in Seq(Entry) /\ Len(r) = m
    BY <2>4
  <2> QED BY <2>3, <2>5
<1> HIDE DEF f, r, at
<1>10. ASSUME NEW j \in 1..n, NEW k \in 1..n, j < k PROVE f[j] < f[k]
  <2>1. PICK x \in kept : x = f[j] /\ rank(x) = n - j
    BY <1>8
  <2>2. PICK y \in kept : y = f[k] /\ rank(y) = n - k
    BY <1>8
  <2>3. n - k < n - j /\ n - k \in Int /\ n - j \in Int
    BY <1>2, <1>10
  <2>4. x \in Nat /\ y \in Nat /\ x # y
    BY <1>1, <2>1, <2>2, <2>3
  <2>5. ~(y < x)
    BY <1>6, <2>1, <2>2, <2>3
  <2> QED BY <2>1, <2>2, <2>4, <2>5
<1>11. ASSUME NEW k \in 1..n, NEW v \in kept, f[k] < v PROVE \E j \in 1..n : f[j] = v
  <2>1. rank(v) \in Nat /\ rank(v) < n - k
    BY <1>6, <1>8, <1>11
  <2>2. PICK j \in 1..n : j = n - rank(v)
    BY <1>2, <2>1
  <2>3. rank(f[j]) = rank(v)
    BY <1>2, <1>8, <2>1, <2>2
  <2>4. f[j] \in kept /\ ~(f[j] < v) /\ ~(v < f[j])
    BY <1>6, <1>8, <2>3
  <2>5. f[j] = v
    <3>1. f[j] \in Nat /\ v \in Nat
      BY <1>1, <2>4
    <3> QED BY <2>4, <3>1
  <2> QED BY <2>5
<1>12. /\ Replay \in Seq(Entry) /\ Len(Replay) = n
       /\ \A k \in 1..n : Replay[k] = log[f[k]] /\ log[f[k]].root \notin gone
  BY <1>3, <1>4, <1>8, <1>9
<1>13. \A k \in 1..n, v \in 1..Len(log) :
          f[k] < v /\ log[v].root \notin gone => \E j \in 1..n : f[j] = v
  BY <1>3, <1>11
<1> QED BY <1>2, <1>7, <1>10, <1>12, <1>13

LEMMA ReplayLogged ==
    ASSUME log \in Seq(Entry)
    PROVE  /\ Replay \in Seq(Entry)
           /\ \A k \in 1..Len(Replay) : \E i \in 1..Len(log) : Replay[k] = log[i]
  BY ReplayIs

---------------------------------------------------------------------------
(* The inductive invariant                                                 *)

\* An edit names an earlier message and is a version of what that one is of.
LogSound(l) ==
    /\ l \in Seq(Entry) /\ Len(l) <= MaxLog
    /\ \A i \in 1..Len(l) :
          /\ l[i].id = i /\ l[i].names \in 0..(i - 1)
          /\ l[i].kind = "post" <=> l[i].names = 0
          /\ l[i].root = IF l[i].names = 0 THEN i ELSE l[l[i].names].root

\* What is on its way to the user was logged, or names what was.
Carries(m, l) == IF m.kind = "delete" THEN m.names \in 1..Len(l)
                 ELSE m.id \in 1..Len(l) /\ m = l[m.id]

WireSound(w, l) == /\ w \in Seq(Entry \cup Deletion)
                   /\ \A i \in 1..Len(w) : Carries(w[i], l)

\* The user edits and deletes what was logged.
Asks(r, l) == r.kind \in {"edit", "delete"} => r.names \in 1..Len(l)

UpSound(u, l) == u \in Seq(Request) /\ \A i \in 1..Len(u) : Asks(u[i], l)

\* What is on its way to the server fits in its log.
Room(u, l) == Len(l) + Many(u, {"post", "edit"}) <= MaxLog

Plainly == /\ buf \in Buffer /\ Len(buf.rows) <= MaxRows
           /\ editing \in 0..Len(log) /\ online \in BOOLEAN
           /\ gone \subseteq Ids /\ missed \subseteq Ids /\ orphans \subseteq Ids
           /\ lost \in Nat /\ turns \in 0..MaxTurns

\* The user's nick, on the screen and on the server, is one of his.
NicksSound == nick \in OwnNicks /\ me \in OwnNicks /\ renames \in Seq(OwnNicks)

IInv == /\ Plainly /\ NicksSound /\ LogSound(log) /\ WireSound(wire, log) /\ UpSound(up, log)
        /\ Room(up, log) /\ Sound(buf, log, orphans)

\* What a step has to do for both theorems.
StepKeeps == IInv' /\ TombsKept(buf, log, buf', log', orphans')

LEMMA WireLater ==
    ASSUME NEW w, NEW l, NEW k, Len(l) \in Nat, Len(k) \in Nat, WireSound(w, l), Longer(l, k)
    PROVE  WireSound(w, k)
  BY DEF WireSound, Carries, Longer

LEMMA WireAppend ==
    ASSUME NEW w, NEW l, WireSound(w, l), NEW m \in Entry \cup Deletion, Carries(m, l)
    PROVE  WireSound(Append(w, m), l)
<1>1. w \in Seq(Entry \cup Deletion) /\ \A i \in 1..Len(w) : Carries(w[i], l)
  BY DEF WireSound
<1>2. PICK r : r = Append(w, m)
  OBVIOUS
<1>3. /\ r \in Seq(Entry \cup Deletion) /\ Len(r) = Len(w) + 1 /\ r[Len(w) + 1] = m
      /\ \A i \in 1..Len(w) : r[i] = w[i]
  BY <1>1, <1>2
<1>4. \A i \in 1..Len(r) : i \in 1..Len(w) \/ i = Len(w) + 1
  BY <1>1, <1>3
<1>5. \A i \in 1..Len(r) : Carries(r[i], l)
  BY <1>1, <1>3, <1>4
<1> QED BY <1>2, <1>3, <1>5 DEF WireSound

LEMMA WireTail ==
    ASSUME NEW w, NEW l, WireSound(w, l), w # <<>>
    PROVE  WireSound(Tail(w), l) /\ Carries(Head(w), l) /\ Head(w) \in Entry \cup Deletion
<1>1. w \in Seq(Entry \cup Deletion) /\ \A i \in 1..Len(w) : Carries(w[i], l)
  BY DEF WireSound
<1>2. PICK r : r = Tail(w)
  OBVIOUS
<1>3. /\ r \in Seq(Entry \cup Deletion) /\ Head(w) = w[1] /\ 1 \in 1..Len(w)
      /\ \A i \in 1..Len(r) : i + 1 \in 1..Len(w) /\ r[i] = w[i + 1]
  BY <1>1, <1>2
<1>4. \A i \in 1..Len(r) : Carries(r[i], l)
  BY <1>1, <1>3
<1> QED BY <1>1, <1>2, <1>3, <1>4 DEF WireSound

LEMMA WireReplay ==
    ASSUME WireSound(wire, log), LogSound(log)
    PROVE  WireSound(wire \o Replay, log)
<1>1. wire \in Seq(Entry \cup Deletion) /\ \A i \in 1..Len(wire) : Carries(wire[i], log)
  BY DEF WireSound
<1>2. PICK p \in Seq(Entry) :
        p = Replay /\ \A k \in 1..Len(p) : \E i \in 1..Len(log) : p[k] = log[i]
  BY ReplayLogged DEF LogSound
<1>3. \A i \in 1..Len(log) : Carries(log[i], log)
  <2> SUFFICES ASSUME NEW i \in 1..Len(log) PROVE Carries(log[i], log)
    OBVIOUS
  <2>1. log[i] \in Entry /\ log[i].id = i
    BY DEF LogSound
  <2>2. log[i].kind # "delete"
    BY <2>1 DEF Entry
  <2> QED BY <2>1, <2>2 DEF Carries
<1>4. p \in Seq(Entry \cup Deletion) /\ \A i \in 1..Len(p) : Carries(p[i], log)
  BY <1>2, <1>3
<1>5. PICK r : r = wire \o p
  OBVIOUS
<1>6. /\ r \in Seq(Entry \cup Deletion) /\ Len(r) = Len(wire) + Len(p)
      /\ \A i \in 1..Len(r) : r[i] = IF i <= Len(wire) THEN wire[i] ELSE p[i - Len(wire)]
  BY <1>1, <1>4, <1>5, ConcatProperties
<1>7. \A i \in 1..Len(r) : i \in 1..Len(wire) \/ (i > Len(wire) /\ i - Len(wire) \in 1..Len(p))
  BY <1>1, <1>4, <1>6
<1>8. \A i \in 1..Len(r) : Carries(r[i], log)
  <2> SUFFICES ASSUME NEW i \in 1..Len(r) PROVE Carries(r[i], log)
    OBVIOUS
  <2>1. CASE i \in 1..Len(wire)
    BY <1>1, <1>6, <2>1
  <2>2. CASE i > Len(wire) /\ i - Len(wire) \in 1..Len(p)
    <3>1. r[i] = p[i - Len(wire)]
      BY <1>1, <1>6, <2>2
    <3> QED BY <1>4, <2>2, <3>1
  <2> QED BY <1>7, <2>1, <2>2
<1> QED BY <1>2, <1>5, <1>6, <1>8 DEF WireSound

LEMMA UpLater ==
    ASSUME NEW u, NEW l, NEW k, Len(l) \in Nat, Len(k) \in Nat, UpSound(u, l), Longer(l, k)
    PROVE  UpSound(u, k)
  BY DEF UpSound, Asks, Longer

LEMMA UpAppend ==
    ASSUME NEW u, NEW l, Len(l) \in Nat, UpSound(u, l), NEW r \in Request, Asks(r, l)
    PROVE  /\ UpSound(Append(u, r), l)
           /\ Many(Append(u, r), {"post", "edit"}) =
                 Many(u, {"post", "edit"}) + IF r.kind \in {"post", "edit"} THEN 1 ELSE 0
<1>1. u \in Seq(Request) /\ \A i \in 1..Len(u) : Asks(u[i], l)
  BY DEF UpSound
<1>2. PICK q : q = Append(u, r)
  OBVIOUS
<1>3. /\ q \in Seq(Request) /\ Len(q) = Len(u) + 1 /\ q[Len(u) + 1] = r
      /\ \A i \in 1..Len(u) : q[i] = u[i]
  BY <1>1, <1>2
<1>4. \A i \in 1..Len(q) : i \in 1..Len(u) \/ i = Len(u) + 1
  BY <1>1, <1>3
<1>5. \A i \in 1..Len(q) : Asks(q[i], l)
  BY <1>1, <1>3, <1>4
<1>6. r \in OfKind({"post", "edit"}) <=> r.kind \in {"post", "edit"}
  BY DEF OfKind
<1>7. Many(q, {"post", "edit"}) =
         Many(u, {"post", "edit"}) + IF r.kind \in {"post", "edit"} THEN 1 ELSE 0
  <2>1. Cardinality(Places(q, OfKind({"post", "edit"}))) =
           Cardinality(Places(u, OfKind({"post", "edit"})))
              + IF r \in OfKind({"post", "edit"}) THEN 1 ELSE 0
    BY <1>1, <1>2, PlacesAppend
  <2>2. /\ Many(q, {"post", "edit"}) = Cardinality(Places(q, OfKind({"post", "edit"})))
        /\ Many(u, {"post", "edit"}) = Cardinality(Places(u, OfKind({"post", "edit"})))
    BY <1>1, <1>3, ManyPlaces
  <2> QED BY <1>6, <2>1, <2>2
<1> QED BY <1>2, <1>3, <1>5, <1>7 DEF UpSound

LEMMA UpTail ==
    ASSUME NEW u, NEW l, UpSound(u, l), u # <<>>
    PROVE  /\ UpSound(Tail(u), l) /\ Head(u) \in Request /\ Asks(Head(u), l)
           /\ Many(Tail(u), {"post", "edit"}) +
                 (IF Head(u).kind \in {"post", "edit"} THEN 1 ELSE 0)
              <= Many(u, {"post", "edit"})
           /\ Many(Tail(u), {"post", "edit"}) \in Nat /\ Many(u, {"post", "edit"}) \in Nat
<1>1. u \in Seq(Request) /\ \A i \in 1..Len(u) : Asks(u[i], l)
  BY DEF UpSound
<1>2. PICK q : q = Tail(u)
  OBVIOUS
<1>3. /\ q \in Seq(Request) /\ Head(u) = u[1] /\ 1 \in 1..Len(u)
      /\ \A i \in 1..Len(q) : i + 1 \in 1..Len(u) /\ q[i] = u[i + 1]
  BY <1>1, <1>2
<1>4. \A i \in 1..Len(q) : Asks(q[i], l)
  BY <1>1, <1>3
<1>5. Head(u) \in Request
  BY <1>1, <1>3
<1>6. Head(u) \in OfKind({"post", "edit"}) <=> Head(u).kind \in {"post", "edit"}
  BY <1>5 DEF OfKind
<1>7. Many(q, {"post", "edit"}) + (IF Head(u).kind \in {"post", "edit"} THEN 1 ELSE 0)
         <= Many(u, {"post", "edit"})
  <2>1. Cardinality(Places(q, OfKind({"post", "edit"})))
           + (IF Head(u) \in OfKind({"post", "edit"}) THEN 1 ELSE 0)
           = Cardinality(Places(u, OfKind({"post", "edit"})))
    BY <1>1, <1>2, PlacesTail
  <2>2. /\ Many(q, {"post", "edit"}) = Cardinality(Places(q, OfKind({"post", "edit"})))
        /\ Many(u, {"post", "edit"}) = Cardinality(Places(u, OfKind({"post", "edit"})))
        /\ Many(q, {"post", "edit"}) \in Nat /\ Many(u, {"post", "edit"}) \in Nat
    BY <1>1, <1>3, ManyPlaces
  <2> QED BY <1>6, <2>1, <2>2
<1> QED BY <1>1, <1>2, <1>3, <1>4, <1>5, <1>7, ManyPlaces DEF UpSound

LEMMA NothingUp == Many(<<>>, {"post", "edit"}) = 0
<1>1. {i \in 1..Len(<<>>) : <<>>[i].kind \in {"post", "edit"}} = {}
  OBVIOUS
<1> QED BY <1>1, FS_EmptySet DEF Many

\* A message or an edit is logged.
LEMMA LogAppend ==
    ASSUME LogSound(log), Len(log) < MaxLog, NEW text \in Texts, NEW from \in Nicks,
           NEW kind \in {"post", "edit"}, NEW names,
           \/ kind = "post" /\ names = 0
           \/ kind = "edit" /\ names \in 1..Len(log),
           NEW m, m = Said(kind, names, text, from)
    PROVE  /\ m \in Entry /\ m.root \in Ids
           /\ LogSound(Append(log, m)) /\ Longer(log, Append(log, m))
           /\ Len(Append(log, m)) = Len(log) + 1
           /\ Carries(m, Append(log, m))
<1>1. log \in Seq(Entry) /\ Len(log) \in Nat /\ MaxLog \in Nat
  BY LimitsAssumption DEF LogSound
<1>2. PICK id \in Ids : id = Len(log) + 1
  BY <1>1 DEF Ids
<1>3. names \in 0..(id - 1) /\ names \in Ids \cup {0} /\ (kind = "post" <=> names = 0)
  BY <1>1, <1>2 DEF Ids
<1>4. names # 0 => log[names] \in Entry /\ log[names].root \in Ids
  <2>1. names # 0 => log[names] \in Entry
    BY <1>1
  <2> QED BY <2>1 DEF Entry
<1>5. PICK root \in Ids : root = IF names = 0 THEN id ELSE log[names].root
  BY <1>4
<1>6. m = [kind |-> kind, id |-> id, names |-> names, text |-> text, from |-> from,
           root |-> root]
  BY <1>2, <1>5 DEF Said
<1>7. m \in Entry /\ m.kind = kind /\ m.id = id /\ m.names = names /\ m.root = root
  BY <1>3, <1>6 DEF Entry
<1>8. PICK k : k = Append(log, m)
  OBVIOUS
<1>9. /\ k \in Seq(Entry) /\ Len(k) = id /\ k[id] = m
      /\ \A i \in 1..Len(log) : k[i] = log[i]
  BY <1>1, <1>2, <1>7, <1>8
<1>10. LogSound(k)
  <2> SUFFICES ASSUME NEW i \in 1..Len(k)
               PROVE  /\ k[i].id = i /\ k[i].names \in 0..(i - 1)
                      /\ k[i].kind = "post" <=> k[i].names = 0
                      /\ k[i].root = IF k[i].names = 0 THEN i ELSE k[k[i].names].root
    BY <1>2, <1>9 DEF LogSound, Ids
  <2>1. CASE i = id
    <3>1. names # 0 => k[names] = log[names]
      BY <1>1, <1>9
    <3> QED BY <1>3, <1>5, <1>7, <1>9, <2>1, <3>1
  <2>2. CASE i # id
    <3>1. i \in 1..Len(log) /\ k[i] = log[i]
      BY <1>1, <1>2, <1>9, <2>2
    <3>2. /\ log[i].id = i /\ log[i].names \in 0..(i - 1)
          /\ log[i].kind = "post" <=> log[i].names = 0
          /\ log[i].root = IF log[i].names = 0 THEN i ELSE log[log[i].names].root
      BY <3>1 DEF LogSound
    <3>3. log[i].names # 0 => k[log[i].names] = log[log[i].names]
      BY <1>1, <1>9, <3>1, <3>2
    <3> QED BY <3>1, <3>2, <3>3
  <2> QED BY <2>1, <2>2
<1>11. Longer(log, k)
  BY <1>1, <1>2, <1>9 DEF Longer
<1>12. Carries(m, k)
  BY <1>2, <1>7, <1>9 DEF Carries, Ids
<1> QED BY <1>2, <1>7, <1>8, <1>9, <1>10, <1>11, <1>12

---------------------------------------------------------------------------
(* The user's clicks                                                       *)

LEMMA LogIs ==
    ASSUME IInv
    PROVE  /\ log \in Seq(Entry) /\ Len(log) \in Nat /\ MaxLog \in Nat /\ Len(log) <= MaxLog
           /\ 1..Len(log) \subseteq Ids
           /\ \A i \in 1..Len(log) : log[i] \in Entry /\ log[i].root \in Ids
<1>1. /\ log \in Seq(Entry) /\ Len(log) \in Nat /\ MaxLog \in Nat /\ Len(log) <= MaxLog
  BY LimitsAssumption DEF IInv, LogSound
<1>2. 1..Len(log) \subseteq Ids
  BY <1>1 DEF Ids
<1>3. \A i \in 1..Len(log) : log[i] \in Entry
  BY <1>1
<1> QED BY <1>1, <1>2, <1>3 DEF Entry

\* A step that leaves the log alone.
LEMMA SameLog ==
    ASSUME IInv, NicksSound', UNCHANGED log, Plainly', WireSound(wire', log), UpSound(up', log),
           Room(up', log), Sound(buf', log, orphans'),
           TombsKept(buf, log, buf', log, orphans')
    PROVE  StepKeeps
<1>1. LogSound(log')
  BY DEF IInv
<1>2. /\ WireSound(wire', log') /\ UpSound(up', log') /\ Room(up', log')
      /\ Sound(buf', log', orphans')
      /\ TombsKept(buf, log, buf', log', orphans')
  OBVIOUS
<1> QED BY <1>1, <1>2 DEF StepKeeps, IInv

\* The nick changes where the code and the server change it, and to one of his.
LEMMA NicksKeep == ASSUME NicksSound, [Next]_vars PROVE NicksSound'
<1>1. CASE UNCHANGED nickVars
  BY <1>1 DEF NicksSound, nickVars
<1>2. CASE OnNickChanged
  BY <1>2 DEF OnNickChanged, NicksSound
<1>3. CASE Rejoin
  BY <1>3 DEF Rejoin, NicksSound
<1>4. CASE Drop
  BY <1>4 DEF Drop, NicksSound
<1>5. CASE \E n \in OwnNicks : Rename(n)
  BY <1>5 DEF Rename, NicksSound
<1>6. CASE User
  BY <1>1, <1>6, Zenon DEF User, Send, Save, BeginEdit, Delete, CancelEdit, OpenChat
<1>7. CASE Others
  BY <1>1, <1>7, Zenon DEF Others, OthersPost, OthersEdit, OthersDelete
<1>8. CASE Receive \/ ServerReads
  BY <1>1, <1>8, Zenon DEF Receive, ServerReads
<1>9. CASE UNCHANGED vars
  BY <1>1, <1>9 DEF vars, nickVars
<1> QED BY <1>2, <1>3, <1>4, <1>5, <1>6, <1>7, <1>8, <1>9 DEF Next

LEMMA TombsSame ==
    ASSUME IInv PROVE TombsKept(buf, log, buf, log, orphans)
<1>1. Longer(log, log)
  BY LogIs DEF Longer
<1> QED BY <1>1, LogIs, SoundLater DEF IInv

\* What a request adds to the lines on their way.
LEMMA RequestKeeps ==
    ASSUME IInv, NEW r \in Request, Asks(r, log), Request1(r),
           r.kind \in {"post", "edit"} => Fits
    PROVE  UpSound(up', log) /\ Room(up', log)
<1>1. CASE ~online
  BY <1>1 DEF Request1, IInv
<1>2. CASE online
  <2>1. up' = Append(up, r)
    BY <1>2 DEF Request1
  <2>2. /\ UpSound(Append(up, r), log)
        /\ Many(Append(up, r), {"post", "edit"}) =
              Many(up, {"post", "edit"}) + IF r.kind \in {"post", "edit"} THEN 1 ELSE 0
    BY LogIs, UpAppend DEF IInv
  <2>3. Many(up, {"post", "edit"}) \in Nat
    BY ManyPlaces DEF IInv, UpSound
  <2>4. Room(Append(up, r), log)
    BY <2>2, <2>3, LogIs DEF IInv, Room, Fits
  <2> QED BY <2>1, <2>2, <2>4
<1> QED BY <1>1, <1>2 DEF IInv, Plainly

LEMMA SendKeeps ==
    ASSUME IInv, NicksSound', NEW t \in Texts, Send(t) PROVE StepKeeps
<1>1. PICK row : row = [id |-> Local, of |-> 0, text |-> t, from |-> nick,
                        deleted |-> FALSE, ts |-> Len(log)]
  OBVIOUS
<1>2. PICK r : r = [kind |-> "post", names |-> 0, text |-> t, from |-> nick]
  OBVIOUS
<1>3. /\ buf' = Appended(buf, row) /\ Request1(r) /\ Fits
      /\ lost' = IF online THEN lost ELSE lost + 1
      /\ UNCHANGED <<editing, online, wire, log, gone, missed, orphans, turns>>
  BY <1>1, <1>2, Zenon DEF Send, serverVars
<1>4. row \in Row /\ Refers(row, log) /\ Plain(row, log, orphans)
  BY <1>1, LogIs DEF Row, Refers, Plain, Local, Nicks, IInv, NicksSound
<1>5. r \in Request /\ Asks(r, log)
  BY <1>2 DEF Request, Asks, IInv, NicksSound
<1>6. UpSound(up', log) /\ Room(up', log)
  BY <1>3, <1>5, RequestKeeps
<1>7. buf' \in Buffer /\ Len((buf').rows) <= MaxRows
  BY <1>3, <1>4, AppendedType DEF IInv, Plainly
<1>8. Sound(buf', log, orphans) /\ TombsKept(buf, log, buf', log, orphans)
  BY <1>3, <1>4, LogIs, AppendedKeeps DEF IInv, Plainly
<1>9. Plainly'
  BY <1>3, <1>7 DEF IInv, Plainly
<1> QED BY <1>3, <1>6, <1>8, <1>9, SameLog DEF IInv

LEMMA RowOwned ==
    ASSUME IInv, NEW i, Own(i)
    PROVE  /\ i \in 1..Len(buf.rows) /\ buf.rows[i].id \in 1..Len(log)
           /\ buf.rows[i].of \in 0..Len(log)
<1>1. i \in 1..Len(buf.rows) /\ buf.rows[i].id # 0
  BY DEF Own, Local
<1>2. Refers(buf.rows[i], log)
  BY <1>1 DEF IInv, Sound, RowsRefer
<1> QED BY <1>1, <1>2, LogIs DEF Refers

LEMMA BeginEditKeeps ==
    ASSUME IInv, NicksSound', NEW i, BeginEdit(i) PROVE StepKeeps
<1>1. /\ Own(i) /\ editing' = buf.rows[i].id
      /\ UNCHANGED <<buf, online, up, wire, log, gone, missed, orphans, lost, turns>>
  BY Zenon DEF BeginEdit, serverVars, historyVars
<1>2. editing' \in 0..Len(log)
  BY <1>1, RowOwned
<1>3. Plainly'
  BY <1>1, <1>2 DEF IInv, Plainly
<1> QED BY <1>1, <1>3, TombsSame, SameLog DEF IInv

LEMMA CancelEditKeeps ==
    ASSUME IInv, NicksSound', CancelEdit PROVE StepKeeps
<1>1. /\ editing' = 0
      /\ UNCHANGED <<buf, online, up, wire, log, gone, missed, orphans, lost, turns>>
  BY Zenon DEF CancelEdit, serverVars, historyVars
<1>2. Plainly'
  BY <1>1, LogIs DEF IInv, Plainly
<1> QED BY <1>1, <1>2, TombsSame, SameLog DEF IInv

\* The rows an edit rewrites are there, and it is their author's.
LEMMA EditKeeps ==
    ASSUME IInv, NEW from, NEW n \in 1..Len(log), NEW new \in 0..Len(log), NEW text \in Texts,
           Editable(buf, from, n),
           new # 0 => log[new].root = log[n].root /\ log[new].from = from
    PROVE  /\ Edited(buf, n, new, text) \in Buffer
           /\ Len(Edited(buf, n, new, text).rows) = Len(buf.rows)
           /\ Sound(Edited(buf, n, new, text), log, orphans)
           /\ TombsKept(buf, log, Edited(buf, n, new, text), log, orphans)
<1>1. /\ FirstNamed(buf.rows, n) # 0 /\ buf.rows[FirstNamed(buf.rows, n)].from = from
  BY DEF Editable
<1>2. n \in Ids /\ new \in Ids \cup {0} /\ Len(log) \in Nat
  BY LogIs
<1>3. buf \in Buffer /\ Sound(buf, log, orphans)
  BY DEF IInv, Plainly
<1>4. LocalsPlain(buf.rows)
  BY <1>3 DEF Sound, RowsRefer, Refers, LocalsPlain, Local
<1>5. Edited(buf, n, new, text) \in Buffer
  BY <1>1, <1>2, <1>3, <1>4, EditedType
<1>6. Len(Edited(buf, n, new, text).rows) = Len(buf.rows)
  <2>1. Rewrites(Edited(buf, n, new, text), buf, FirstNamed(buf.rows, n), n,
                 IdAfter(buf, n, new), text)
    BY <1>1, <1>2, <1>3, EditedIs
  <2> QED BY <2>1 DEF Rewrites
<1>7. /\ Sound(Edited(buf, n, new, text), log, orphans)
      /\ TombsKept(buf, log, Edited(buf, n, new, text), log, orphans)
  BY <1>1, <1>2, <1>3, EditedKeeps
<1> QED BY <1>5, <1>6, <1>7

LEMMA SaveKeeps ==
    ASSUME IInv, NicksSound', NEW t \in Texts, Save(t) PROVE StepKeeps
<1>1. PICK r : r = [kind |-> "edit", names |-> editing, text |-> t, from |-> nick]
  OBVIOUS
<1>2. /\ buf' = IF Editable(buf, nick, editing) THEN Edited(buf, editing, 0, t) ELSE buf
      /\ Request1(r) /\ Fits /\ editing # 0 /\ editing' = 0
      /\ missed' = IF online THEN missed ELSE missed \cup {log[editing].root}
      /\ UNCHANGED <<online, wire, log, gone, orphans, lost, turns>>
  BY <1>1, Zenon DEF Save, serverVars
<1>3. editing \in 1..Len(log) /\ editing \in Ids /\ log[editing].root \in Ids
  BY <1>2, LogIs DEF IInv, Plainly
<1>4. r \in Request /\ Asks(r, log)
  BY <1>1, <1>3 DEF Request, Asks, IInv, NicksSound
<1>5. UpSound(up', log) /\ Room(up', log)
  BY <1>2, <1>4, RequestKeeps
<1>6. /\ buf' \in Buffer /\ Len((buf').rows) <= MaxRows /\ Sound(buf', log, orphans)
      /\ TombsKept(buf, log, buf', log, orphans)
  <2>1. CASE Editable(buf, nick, editing)
    <3>1. 0 \in 0..Len(log) /\ Len(buf.rows) <= MaxRows
      BY LogIs DEF IInv, Plainly
    <3> QED BY <1>2, <1>3, <2>1, <3>1, EditKeeps
  <2>2. CASE ~Editable(buf, nick, editing)
    BY <1>2, <2>2, TombsSame DEF IInv, Plainly
  <2> QED BY <2>1, <2>2
<1>7. missed' \subseteq Ids
  BY <1>2, <1>3 DEF IInv, Plainly
<1>8. Plainly'
  <2>1. editing' \in 0..Len(log') /\ online' \in BOOLEAN
    BY <1>2, LogIs DEF IInv, Plainly
  <2> QED BY <1>2, <1>6, <1>7, <2>1 DEF IInv, Plainly
<1> QED BY <1>2, <1>5, <1>6, <1>8, SameLog DEF IInv

LEMMA DeleteKeeps ==
    ASSUME IInv, NicksSound', NEW i, Delete(i) PROVE StepKeeps
<1>1. PICK n : n = IF buf.rows[i].of # 0 THEN buf.rows[i].of ELSE buf.rows[i].id
  OBVIOUS
<1>2. PICK r : r = [kind |-> "delete", names |-> n]
  OBVIOUS
<1>3. /\ Own(i) /\ buf' = Deleted(buf, nick, n) /\ Request1(r)
      /\ editing' = IF editing = n THEN 0 ELSE editing
      /\ missed' = IF online THEN missed ELSE missed \cup {log[n].root}
      /\ UNCHANGED <<online, wire, log, gone, orphans, lost, turns>>
  BY <1>1, <1>2, Zenon DEF Delete, serverVars
<1>4. n \in 1..Len(log) /\ n \in Ids /\ log[n].root \in Ids
  BY <1>1, <1>3, RowOwned, LogIs
<1>5. r \in Request /\ Asks(r, log) /\ r.kind \notin {"post", "edit"}
  BY <1>2, <1>4 DEF Request, Asks
<1>6. UpSound(up', log) /\ Room(up', log)
  BY <1>3, <1>5, RequestKeeps
<1>7. /\ buf' \in Buffer /\ Len((buf').rows) <= MaxRows
  BY <1>3, DeletedIs DEF IInv, Plainly
<1>8. Sound(buf', log, orphans) /\ TombsKept(buf, log, buf', log, orphans)
  BY <1>3, DeletedKeeps DEF IInv, Plainly
<1>9. missed' \subseteq Ids
  BY <1>3, <1>4 DEF IInv, Plainly
<1>10. Plainly'
  <2>1. editing' \in 0..Len(log') /\ online' \in BOOLEAN
    BY <1>3, LogIs DEF IInv, Plainly
  <2> QED BY <1>3, <1>7, <1>9, <2>1 DEF IInv, Plainly
<1> QED BY <1>3, <1>6, <1>8, <1>10, SameLog DEF IInv

---------------------------------------------------------------------------
(* Lines of the server, and the session                                    *)

LEMMA LineIs ==
    ASSUME IInv, wire # <<>>
    PROVE  /\ WireSound(Tail(wire), log) /\ Head(wire) \in Entry \cup Deletion
           /\ Head(wire).kind = "delete" =>
                 Head(wire) \in Deletion /\ Head(wire).names \in 1..Len(log)
           /\ Head(wire).kind # "delete" =>
                 /\ Head(wire) \in Entry /\ Head(wire).id \in 1..Len(log)
                 /\ Head(wire) = log[Head(wire).id]
<1>1. /\ WireSound(Tail(wire), log) /\ Carries(Head(wire), log)
      /\ Head(wire) \in Entry \cup Deletion
  BY WireTail DEF IInv
<1>2. Head(wire) \in Entry => Head(wire).kind # "delete"
  BY DEF Entry
<1>3. Head(wire) \in Deletion => Head(wire).kind = "delete"
  BY DEF Deletion
<1> QED BY <1>1, <1>2, <1>3 DEF Carries

\* The row of a logged message.
LEMMA RowOfIs ==
    ASSUME IInv, NEW n \in 1..Len(log)
    PROVE  /\ RowOf(log[n]) \in Row /\ Refers(RowOf(log[n]), log)
           /\ RowOf(log[n]).id = n
           /\ log[n].kind = "post" => log[n].root = n
           /\ log[n].kind = "edit" => log[n].names \in 1..Len(log)
                                      /\ log[log[n].names].root = log[n].root
<1>1. PICK m : m = log[n]
  OBVIOUS
<1>2. /\ m \in Entry /\ m.id = n /\ m.names \in 0..(n - 1)
      /\ (m.kind = "post" <=> m.names = 0)
      /\ m.root = IF m.names = 0 THEN n ELSE log[m.names].root
  BY <1>1, LogIs DEF IInv, LogSound
<1>3. PICK row : row = RowOf(m)
  OBVIOUS
<1>4. /\ row = [id |-> m.id, of |-> m.names, text |-> m.text, from |-> m.from,
                deleted |-> FALSE, ts |-> m.id]
  BY <1>3 DEF RowOf
<1>5. n \in Ids /\ n \in Nat /\ n <= Len(log) /\ Len(log) \in Nat /\ n # 0
  BY LogIs
<1>6. row \in Row
  BY <1>2, <1>4, <1>5 DEF Row, Entry, Local
<1>7. row.id = n /\ row.of = m.names /\ row.from = m.from
  BY <1>2, <1>4
<1>8. m.names \in 0..Len(log) /\ n \in 0..Len(log)
  BY <1>2, <1>5
<1>9. Refers(row, log)
  BY <1>1, <1>2, <1>5, <1>7, <1>8 DEF Refers
<1>10. m.kind = "edit" => m.names \in 1..Len(log) /\ log[m.names].root = m.root
  BY <1>2, <1>5, <1>8
<1> QED BY <1>1, <1>2, <1>3, <1>6, <1>7, <1>9, <1>10

LEMMA ReceiveKeeps ==
    ASSUME IInv, NicksSound', Receive PROVE StepKeeps
<1>1. PICK m : m = Head(wire)
  OBVIOUS
<1>2. /\ wire # <<>> /\ wire' = Tail(wire)
      /\ UNCHANGED <<editing, online, up, log, gone, missed, lost, turns>>
  BY DEF Receive, serverVars
<1>3. \/ /\ m.kind = "delete" /\ buf' = Deleted(buf, m.from, m.names)
         /\ orphans' = IF Disowned(buf, m.from, m.names)
                       THEN orphans \cup {log[m.names].root} ELSE orphans
      \/ /\ m.kind = "edit" /\ Editable(buf, m.from, m.names)
         /\ buf' = Edited(buf, m.names, m.id, m.text) /\ UNCHANGED orphans
      \/ /\ m.kind = "edit" /\ buf' = Appended(buf, RowOf(m))
         /\ orphans' = IF m.id \in buf.ids \cup buf.aliases THEN orphans
                       ELSE orphans \cup {m.root}
      \/ /\ m.kind = "post" /\ buf' = Appended(buf, RowOf(m)) /\ UNCHANGED orphans
  BY <1>1, Zenon DEF Receive
<1>4. /\ WireSound(Tail(wire), log)
      /\ m.kind = "delete" => m \in Deletion /\ m.names \in 1..Len(log)
      /\ m.kind # "delete" => m \in Entry /\ m.id \in 1..Len(log) /\ m = log[m.id]
  BY <1>1, <1>2, LineIs
<1>5. buf \in Buffer /\ Len(buf.rows) <= MaxRows /\ Sound(buf, log, orphans)
  BY DEF IInv, Plainly
<1>6. /\ buf' \in Buffer /\ Len((buf').rows) <= MaxRows /\ Sound(buf', log, orphans')
      /\ TombsKept(buf, log, buf', log, orphans') /\ orphans' \subseteq Ids
  <2>1. CASE /\ m.kind = "delete" /\ buf' = Deleted(buf, m.from, m.names)
             /\ orphans' = IF Disowned(buf, m.from, m.names)
                           THEN orphans \cup {log[m.names].root} ELSE orphans
    <3>1. log[m.names].root \in Ids /\ orphans \subseteq Ids
      BY <1>4, <2>1, LogIs DEF IInv, Plainly
    <3>2. orphans' \subseteq Ids /\ orphans \subseteq orphans'
      BY <2>1, <3>1
    <3>3. Longer(log, log)
      BY LogIs DEF Longer
    <3>4. Sound(buf, log, orphans')
      BY <1>5, <3>2, <3>3, LogIs, SoundLater
    <3>5. Sound(buf', log, orphans') /\ TombsKept(buf, log, buf', log, orphans')
      BY <1>5, <2>1, <3>4, DeletedKeeps
    <3> QED BY <1>5, <2>1, <3>2, <3>5, DeletedIs
  <2>2. CASE /\ m.kind = "edit" /\ Editable(buf, m.from, m.names)
             /\ buf' = Edited(buf, m.names, m.id, m.text) /\ UNCHANGED orphans
    <3>1. m.names \in 1..Len(log) /\ log[m.names].root = m.root
      BY <1>4, <2>2, RowOfIs
    <3>2. m.id \in 0..Len(log) /\ m.text \in Texts
      BY <1>4, <2>2 DEF Entry
    <3>3. log[m.id].root = log[m.names].root /\ log[m.id].from = m.from
      BY <1>4, <2>2, <3>1
    <3>4. /\ buf' \in Buffer /\ Len((buf').rows) = Len(buf.rows) /\ Sound(buf', log, orphans)
          /\ TombsKept(buf, log, buf', log, orphans)
      BY <2>2, <3>1, <3>2, <3>3, EditKeeps
    <3>5. orphans' = orphans /\ orphans \subseteq Ids
      BY <2>2 DEF IInv, Plainly
    <3> QED BY <1>5, <3>4, <3>5
  <2>3. CASE m.kind = "post" /\ buf' = Appended(buf, RowOf(m)) /\ UNCHANGED orphans
    <3>1. /\ RowOf(m) \in Row /\ Refers(RowOf(m), log) /\ Plain(RowOf(m), log, orphans)
      BY <1>4, <2>3, RowOfIs DEF Plain
    <3>2. orphans' = orphans /\ orphans \subseteq Ids
      BY <2>3 DEF IInv, Plainly
    <3> QED BY <1>5, <2>3, <3>1, <3>2, LogIs, AppendedType, AppendedKeeps
  <2>4. CASE /\ m.kind = "edit" /\ buf' = Appended(buf, RowOf(m))
             /\ orphans' = IF m.id \in buf.ids \cup buf.aliases THEN orphans
                           ELSE orphans \cup {m.root}
    <3>1. /\ RowOf(m) \in Row /\ Refers(RowOf(m), log) /\ RowOf(m).id = m.id
          /\ m.root \in Ids /\ log[m.id].root = m.root /\ m.id # Local
      <4>1. m.id \in 1..Len(log) /\ m = log[m.id]
        BY <1>4, <2>4
      <4>2. RowOf(log[m.id]) \in Row /\ Refers(RowOf(log[m.id]), log) /\ RowOf(log[m.id]).id = m.id
        BY <4>1, RowOfIs
      <4>3. log[m.id].root \in Ids /\ m.id # Local
        BY <4>1, LogIs DEF Local
      <4> QED BY <4>1, <4>2, <4>3
    <3>2. orphans \subseteq Ids
      BY DEF IInv, Plainly
    <3>3. CASE m.id \in buf.ids \cup buf.aliases
      <4>1. ~Fresh(buf, RowOf(m))
        BY <3>1, <3>3 DEF Fresh
      <4>2. buf' = buf
        BY <1>5, <2>4, <3>1, <4>1, AppendedIs
      <4>3. orphans' = orphans
        BY <2>4, <3>3
      <4> QED BY <1>5, <3>2, <4>2, <4>3, TombsSame
    <3>4. CASE m.id \notin buf.ids \cup buf.aliases
      <4>1. orphans' = orphans \cup {m.root}
        BY <2>4, <3>4
      <4>2. Longer(log, log) /\ orphans \subseteq orphans'
        BY <4>1, LogIs DEF Longer
      <4>3. Sound(buf, log, orphans')
        BY <1>5, <4>2, LogIs, SoundLater
      <4>4. Plain(RowOf(m), log, orphans')
        BY <3>1, <4>1 DEF Plain
      <4>5. Sound(buf', log, orphans') /\ TombsKept(buf, log, buf', log, orphans')
        BY <1>5, <2>4, <3>1, <4>3, <4>4, LogIs, AppendedKeeps
      <4> QED BY <1>5, <2>4, <3>1, <3>2, <4>1, <4>5, AppendedType
    <3> QED BY <3>3, <3>4
  <2> QED BY <1>3, <2>1, <2>2, <2>3, <2>4
<1>7. Plainly'
  BY <1>2, <1>6 DEF IInv, Plainly
<1>8. WireSound(wire', log) /\ UpSound(up', log) /\ Room(up', log)
  BY <1>2, <1>4 DEF IInv
<1> QED BY <1>2, <1>6, <1>7, <1>8, SameLog

\* Nothing, or a request for history, on its way.
LEMMA HistoryUp ==
    ASSUME IInv, NEW u, UpSound(u, log), Many(u, {"post", "edit"}) = 0
    PROVE  Room(u, log)
  BY LogIs DEF Room

LEMMA EmptyUp == ASSUME NEW l, Len(l) \in Nat PROVE UpSound(<<>>, l)
<1>1. <<>> \in Seq(Request) /\ \A i \in 1..Len(<<>>) : FALSE
  OBVIOUS
<1> QED BY <1>1 DEF UpSound

LEMMA RejoinKeeps ==
    ASSUME IInv, NicksSound', Rejoin PROVE StepKeeps
<1>1. PICK r : r = [kind |-> "history"]
  OBVIOUS
<1>2. /\ online' = TRUE
      /\ up' = <<>> \/ up' = <<r>>
      /\ UNCHANGED <<buf, editing, wire, log, gone, missed, orphans, lost>>
      /\ turns' = turns \/ (turns < MaxTurns /\ turns' = turns + 1)
  BY <1>1, Zenon DEF Rejoin, serverVars, historyVars
<1>3. r \in Request /\ Asks(r, log) /\ r.kind \notin {"post", "edit"}
  BY <1>1 DEF Request, Asks
<1>4. UpSound(<<>>, log) /\ Room(<<>>, log)
  BY LogIs, EmptyUp, NothingUp, HistoryUp
<1>5. UpSound(<<r>>, log) /\ Room(<<r>>, log)
  <2>1. Append(<<>>, r) = <<r>>
    OBVIOUS
  <2>2. /\ UpSound(Append(<<>>, r), log)
        /\ Many(Append(<<>>, r), {"post", "edit"}) =
              Many(<<>>, {"post", "edit"}) + IF r.kind \in {"post", "edit"} THEN 1 ELSE 0
    BY <1>3, <1>4, LogIs, UpAppend
  <2> QED BY <1>3, <2>1, <2>2, NothingUp, HistoryUp
<1>6. Plainly'
  <2>1. online' \in BOOLEAN
    BY <1>2
  <2>2. turns' \in 0..MaxTurns
    BY <1>2, LimitsAssumption DEF IInv, Plainly
  <2> QED BY <1>2, <2>1, <2>2 DEF IInv, Plainly
<1> QED BY <1>2, <1>4, <1>5, <1>6, TombsSame, SameLog DEF IInv

LEMMA OpenChatKeeps ==
    ASSUME IInv, NicksSound', OpenChat PROVE StepKeeps
<1>1. PICK r : r = [kind |-> "history"]
  OBVIOUS
<1>2. /\ online /\ up' = Append(up, r)
      /\ UNCHANGED <<buf, editing, online, wire, log, gone, missed, orphans, lost, turns>>
  BY <1>1, Zenon DEF OpenChat, serverVars, historyVars
<1>3. r \in Request /\ Asks(r, log) /\ r.kind \notin {"post", "edit"}
  BY <1>1 DEF Request, Asks
<1>4. UpSound(up', log) /\ Room(up', log)
  BY <1>2, <1>3, RequestKeeps DEF Request1
<1>5. Plainly'
  BY <1>2 DEF IInv, Plainly
<1> QED BY <1>2, <1>4, <1>5, TombsSame, SameLog DEF IInv

LEMMA DropKeeps ==
    ASSUME IInv, NicksSound', Drop PROVE StepKeeps
<1>1. /\ turns < MaxTurns /\ turns' = turns + 1 /\ online' = FALSE /\ up' = <<>> /\ wire' = <<>>
      /\ missed' = missed \cup {RootOf(m) : m \in ToSet(wire)}
                   \cup {log[r.names].root : r \in {q \in ToSet(up) :
                                                 q.kind \in {"edit", "delete"}}}
      /\ UNCHANGED <<buf, editing, log, gone, orphans>>
  BY Zenon DEF Drop, serverVars
<1>2. lost' \in Nat
  <2>1. Many(up, {"post"}) \in Nat
    BY ManyPlaces DEF IInv, UpSound
  <2>2. PICK own : own = {i \in 1..Len(wire) : wire[i].kind = "post" /\ wire[i].from \in OwnNicks}
    OBVIOUS
  <2>3. IsFiniteSet(1..Len(wire)) /\ own \in SUBSET (1..Len(wire))
    <3>1. Len(wire) \in Nat
      BY DEF IInv, WireSound
    <3> QED BY <2>2, <3>1, FS_Interval
  <2>4. Cardinality(own) \in Nat
    BY <2>3, FS_Subset, FS_CardinalityType
  <2>5. lost' = lost + Many(up, {"post"}) + Cardinality(own)
    BY <2>2, Zenon DEF Drop
  <2> QED BY <2>1, <2>4, <2>5 DEF IInv, Plainly
<1>3. ASSUME NEW m \in ToSet(wire) PROVE RootOf(m) \in Ids
  <2>1. PICK i \in 1..Len(wire) : m = wire[i]
    BY DEF ToSet
  <2>2. m \in Entry \cup Deletion /\ Carries(m, log)
    BY <2>1 DEF IInv, WireSound
  <2>3. CASE m.kind = "delete"
    BY <2>2, <2>3, LogIs DEF Carries, RootOf
  <2>4. CASE m.kind # "delete"
    BY <2>2, <2>4, LogIs DEF Carries, RootOf
  <2> QED BY <2>3, <2>4
<1>4. ASSUME NEW r \in ToSet(up), r.kind \in {"edit", "delete"} PROVE log[r.names].root \in Ids
  <2>1. PICK i \in 1..Len(up) : r = up[i]
    BY DEF ToSet
  <2>2. Asks(r, log)
    BY <2>1 DEF IInv, UpSound
  <2> QED BY <1>4, <2>2, LogIs DEF Asks
<1>5. missed' \subseteq Ids
  BY <1>1, <1>3, <1>4 DEF IInv, Plainly
<1>6. turns' \in 0..MaxTurns
  BY <1>1, LimitsAssumption DEF IInv, Plainly
<1>7. Plainly'
  BY <1>1, <1>2, <1>5, <1>6 DEF IInv, Plainly
<1>8. UpSound(<<>>, log) /\ Room(<<>>, log)
  BY LogIs, EmptyUp, NothingUp, HistoryUp
<1>9. WireSound(<<>>, log)
  <2>1. <<>> \in Seq(Entry \cup Deletion) /\ \A i \in 1..Len(<<>>) : FALSE
    OBVIOUS
  <2> QED BY <2>1 DEF WireSound
<1> QED BY <1>1, <1>7, <1>8, <1>9, TombsSame, SameLog DEF IInv

LEMMA OnNickChangedKeeps ==
    ASSUME IInv, NicksSound', OnNickChanged PROVE StepKeeps
<1>1. UNCHANGED <<buf, editing, online, up, wire, log, gone, missed, orphans, lost, turns>>
  BY DEF OnNickChanged, serverVars, historyVars
<1>2. Plainly'
  BY <1>1 DEF IInv, Plainly
<1> QED BY <1>1, <1>2, TombsSame, SameLog DEF IInv

---------------------------------------------------------------------------
(* The server                                                              *)

LEMMA RenameKeeps ==
    ASSUME IInv, NicksSound', NEW n \in OwnNicks, Rename(n) PROVE StepKeeps
<1>1. /\ turns < MaxTurns /\ turns' = turns + 1
      /\ UNCHANGED <<buf, editing, online, up, wire, log, gone, missed, orphans, lost>>
  BY DEF Rename, serverVars, historyVars
<1>2. turns' \in 0..MaxTurns
  BY <1>1, LimitsAssumption DEF IInv, Plainly
<1>3. Plainly'
  BY <1>1, <1>2 DEF IInv, Plainly
<1> QED BY <1>1, <1>3, TombsSame, SameLog DEF IInv

\* A message or an edit is logged: everything said of the log before holds of
\* the longer one.
LEMMA LogKeeps ==
    ASSUME IInv, NicksSound', NEW text \in Texts, NEW from \in Nicks, NEW kind \in {"post", "edit"},
           NEW names,
           \/ kind = "post" /\ names = 0
           \/ kind = "edit" /\ names \in 1..Len(log),
           Log(Said(kind, names, text, from)),
           UpSound(up', log), Room(up', log'), Len(log) < MaxLog,
           lost' \in Nat, UNCHANGED <<buf, editing, online, gone, orphans, turns>>
    PROVE  StepKeeps
<1>1. PICK m : m = Said(kind, names, text, from)
  OBVIOUS
<1>2. /\ log' = Append(log, m)
      /\ wire' = IF online THEN Append(wire, m) ELSE wire
      /\ missed' = IF online THEN missed ELSE missed \cup {m.root}
  BY <1>1 DEF Log
<1>3. /\ m \in Entry /\ m.root \in Ids /\ LogSound(log') /\ Longer(log, log')
      /\ Len(log') = Len(log) + 1 /\ Carries(m, log')
  BY <1>1, <1>2, LogAppend DEF IInv
<1>4. Len(log) \in Nat /\ Len(log') \in Nat
  BY <1>3, LogIs
<1>5. WireSound(wire, log') /\ UpSound(up', log')
  BY <1>3, <1>4, WireLater, UpLater DEF IInv
<1>6. WireSound(wire', log')
  <2>1. WireSound(Append(wire, m), log')
    BY <1>3, <1>5, WireAppend
  <2> QED BY <1>2, <1>5, <2>1
<1>7. Sound(buf, log', orphans) /\ TombsKept(buf, log, buf, log', orphans)
  BY <1>3, <1>4, SoundLater DEF IInv
<1>8. Sound(buf', log', orphans') /\ TombsKept(buf, log, buf', log', orphans')
  BY <1>7
<1>9. Plainly'
  <2>1. missed' \subseteq Ids
    BY <1>2, <1>3 DEF IInv, Plainly
  <2>2. editing' \in 0..Len(log')
    BY <1>3, <1>4 DEF IInv, Plainly
  <2> QED BY <2>1, <2>2 DEF IInv, Plainly
<1> QED BY <1>3, <1>5, <1>6, <1>8, <1>9 DEF StepKeeps, IInv

LEMMA Accepted ==
    ASSUME IInv, NEW n, NEW from, Accepts(n, from)
    PROVE  n \in 1..Len(log) /\ n \in Ids /\ log[n].root \in Ids
  BY LogIs DEF Accepts

LEMMA ServerReadsKeeps ==
    ASSUME IInv, NicksSound', ServerReads PROVE StepKeeps
<1>1. PICK r : r = Head(up)
  OBVIOUS
<1>2. /\ up # <<>> /\ up' = Tail(up)
      /\ UNCHANGED <<buf, editing, online, orphans, turns>>
  BY DEF ServerReads
<1> lost' \in Nat
  BY DEF ServerReads, IInv, Plainly
<1> me \in Nicks
  BY DEF IInv, NicksSound, Nicks
<1>3. \/ /\ r.kind = "history" /\ wire' = wire \o Replay
         /\ missed' = missed \ Restored /\ UNCHANGED <<log, gone>>
      \/ r.kind = "post" /\ Log(Said("post", 0, r.text, me)) /\ UNCHANGED gone
      \/ /\ r.kind = "edit" /\ Accepts(r.names, me)
         /\ Log(Said("edit", r.names, r.text, me)) /\ UNCHANGED gone
      \/ /\ Accepts(r.names, me) /\ gone' = gone \cup {log[r.names].root}
         /\ UNCHANGED <<log, wire, missed>>
      \/ UNCHANGED <<log, wire, gone, missed>>
  BY <1>1, Zenon DEF ServerReads
<1>4. /\ UpSound(up', log) /\ r \in Request
      /\ Many(up', {"post", "edit"}) + (IF r.kind \in {"post", "edit"} THEN 1 ELSE 0)
            <= Many(up, {"post", "edit"})
      /\ Many(up', {"post", "edit"}) \in Nat /\ Many(up, {"post", "edit"}) \in Nat
  BY <1>1, <1>2, UpTail DEF IInv
<1>5. Room(up', log)
  BY <1>4, LogIs DEF IInv, Room
<1>6. CASE r.kind \in {"post", "edit"}
  <2>1. Len(log) < MaxLog /\ Len(log) + 1 + Many(up', {"post", "edit"}) <= MaxLog
    BY <1>4, <1>6, LogIs DEF IInv, Room
  <2>2. ASSUME NEW m, log' = Append(log, m) PROVE Room(up', log')
    <3>1. Len(log') = Len(log) + 1
      BY <2>2, LogIs
    <3> QED BY <2>1, <3>1 DEF Room
  <2>3. r.text \in Texts
    BY <1>4, <1>6 DEF Request
  <2>4. CASE r.kind = "post" /\ Log(Said("post", 0, r.text, me)) /\ UNCHANGED gone
    <3>1. Room(up', log')
      BY <2>2, <2>4 DEF Log
    <3> QED BY <1>2, <1>4, <2>1, <2>3, <2>4, <3>1, LogKeeps
  <2>5. CASE /\ r.kind = "edit" /\ Accepts(r.names, me)
             /\ Log(Said("edit", r.names, r.text, me)) /\ UNCHANGED gone
    <3>1. Room(up', log')
      BY <2>2, <2>5 DEF Log
    <3>2. r.names \in 1..Len(log)
      BY <2>5, Accepted
    <3> QED BY <1>2, <1>4, <2>1, <2>3, <2>5, <3>1, <3>2, LogKeeps
  <2>6. CASE /\ Accepts(r.names, me) /\ gone' = gone \cup {log[r.names].root}
             /\ UNCHANGED <<log, wire, missed>>
    <3>1. gone' \subseteq Ids
      BY <2>6, Accepted DEF IInv, Plainly
    <3>2. Plainly'
      BY <1>2, <2>6, <3>1 DEF IInv, Plainly
    <3> QED BY <1>2, <1>4, <1>5, <2>6, <3>2, TombsSame, SameLog DEF IInv
  <2>7. CASE UNCHANGED <<log, wire, gone, missed>>
    <3>1. Plainly'
      BY <1>2, <2>7 DEF IInv, Plainly
    <3> QED BY <1>2, <1>4, <1>5, <2>7, <3>1, TombsSame, SameLog DEF IInv
  <2> QED BY <1>3, <1>6, <2>4, <2>5, <2>6, <2>7
<1>7. CASE r.kind \notin {"post", "edit"}
  <2>1. CASE wire' = wire \o Replay /\ missed' = missed \ Restored /\ UNCHANGED <<log, gone>>
    <3>1. WireSound(wire', log)
      BY <2>1, WireReplay DEF IInv
    <3>2. Plainly'
      BY <1>2, <2>1 DEF IInv, Plainly
    <3> QED BY <1>2, <1>4, <1>5, <2>1, <3>1, <3>2, TombsSame, SameLog DEF IInv
  <2>2. CASE /\ Accepts(r.names, me) /\ gone' = gone \cup {log[r.names].root}
             /\ UNCHANGED <<log, wire, missed>>
    <3>1. gone' \subseteq Ids
      BY <2>2, Accepted DEF IInv, Plainly
    <3>2. Plainly'
      BY <1>2, <2>2, <3>1 DEF IInv, Plainly
    <3> QED BY <1>2, <1>4, <1>5, <2>2, <3>2, TombsSame, SameLog DEF IInv
  <2>3. CASE UNCHANGED <<log, wire, gone, missed>>
    <3>1. Plainly'
      BY <1>2, <2>3 DEF IInv, Plainly
    <3> QED BY <1>2, <1>4, <1>5, <2>3, <3>1, TombsSame, SameLog DEF IInv
  <2> QED BY <1>3, <1>7, <2>1, <2>2, <2>3
<1> QED BY <1>6, <1>7

LEMMA FitsMore ==
    ASSUME IInv, Fits, UNCHANGED up, NEW m, log' = Append(log, m)
    PROVE  Len(log) < MaxLog /\ Room(up', log')
<1>1. Len(log') = Len(log) + 1 /\ Many(up, {"post", "edit"}) \in Nat
  BY LogIs, ManyPlaces DEF IInv, UpSound
<1>2. Len(log) < MaxLog /\ Len(log') + Many(up, {"post", "edit"}) <= MaxLog
  BY <1>1, LogIs DEF Fits
<1>3. Many(up', {"post", "edit"}) = Many(up, {"post", "edit"})
  OBVIOUS
<1> QED BY <1>2, <1>3 DEF Room

LEMMA OthersPostKeeps ==
    ASSUME IInv, NicksSound', NEW t \in Texts, NEW from \in Nicks, OthersPost(t, from)
    PROVE  StepKeeps
<1>1. /\ Fits /\ Log(Said("post", 0, t, from))
      /\ lost' \in Nat /\ UNCHANGED <<buf, editing, online, up, gone, orphans, turns>>
  BY DEF OthersPost, IInv, Plainly
<1>2. Len(log) < MaxLog /\ Room(up', log') /\ UpSound(up', log)
  BY <1>1, FitsMore DEF Log, IInv
<1> QED BY <1>1, <1>2, LogKeeps

LEMMA OthersEditKeeps ==
    ASSUME IInv, NicksSound', NEW n, NEW t \in Texts, NEW from \in Nicks, OthersEdit(n, t, from)
    PROVE  StepKeeps
<1>1. /\ Fits /\ Accepts(n, from) /\ Log(Said("edit", n, t, from))
      /\ lost' \in Nat /\ UNCHANGED <<buf, editing, online, up, gone, orphans, turns>>
  BY DEF OthersEdit, IInv, Plainly
<1>2. Len(log) < MaxLog /\ Room(up', log') /\ UpSound(up', log)
  BY <1>1, FitsMore DEF Log, IInv
<1>3. n \in 1..Len(log)
  BY <1>1, Accepted
<1> QED BY <1>1, <1>2, <1>3, LogKeeps

LEMMA OthersDeleteKeeps ==
    ASSUME IInv, NicksSound', NEW n, NEW from \in Nicks, OthersDelete(n, from) PROVE StepKeeps
<1>1. PICK m : m = [kind |-> "delete", names |-> n, from |-> from]
  OBVIOUS
<1>2. /\ Accepts(n, from) /\ gone' = gone \cup {n}
      /\ wire' = IF online THEN Append(wire, m) ELSE wire
      /\ missed' = IF online THEN missed ELSE missed \cup {n}
      /\ UNCHANGED <<buf, editing, online, up, log, orphans, lost, turns>>
  BY <1>1, Zenon DEF OthersDelete
<1>3. n \in 1..Len(log) /\ n \in Ids
  BY <1>2, Accepted
<1>4. m \in Entry \cup Deletion /\ Carries(m, log)
  BY <1>1, <1>3 DEF Deletion, Carries
<1>5. WireSound(wire', log)
  BY <1>2, <1>4, WireAppend DEF IInv
<1>6. gone' \subseteq Ids /\ missed' \subseteq Ids
  BY <1>2, <1>3 DEF IInv, Plainly
<1>7. Plainly'
  BY <1>2, <1>6 DEF IInv, Plainly
<1> QED BY <1>2, <1>5, <1>7, TombsSame, SameLog DEF IInv

---------------------------------------------------------------------------
(* The theorems                                                            *)

LEMMA InitSound == ASSUME Init PROVE IInv
<1>1. /\ buf = [rows |-> <<>>, ids |-> {}, aliases |-> {}]
      /\ editing = 0 /\ online = FALSE /\ up = <<>> /\ wire = <<>>
      /\ log = <<>> /\ gone = {}
      /\ nick \in OwnNicks /\ me = nick /\ renames = <<>>
      /\ missed = {} /\ orphans = {} /\ lost = 0 /\ turns = 0
  BY DEF Init
<1>2. buf.rows = <<>> /\ Len(log) = 0 /\ Len(buf.rows) = 0
  BY <1>1
<1>3. Plainly
  <2>1. buf \in Buffer
    BY <1>1 DEF Buffer
  <2>2. Len(buf.rows) <= MaxRows /\ turns \in 0..MaxTurns /\ lost \in Nat
    BY <1>1, <1>2, LimitsAssumption
  <2>3. editing \in 0..Len(log)
    BY <1>1, <1>2
  <2>4. gone \subseteq Ids /\ missed \subseteq Ids /\ orphans \subseteq Ids
    BY <1>1
  <2>5. online \in BOOLEAN
    BY <1>1
  <2> QED BY <2>1, <2>2, <2>3, <2>4, <2>5 DEF Plainly
<1>4. LogSound(log)
  BY <1>1, LimitsAssumption DEF LogSound
<1>5. WireSound(wire, log)
  BY <1>1 DEF WireSound
<1>6. UpSound(up, log)
  BY <1>1, <1>2, EmptyUp
<1>7. Room(up, log)
  BY <1>1, <1>2, NothingUp, LimitsAssumption DEF Room
<1>8. Sound(buf, log, orphans)
  BY <1>2 DEF Sound, RowsRefer, RowsDiffer, RowsKnown, Shown
<1>9. NicksSound
  BY <1>1 DEF NicksSound
<1> QED BY <1>3, <1>4, <1>5, <1>6, <1>7, <1>8, <1>9 DEF IInv

LEMMA NextKeeps == ASSUME IInv, [Next]_vars PROVE StepKeeps
<1> NicksSound'
  BY NicksKeep DEF IInv
<1>1. CASE User
  <2>1. ASSUME NEW t \in Texts, Send(t) \/ Save(t) PROVE StepKeeps
    BY <2>1, SendKeeps, SaveKeeps
  <2>2. ASSUME NEW i \in 1..MaxRows, BeginEdit(i) \/ Delete(i) PROVE StepKeeps
    BY <2>2, BeginEditKeeps, DeleteKeeps
  <2> QED BY <1>1, <2>1, <2>2, CancelEditKeeps, OpenChatKeeps DEF User
<1>2. CASE Others
  <2>1. PICK t \in Texts, from \in {me} \cup OtherNicks :
           \/ OthersPost(t, from)
           \/ \E n \in Ids : OthersEdit(n, t, from) \/ OthersDelete(n, from)
    BY <1>2 DEF Others
  <2>2. from \in Nicks
    BY DEF IInv, NicksSound, Nicks
  <2> QED BY <2>1, <2>2, OthersPostKeeps, OthersEditKeeps, OthersDeleteKeeps
<1>3. CASE UNCHANGED vars
  <2>1. UNCHANGED <<buf, editing, online, up, wire, log, gone, missed, orphans, lost, turns>>
    BY <1>3 DEF vars, serverVars, historyVars
  <2>2. Plainly'
    BY <2>1 DEF IInv, Plainly
  <2> QED BY <2>1, <2>2, TombsSame, SameLog DEF IInv
<1> QED BY <1>1, <1>2, <1>3, ReceiveKeeps, OnNickChangedKeeps, RejoinKeeps, DropKeeps,
            ServerReadsKeeps, RenameKeeps DEF Next

LEMMA AlwaysSound == Spec => []IInv
<1>1. Init => IInv
  BY InitSound
<1>2. IInv /\ [Next]_vars => IInv'
  BY NextKeeps DEF StepKeeps
<1> QED BY <1>1, <1>2, PTL DEF Spec

\* Every row, line and logged message has its type; the buffer holds no more
\* than MAX_MESSAGES rows, and the server's log never outgrows its bound.
THEOREM TypeCorrect == Spec => []TypeOK
<1>1. IInv => TypeOK
  <2> SUFFICES ASSUME IInv PROVE TypeOK
    OBVIOUS
  <2>1. /\ buf.rows \in Seq(Row) /\ Len(buf.rows) <= MaxRows
        /\ buf.ids \subseteq Ids /\ buf.aliases \subseteq Ids
        /\ DOMAIN buf = {"rows", "ids", "aliases"}
    BY DEF IInv, Plainly, Buffer
  <2>2. editing \in Ids \cup {0} /\ online \in BOOLEAN
    BY LogIs DEF IInv, Plainly
  <2>3. up \in Seq(Request) /\ wire \in Seq(Entry \cup Deletion)
    BY DEF IInv, UpSound, WireSound
  <2>4. /\ log \in Seq(Entry) /\ Len(log) <= MaxLog
        /\ \A i \in 1..Len(log) : log[i].id = i
    BY DEF IInv, LogSound
  <2>5. /\ gone \subseteq Ids /\ missed \subseteq Ids /\ orphans \subseteq Ids
        /\ lost \in Nat /\ turns \in 0..MaxTurns
    BY DEF IInv, Plainly
  <2>6. nick \in OwnNicks /\ me \in OwnNicks /\ renames \in Seq(OwnNicks)
    BY DEF IInv, NicksSound
  <2> QED BY <2>1, <2>2, <2>3, <2>4, <2>5, <2>6 DEF TypeOK
<1> QED BY <1>1, AlwaysSound, PTL

\* A message is shown once, whatever echoes, edits, replays and second requests
\* for history bring it again (Buffer::append, Buffer::apply_edit), unless an edit
\* of it found no row of its nick to rewrite.
THEOREM OneRow == Spec => []OneRowPerMessage
<1>1. IInv => OneRowPerMessage
  BY DEF IInv, Sound, RowsDiffer, Shown, OneRowPerMessage, ServerRows, Root
<1> QED BY <1>1, AlwaysSound, PTL

\* What the chat showed as deleted never comes back as text (Buffer::append,
\* Buffer::apply_edit, Buffer::apply_delete), unless an edit or a deletion of it
\* found no row of its nick.
THEOREM TombstonesStay == Spec => TombstoneStays
<1>1. IInv /\ [Next]_vars =>
        [\A i \in ServerRows : buf.rows[i].deleted =>
            \A j \in ServerRows' : Root(j)' = Root(i) =>
               buf'.rows[j].deleted \/ Root(i) \in orphans']_vars
  <2> SUFFICES ASSUME IInv, [Next]_vars,
                      NEW i \in ServerRows, buf.rows[i].deleted,
                      NEW j \in ServerRows', Root(j)' = Root(i)
               PROVE  buf'.rows[j].deleted \/ Root(i) \in orphans'
    OBVIOUS
  <2>1. TombsKept(buf, log, buf', log', orphans')
    BY NextKeeps DEF StepKeeps
  <2>2. i \in Shown(buf) /\ j \in Shown(buf')
    BY DEF ServerRows, Shown
  <2>3. /\ Root(i) = log[buf.rows[i].id].root
        /\ Root(j)' = log'[(buf').rows[j].id].root
    BY DEF Root
  <2> QED BY <2>1, <2>2, <2>3 DEF TombsKept
<1> QED BY <1>1, AlwaysSound, PTL DEF Spec, TombstoneStays


---------------------------------------------------------------------------
(* Optimistic rows and what will replace them                              *)

Pending(rows) == {i \in 1..Len(rows) : rows[i].id = Local}

\* The ids that the buffer has met.
Names(b) == b.ids \cup b.aliases \cup {b.rows[i].id : i \in 1..Len(b.rows)}
                  \cup {b.rows[i].of : i \in 1..Len(b.rows)}

\* The places of the own posts on their way back that the buffer will append:
\* it has not met their ids, and no line before them makes it.
Comers(w, b) ==
    {i \in 1..Len(w) :
        /\ w[i].kind = "post" /\ w[i].from \in OwnNicks /\ w[i].id \notin Names(b)
        /\ \A j \in 1..(i - 1) : w[j].kind # "delete" =>
              w[j].id # w[i].id /\ w[j].names # w[i].id}

\* What tells an optimistic row from another, and its line and echo from theirs.
Key(x) == <<x.from, x.text>>
Keys == Nicks \X Texts

\* An optimistic row of a nick and a text waits for a line of the user at a place
\* of u that was written with the same ones, for an echo with them at a place in
\* c of w, or for nothing: it is one of n.
Ticket == {"lost", "back", "sent"} \X Nat
Serves(w, c, u, n, k, key) ==
    \/ k[1] = "lost" /\ k[2] \in 1..n
    \/ k[1] = "back" /\ k[2] \in c /\ Key(w[k[2]]) = key
    \/ k[1] = "sent" /\ k[2] \in 1..Len(u) /\ u[k[2]].kind = "post" /\ Key(u[k[2]]) = key

\* No two of the optimistic rows wait for the same thing.
Awaited(rows, w, c, u, n) ==
    \E f \in [Pending(rows) -> Ticket] :
        /\ \A i \in Pending(rows) : Serves(w, c, u, n, f[i], Key(rows[i]))
        /\ \A i, j \in Pending(rows) : f[i] = f[j] => i = j

\* r has no optimistic row that q has not.
LEMMA FewerPending ==
    ASSUME NEW r, NEW q, NEW w, NEW c, NEW u, NEW n, Awaited(q, w, c, u, n),
           NEW g \in [Pending(r) -> Pending(q)],
           \A i \in Pending(r) : Key(r[i]) = Key(q[g[i]]),
           \A i, j \in Pending(r) : g[i] = g[j] => i = j
    PROVE  Awaited(r, w, c, u, n)
<1>1. PICK f \in [Pending(q) -> Ticket] :
         /\ \A i \in Pending(q) : Serves(w, c, u, n, f[i], Key(q[i]))
         /\ \A i, j \in Pending(q) : f[i] = f[j] => i = j
  BY DEF Awaited
<1> DEFINE h == [i \in Pending(r) |-> f[g[i]]]
<1>2. \A i \in Pending(r) : g[i] \in Pending(q)
  OBVIOUS
<1>3. h \in [Pending(r) -> Ticket]
  BY <1>2
<1>4. \A i \in Pending(r) : Serves(w, c, u, n, h[i], Key(r[i]))
  BY <1>1, <1>2
<1>5. \A i, j \in Pending(r) : h[i] = h[j] => i = j
  BY <1>1, <1>2
<1> HIDE DEF h
<1> QED BY <1>3, <1>4, <1>5 DEF Awaited

\* A row of the server, or none, comes to rows that stay.
LEMMA DrawnPending ==
    ASSUME NEW r \in Seq(Row), NEW q \in Seq(Row), NEW e, Drawn(r, q, e), e.id # Local,
           NEW w, NEW c, NEW u, NEW n, Awaited(q, w, c, u, n)
    PROVE  Awaited(r, w, c, u, n)
<1>1. PICK g \in [1..Len(r) -> 0..Len(q)] :
        /\ \A k, l \in 1..Len(r) : g[k] = g[l] => k = l
        /\ \A k \in 1..Len(r) : r[k] = IF g[k] = 0 THEN e ELSE q[g[k]]
  BY DEF Drawn
<1>2. \A i \in Pending(r) : i \in 1..Len(r) /\ g[i] \in Pending(q) /\ r[i] = q[g[i]]
  <2> SUFFICES ASSUME NEW i \in Pending(r)
               PROVE  i \in 1..Len(r) /\ g[i] \in Pending(q) /\ r[i] = q[g[i]]
    OBVIOUS
  <2>1. i \in 1..Len(r) /\ r[i].id = Local /\ g[i] \in 0..Len(q)
    BY DEF Pending
  <2>2. g[i] # 0
    BY <1>1, <2>1
  <2>3. g[i] \in 1..Len(q) /\ r[i] = q[g[i]]
    BY <1>1, <2>1, <2>2
  <2> QED BY <2>1, <2>3 DEF Pending
<1> DEFINE h == [i \in Pending(r) |-> g[i]]
<1>3. h \in [Pending(r) -> Pending(q)]
  BY <1>2
<1>4. \A i \in Pending(r) : Key(r[i]) = Key(q[h[i]])
  BY <1>2
<1>5. \A i, j \in Pending(r) : h[i] = h[j] => i = j
  BY <1>1, <1>2
<1> HIDE DEF h
<1> QED BY <1>3, <1>4, <1>5, FewerPending

LEMMA ThinnedPending ==
    ASSUME NEW r \in Seq(Row), NEW q \in Seq(Row), Thinned(r, q),
           NEW w, NEW c, NEW u, NEW n, Awaited(q, w, c, u, n)
    PROVE  Awaited(r, w, c, u, n)
<1>1. PICK g \in [1..Len(r) -> 1..Len(q)] :
        /\ \A k, l \in 1..Len(r) : g[k] = g[l] => k = l
        /\ \A k \in 1..Len(r) : r[k] = q[g[k]]
  BY DEF Thinned
<1>2. \A i \in Pending(r) : i \in 1..Len(r) /\ g[i] \in Pending(q) /\ r[i] = q[g[i]]
  BY <1>1 DEF Pending
<1> DEFINE h == [i \in Pending(r) |-> g[i]]
<1>3. h \in [Pending(r) -> Pending(q)]
  BY <1>2
<1>4. \A i \in Pending(r) : Key(r[i]) = Key(q[h[i]])
  BY <1>2
<1>5. \A i, j \in Pending(r) : h[i] = h[j] => i = j
  BY <1>1, <1>2
<1> HIDE DEF h
<1> QED BY <1>3, <1>4, <1>5, FewerPending

\* The same rows as far as optimistic ones go.
LEMMA SamePending ==
    ASSUME NEW r, NEW q, Len(r) = Len(q),
           \A k \in 1..Len(q) : /\ r[k].id = Local <=> q[k].id = Local
                                /\ q[k].id = Local => Key(r[k]) = Key(q[k]),
           NEW w, NEW c, NEW u, NEW n, Awaited(q, w, c, u, n)
    PROVE  Awaited(r, w, c, u, n)
<1> DEFINE h == [i \in Pending(r) |-> i]
<1>1. Pending(r) = Pending(q)
  <2>1. \A i \in 1..Len(q) : i \in Pending(r) <=> i \in Pending(q)
    BY DEF Pending
  <2> QED BY <2>1 DEF Pending
<1>2. \A i \in Pending(r) : Key(r[i]) = Key(q[i])
  BY <1>1 DEF Pending
<1>3. h \in [Pending(r) -> Pending(q)] /\ \A i \in Pending(r) : h[i] = i
  BY <1>1
<1> HIDE DEF h
<1> QED BY <1>2, <1>3, FewerPending

\* An optimistic row more, and a ticket for it that no other row holds.
LEMMA MorePending ==
    ASSUME NEW r \in Seq(Row), NEW q \in Seq(Row), NEW e, Drawn(r, q, e),
           NEW w, NEW c, NEW u, NEW n, NEW v, NEW m, Awaited(q, w, c, u, n),
           NEW t \in Ticket, Serves(w, c, v, m, t, Key(e)),
           \A key : ~Serves(w, c, u, n, t, key),
           \A k \in Ticket, key \in Keys :
              Serves(w, c, u, n, k, key) => Serves(w, c, v, m, k, key)
    PROVE  Awaited(r, w, c, v, m)
<1>1. PICK g \in [1..Len(r) -> 0..Len(q)] :
        /\ \A k, l \in 1..Len(r) : g[k] = g[l] => k = l
        /\ \A k \in 1..Len(r) : r[k] = IF g[k] = 0 THEN e ELSE q[g[k]]
  BY DEF Drawn
<1>2. PICK f \in [Pending(q) -> Ticket] :
         /\ \A i \in Pending(q) : Serves(w, c, u, n, f[i], Key(q[i]))
         /\ \A i, j \in Pending(q) : f[i] = f[j] => i = j
  BY DEF Awaited
<1> DEFINE h == [i \in Pending(r) |-> IF g[i] = 0 THEN t ELSE f[g[i]]]
<1>3. \A i \in Pending(r) :
         /\ i \in 1..Len(r) /\ Key(r[i]) \in Keys
         /\ g[i] = 0 => r[i] = e
         /\ g[i] # 0 => g[i] \in Pending(q) /\ r[i] = q[g[i]]
  <2> SUFFICES ASSUME NEW i \in Pending(r)
               PROVE  /\ i \in 1..Len(r) /\ Key(r[i]) \in Keys
                      /\ g[i] = 0 => r[i] = e
                      /\ g[i] # 0 => g[i] \in Pending(q) /\ r[i] = q[g[i]]
    OBVIOUS
  <2>1. i \in 1..Len(r) /\ r[i].id = Local /\ g[i] \in 0..Len(q) /\ r[i] \in Row
    BY DEF Pending
  <2>2. g[i] # 0 => g[i] \in 1..Len(q) /\ r[i] = q[g[i]]
    BY <1>1, <2>1
  <2>3. g[i] = 0 => r[i] = e
    BY <1>1, <2>1
  <2>4. Key(r[i]) \in Keys
    BY <2>1 DEF Row, Key, Keys
  <2> QED BY <2>1, <2>2, <2>3, <2>4 DEF Pending
<1>4. h \in [Pending(r) -> Ticket]
  BY <1>3
<1>5. \A i \in Pending(r) : Serves(w, c, v, m, h[i], Key(r[i]))
  <2> SUFFICES ASSUME NEW i \in Pending(r) PROVE Serves(w, c, v, m, h[i], Key(r[i]))
    OBVIOUS
  <2>1. CASE g[i] = 0
    BY <1>3, <2>1
  <2>2. CASE g[i] # 0
    <3>1. /\ h[i] = f[g[i]] /\ f[g[i]] \in Ticket /\ Key(r[i]) \in Keys
          /\ Serves(w, c, u, n, f[g[i]], Key(r[i]))
      BY <1>2, <1>3, <2>2
    <3> QED BY <3>1
  <2> QED BY <2>1, <2>2
<1>6. \A i, j \in Pending(r) : h[i] = h[j] => i = j
  <2>1. \A i \in Pending(r) : g[i] # 0 => f[g[i]] # t
    BY <1>2, <1>3
  <2> SUFFICES ASSUME NEW i \in Pending(r), NEW j \in Pending(r), h[i] = h[j] PROVE i = j
    OBVIOUS
  <2>2. g[i] = g[j]
    <3>1. CASE g[i] = 0 \/ g[j] = 0
      BY <2>1, <3>1
    <3>2. CASE g[i] # 0 /\ g[j] # 0
      BY <1>2, <1>3, <3>2
    <3> QED BY <3>1, <3>2
  <2> QED BY <1>1, <1>3, <2>2
<1> HIDE DEF h
<1> QED BY <1>4, <1>5, <1>6 DEF Awaited

\* What the rows wait for moves on.
LEMMA MovedTickets ==
    ASSUME NEW rows \in Seq(Row), NEW w, NEW c, NEW u, NEW n, NEW z, NEW d, NEW v, NEW m,
           Awaited(rows, w, c, u, n), NEW h \in [Ticket -> Ticket],
           \A k \in Ticket, key \in Keys :
              Serves(w, c, u, n, k, key) => Serves(z, d, v, m, h[k], key),
           \A k, l \in Ticket, s, t \in Keys :
              /\ Serves(w, c, u, n, k, s) /\ Serves(w, c, u, n, l, t) /\ h[k] = h[l]
              => k = l
    PROVE  Awaited(rows, z, d, v, m)
<1>1. PICK f \in [Pending(rows) -> Ticket] :
         /\ \A i \in Pending(rows) : Serves(w, c, u, n, f[i], Key(rows[i]))
         /\ \A i, j \in Pending(rows) : f[i] = f[j] => i = j
  BY DEF Awaited
<1>2. \A i \in Pending(rows) : Key(rows[i]) \in Keys /\ f[i] \in Ticket
  <2>1. \A i \in Pending(rows) : rows[i] \in Row
    BY DEF Pending
  <2> QED BY <2>1 DEF Row, Key, Keys
<1> DEFINE g == [i \in Pending(rows) |-> h[f[i]]]
<1>3. g \in [Pending(rows) -> Ticket] /\ \A i \in Pending(rows) : g[i] = h[f[i]]
  BY <1>2
<1>4. \A i \in Pending(rows) : Serves(z, d, v, m, g[i], Key(rows[i]))
  BY <1>1, <1>2, <1>3
<1>5. \A i, j \in Pending(rows) : g[i] = g[j] => i = j
  BY <1>1, <1>2, <1>3
<1> HIDE DEF g
<1> QED BY <1>3, <1>4, <1>5 DEF Awaited

\* The echo at place 1 comes for an optimistic row of its nick and text: whichever
\* gives way, the others have something to wait for.
LEMMA EchoTaken ==
    ASSUME NEW rows \in Seq(Row), NEW row, row.id # Local, NEW w, NEW c, NEW u, NEW n,
           Key(w[1]) = Key(row), Awaited(rows, w, c, u, n)
    PROVE  Awaited(WithoutEcho(rows, row), w, c \ {1}, u, n)
<1> DEFINE I == {i \in 1..Len(rows) : /\ rows[i].id = Local /\ rows[i].from = row.from
                                      /\ rows[i].text = row.text}
<1>1. PICK f \in [Pending(rows) -> Ticket] :
         /\ \A i \in Pending(rows) : Serves(w, c, u, n, f[i], Key(rows[i]))
         /\ \A i, j \in Pending(rows) : f[i] = f[j] => i = j
  BY DEF Awaited
<1>2. PICK y : y = IF I # {} THEN Max(I) ELSE 0
  OBVIOUS
<1>3. WithoutEcho(rows, row) = IF y = 0 THEN rows ELSE RemoveAt(rows, y)
  BY <1>2 DEF WithoutEcho, SelectLastInSeq
<1>4. y \in I \/ (I = {} /\ y = 0)
  <2>1. Len(rows) \in Nat /\ I \in SUBSET (1..Len(rows))
    OBVIOUS
  <2>2. I # {} => Max(I) \in I
    BY <2>1, MaxIs
  <2> QED BY <1>2, <2>2
<1>5. ASSUME NEW i \in Pending(rows), f[i] # <<"back", 1>>
      PROVE  Serves(w, c \ {1}, u, n, f[i], Key(rows[i]))
  <2>1. f[i] \in Ticket /\ Serves(w, c, u, n, f[i], Key(rows[i]))
    BY <1>1
  <2>2. ~(f[i][1] = "back" /\ f[i][2] = 1)
    BY <1>5, <2>1 DEF Ticket
  <2> QED BY <2>1, <2>2 DEF Serves
<1>6. ASSUME NEW i \in Pending(rows), f[i] = <<"back", 1>> PROVE i \in I
  <2>1. Serves(w, c, u, n, <<"back", 1>>, Key(rows[i]))
    BY <1>1, <1>6
  <2>2. Key(rows[i]) = Key(row)
    BY <2>1 DEF Serves
  <2> QED BY <2>2 DEF Pending, Key
<1>7. CASE y = 0
  <2>1. I = {}
    <3>1. 0 \notin I
      OBVIOUS
    <3> QED BY <1>4, <1>7, <3>1
  <2>2. \A i \in Pending(rows) : f[i] # <<"back", 1>>
    BY <1>6, <2>1
  <2>3. \A i \in Pending(rows) : Serves(w, c \ {1}, u, n, f[i], Key(rows[i]))
    BY <1>5, <2>2
  <2>4. Awaited(rows, w, c \ {1}, u, n)
    BY <1>1, <2>3 DEF Awaited
  <2> QED BY <1>3, <1>7, <2>4
<1>8. CASE y # 0
  <2>1. y \in 1..Len(rows) /\ y \in Pending(rows) /\ Key(rows[y]) = Key(row)
    BY <1>4, <1>8 DEF Pending, Key
  <2>2. PICK r \in Seq(Row) : r = RemoveAt(rows, y) /\ Skips(r, rows, y)
    BY <2>1, RemoveAtThins
  <2>3. PICK g \in [1..Len(r) -> (1..Len(rows)) \ {y}] :
          /\ \A k, l \in 1..Len(r) : g[k] = g[l] => k = l
          /\ \A k \in 1..Len(r) : r[k] = rows[g[k]]
    BY <2>2 DEF Skips
  <2>4. \A i \in Pending(r) :
           i \in 1..Len(r) /\ g[i] \in Pending(rows) /\ g[i] # y /\ r[i] = rows[g[i]]
    BY <2>3 DEF Pending
  <2> DEFINE h == [i \in Pending(r) |-> IF f[g[i]] = <<"back", 1>> THEN f[y] ELSE f[g[i]]]
  <2>5. h \in [Pending(r) -> Ticket]
    BY <2>1, <2>4
  <2>6. \A i \in Pending(r) : Serves(w, c \ {1}, u, n, h[i], Key(r[i]))
    <3> SUFFICES ASSUME NEW i \in Pending(r)
                 PROVE  Serves(w, c \ {1}, u, n, h[i], Key(r[i]))
      OBVIOUS
    <3>1. CASE f[g[i]] = <<"back", 1>>
      <4>1. f[y] # <<"back", 1>> /\ h[i] = f[y]
        <5>1. g[i] \in Pending(rows) /\ y \in Pending(rows) /\ g[i] # y
          BY <2>1, <2>4
        <5>2. f[g[i]] # f[y]
          BY <1>1, <5>1, Zenon
        <5> QED BY <3>1, <5>2
      <4>2. Serves(w, c \ {1}, u, n, f[y], Key(rows[y]))
        BY <1>5, <2>1, <4>1
      <4>3. Key(r[i]) = Key(rows[y])
        <5>1. g[i] \in I
          BY <1>6, <2>4, <3>1
        <5> QED BY <2>1, <2>4, <5>1 DEF Key
      <4> QED BY <4>1, <4>2, <4>3
    <3>2. CASE f[g[i]] # <<"back", 1>>
      BY <1>5, <2>4, <3>2
    <3> QED BY <3>1, <3>2
  <2>7. \A i, j \in Pending(r) : h[i] = h[j] => i = j
    <3>1. \A i \in Pending(r) : f[g[i]] # f[y]
      BY <1>1, <2>1, <2>4
    <3> SUFFICES ASSUME NEW i \in Pending(r), NEW j \in Pending(r), h[i] = h[j] PROVE i = j
      OBVIOUS
    <3>2. f[g[i]] = f[g[j]]
      BY <3>1
    <3>3. g[i] = g[j]
      BY <1>1, <2>4, <3>2
    <3> QED BY <2>3, <2>4, <3>3
  <2> HIDE DEF h
  <2>8. Awaited(r, w, c \ {1}, u, n)
    BY <2>5, <2>6, <2>7 DEF Awaited
  <2> QED BY <1>3, <1>8, <2>2, <2>8
<1> QED BY <1>7, <1>8

\* How many optimistic rows there may be.
LEMMA PendingCount ==
    ASSUME NEW rows \in Seq(Row), NEW w, NEW c, NEW u \in Seq(Request), NEW n \in Nat,
           Awaited(rows, w, c, u, n),
           NEW S, IsFiniteSet(S), NEW p \in [c -> S], \A i, j \in c : p[i] = p[j] => i = j
    PROVE  /\ IsFiniteSet(Pending(rows)) /\ Cardinality(Pending(rows)) \in Nat
           /\ Cardinality(Pending(rows)) <= Many(u, {"post"}) + Cardinality(S) + n
<1>1. PICK f \in [Pending(rows) -> Ticket] :
         /\ \A i \in Pending(rows) : Serves(w, c, u, n, f[i], Key(rows[i]))
         /\ \A i, j \in Pending(rows) : f[i] = f[j] => i = j
  BY DEF Awaited
<1> DEFINE Of(x) == {i \in Pending(rows) : f[i][1] = x}
           posts == {i \in 1..Len(u) : u[i].kind \in {"post"}}
           a == [i \in Of("lost") |-> f[i][2]]
           b == [i \in Of("back") |-> p[f[i][2]]]
           d == [i \in Of("sent") |-> f[i][2]]
<1>2. IsFiniteSet(Pending(rows)) /\ Cardinality(Pending(rows)) \in Nat
  <2>1. IsFiniteSet(1..Len(rows)) /\ Pending(rows) \in SUBSET (1..Len(rows))
    BY FS_Interval DEF Pending
  <2> QED BY <2>1, FS_Subset, FS_CardinalityType
<1>3. \A i, j \in Pending(rows) : f[i][1] = f[j][1] /\ f[i][2] = f[j][2] => i = j
  <2> SUFFICES ASSUME NEW i \in Pending(rows), NEW j \in Pending(rows),
                      f[i][1] = f[j][1], f[i][2] = f[j][2]
               PROVE  i = j
    OBVIOUS
  <2>1. f[i] \in Ticket /\ f[j] \in Ticket
    BY <1>1
  <2>2. f[i] = f[j]
    BY <2>1 DEF Ticket
  <2> QED BY <1>1, <2>2
<1>4. a \in Injection(Of("lost"), 1..n)
  <2>1. \A i \in Of("lost") : f[i][2] \in 1..n
    BY <1>1 DEF Serves
  <2>2. a \in [Of("lost") -> 1..n] /\ \A i \in Of("lost") : a[i] = f[i][2]
    BY <2>1
  <2>3. \A i, j \in Of("lost") : a[i] = a[j] => i = j
    BY <1>3, <2>2
  <2> HIDE DEF a
  <2> QED BY <2>2, <2>3 DEF Injection, IsInjective
<1>5. b \in Injection(Of("back"), S)
  <2>1. \A i \in Of("back") : f[i][2] \in c
    BY <1>1 DEF Serves
  <2>2. b \in [Of("back") -> S] /\ \A i \in Of("back") : b[i] = p[f[i][2]]
    BY <2>1
  <2>3. \A i, j \in Of("back") : b[i] = b[j] => i = j
    BY <1>3, <2>1, <2>2
  <2> HIDE DEF b
  <2> QED BY <2>2, <2>3 DEF Injection, IsInjective
<1>6. d \in Injection(Of("sent"), posts)
  <2>1. \A i \in Of("sent") : f[i][2] \in posts
    BY <1>1 DEF Serves
  <2>2. d \in [Of("sent") -> posts] /\ \A i \in Of("sent") : d[i] = f[i][2]
    BY <2>1
  <2>3. \A i, j \in Of("sent") : d[i] = d[j] => i = j
    BY <1>3, <2>2
  <2> HIDE DEF d
  <2> QED BY <2>2, <2>3 DEF Injection, IsInjective
<1> HIDE DEF a, b, d
<1>7. IsFiniteSet(Of("lost")) /\ Cardinality(Of("lost")) <= n
  <2>1. IsFiniteSet(1..n) /\ Cardinality(1..n) = n
    BY FS_Interval
  <2> QED BY <1>4, <2>1, FS_Injection
<1>8. IsFiniteSet(Of("back")) /\ Cardinality(Of("back")) <= Cardinality(S)
  BY <1>5, FS_Injection
<1>9. IsFiniteSet(Of("sent")) /\ Cardinality(Of("sent")) <= Many(u, {"post"})
  <2>1. IsFiniteSet(1..Len(u)) /\ posts \in SUBSET (1..Len(u))
    BY FS_Interval
  <2>2. IsFiniteSet(posts) /\ Cardinality(posts) = Many(u, {"post"})
    BY <2>1, FS_Subset DEF Many
  <2> HIDE DEF posts
  <2> QED BY <1>6, <2>2, FS_Injection
<1>10. Pending(rows) = (Of("lost") \cup Of("back")) \cup Of("sent")
  <2>1. \A i \in Pending(rows) : f[i][1] \in {"lost", "back", "sent"}
    BY <1>1 DEF Serves
  <2> QED BY <2>1
<1> HIDE DEF Of
<1>11. ASSUME NEW X, NEW Y, IsFiniteSet(X), IsFiniteSet(Y)
       PROVE  /\ IsFiniteSet(X \cup Y) /\ Cardinality(X \cup Y) \in Nat
              /\ Cardinality(X) \in Nat /\ Cardinality(Y) \in Nat
              /\ Cardinality(X \cup Y) <= Cardinality(X) + Cardinality(Y)
  <2>1. /\ IsFiniteSet(X \cup Y)
        /\ Cardinality(X \cup Y) = Cardinality(X) + Cardinality(Y) - Cardinality(X \cap Y)
    BY <1>11, FS_Union
  <2>2. IsFiniteSet(X \cap Y)
    BY <1>11, FS_Subset
  <2>3. /\ Cardinality(X \cap Y) \in Nat /\ Cardinality(X \cup Y) \in Nat
        /\ Cardinality(X) \in Nat /\ Cardinality(Y) \in Nat
    BY <1>11, <2>1, <2>2, FS_CardinalityType
  <2> QED BY <2>1, <2>3
<1>12. /\ IsFiniteSet(Of("lost") \cup Of("back"))
       /\ Cardinality(Of("lost") \cup Of("back")) <= Cardinality(S) + n
  <2>1. /\ IsFiniteSet(Of("lost") \cup Of("back"))
        /\ Cardinality(Of("lost") \cup Of("back")) \in Nat
        /\ Cardinality(Of("lost")) \in Nat /\ Cardinality(Of("back")) \in Nat
        /\ Cardinality(Of("lost") \cup Of("back")) <=
              Cardinality(Of("lost")) + Cardinality(Of("back"))
    BY <1>7, <1>8, <1>11
  <2>2. Cardinality(S) \in Nat
    BY FS_CardinalityType
  <2> QED BY <1>7, <1>8, <2>1, <2>2
<1>13. Cardinality(Pending(rows)) <=
          Cardinality(Of("lost") \cup Of("back")) + Cardinality(Of("sent"))
  BY <1>9, <1>10, <1>11, <1>12
<1>14. Many(u, {"post"}) \in Nat /\ Cardinality(S) \in Nat
  BY ManyPlaces, FS_CardinalityType
<1>15. /\ Cardinality(Of("lost") \cup Of("back")) \in Nat /\ Cardinality(Of("sent")) \in Nat
  BY <1>9, <1>12, FS_CardinalityType
<1>16. Cardinality(Pending(rows)) <= Many(u, {"post"}) + Cardinality(S) + n
  BY <1>2, <1>9, <1>12, <1>13, <1>14, <1>15
<1> QED BY <1>2, <1>16

\* No more optimistic rows than lost messages.
LEMMA AllLost ==
    ASSUME NEW rows, NEW n \in Nat, IsFiniteSet(Pending(rows)),
           Cardinality(Pending(rows)) <= n, NEW c
    PROVE  Awaited(rows, <<>>, c, <<>>, n)
<1> DEFINE P == Pending(rows)
           k == Cardinality(P)
<1>1. k \in Nat
  BY FS_CardinalityType
<1>2. PICK g : g \in Bijection(1..k, P)
  <2>1. ExistsBijection(1..k, P)
    BY FS_NatBijection, FS_CardinalityType
  <2> QED BY <2>1 DEF ExistsBijection
<1>3. /\ g \in [1..k -> P] /\ \A i, j \in 1..k : g[i] = g[j] => i = j
      /\ \A x \in P : \E i \in 1..k : g[i] = x
  BY <1>2 DEF Bijection, Injection, IsInjective, Surjection
<1> DEFINE at(x) == CHOOSE i \in 1..k : g[i] = x
           f == [x \in P |-> <<"lost", at(x)>>]
<1> HIDE DEF P
<1>4. \A x \in P : at(x) \in 1..k /\ g[at(x)] = x
  BY <1>3
<1> HIDE DEF at
<1>5. \A x \in P : f[x] = <<"lost", at(x)>> /\ at(x) \in 1..n
  BY <1>1, <1>4 DEF P
<1>6. f \in [P -> Ticket]
  BY <1>5 DEF Ticket
<1> HIDE DEF f
<1>7. \A x \in P : Serves(<<>>, c, <<>>, n, f[x], Key(rows[x]))
  BY <1>5 DEF Serves
<1>8. \A x, y \in P : f[x] = f[y] => x = y
  BY <1>4, <1>5
<1> QED BY <1>6, <1>7, <1>8 DEF Awaited, P

\* What was awaited is still there, at its place.
Prefix(q, r) == Len(q) \in Nat /\ Len(r) \in Nat /\ Len(q) <= Len(r)
                /\ \A i \in 1..Len(q) : r[i] = q[i]

LEMMA KeptTickets ==
    ASSUME NEW rows \in Seq(Row), NEW w, NEW c, NEW u, NEW n \in Nat,
           Awaited(rows, w, c, u, n),
           NEW z, NEW d, NEW v, NEW m \in Nat, c \subseteq d, c \subseteq 1..Len(w),
           Prefix(w, z), Prefix(u, v), n <= m
    PROVE  Awaited(rows, z, d, v, m)
<1> DEFINE h == [k \in Ticket |-> k]
<1>1. h \in [Ticket -> Ticket] /\ \A k \in Ticket : h[k] = k
  OBVIOUS
<1> HIDE DEF h
<1>2. ASSUME NEW k \in Ticket, NEW key \in Keys, Serves(w, c, u, n, k, key)
      PROVE  Serves(z, d, v, m, h[k], key)
  <2>1. CASE k[1] = "lost" /\ k[2] \in 1..n
    <3>1. k[2] \in 1..m
      BY <2>1
    <3> QED BY <1>1, <2>1, <3>1 DEF Serves
  <2>2. CASE k[1] = "back" /\ k[2] \in c /\ Key(w[k[2]]) = key
    <3>1. k[2] \in d /\ z[k[2]] = w[k[2]]
      BY <2>2 DEF Prefix
    <3> QED BY <1>1, <2>2, <3>1 DEF Serves
  <2>3. CASE k[1] = "sent" /\ k[2] \in 1..Len(u) /\ u[k[2]].kind = "post" /\ Key(u[k[2]]) = key
    <3>1. k[2] \in 1..Len(v) /\ v[k[2]] = u[k[2]]
      BY <2>3 DEF Prefix
    <3> QED BY <1>1, <2>3, <3>1 DEF Serves
  <2> QED BY <1>2, <2>1, <2>2, <2>3 DEF Serves
<1>3. \A k, l \in Ticket, s, t \in Keys :
         /\ Serves(w, c, u, n, k, s) /\ Serves(w, c, u, n, l, t) /\ h[k] = h[l]
         => k = l
  BY <1>1
<1> QED BY <1>1, <1>2, <1>3, MovedTickets

\* The UI took the first line, and it was none that a row waits for.
LEMMA TakenTickets ==
    ASSUME NEW rows \in Seq(Row), NEW T, NEW w \in Seq(T), w # <<>>,
           NEW c \in SUBSET (2..Len(w)), NEW u, NEW n,
           Awaited(rows, w, c, u, n),
           NEW d, \A i \in c : i - 1 \in d
    PROVE  Awaited(rows, Tail(w), d, u, n)
<1>1. PICK z : z = Tail(w)
  OBVIOUS
<1>2. \A i \in c : i \in Nat /\ i > 1 /\ z[i - 1] = w[i]
  BY <1>1
<1> DEFINE h == [k \in Ticket |-> IF k[1] = "back" /\ k[2] \in c THEN <<"back", k[2] - 1>> ELSE k]
<1>3. h \in [Ticket -> Ticket]
  BY <1>2 DEF Ticket
<1>4. \A k \in Ticket :
        /\ k[1] = "back" /\ k[2] \in c => h[k] = <<"back", k[2] - 1>>
        /\ ~(k[1] = "back" /\ k[2] \in c) => h[k] = k
  OBVIOUS
<1> HIDE DEF h
<1>5. ASSUME NEW k \in Ticket, NEW key \in Keys, Serves(w, c, u, n, k, key)
      PROVE  Serves(z, d, u, n, h[k], key)
  <2>1. CASE k[1] = "back"
    <3>1. k[2] \in c /\ Key(w[k[2]]) = key
      BY <1>5, <2>1 DEF Serves
    <3>2. h[k] = <<"back", k[2] - 1>> /\ k[2] - 1 \in d /\ Key(z[k[2] - 1]) = key
      BY <1>2, <1>4, <2>1, <3>1
    <3> QED BY <3>2 DEF Serves
  <2>2. CASE k[1] # "back"
    <3>1. h[k] = k
      BY <1>4, <2>2
    <3> QED BY <1>5, <2>2, <3>1 DEF Serves
  <2> QED BY <2>1, <2>2
<1>6. ASSUME NEW k \in Ticket, NEW l \in Ticket, NEW s \in Keys, NEW t \in Keys,
             Serves(w, c, u, n, k, s), Serves(w, c, u, n, l, t), h[k] = h[l]
      PROVE  k = l
  <2>1. k[1] = "back" => k[2] \in c /\ h[k] = <<"back", k[2] - 1>>
    BY <1>4, <1>6 DEF Serves
  <2>2. l[1] = "back" => l[2] \in c /\ h[l] = <<"back", l[2] - 1>>
    BY <1>4, <1>6 DEF Serves
  <2>3. k[1] # "back" => h[k] = k
    BY <1>4
  <2>4. l[1] # "back" => h[l] = l
    BY <1>4
  <2>5. CASE k[1] = "back" /\ l[1] = "back"
    <3>1. <<"back", k[2] - 1>> = <<"back", l[2] - 1>> /\ k[2] \in Nat /\ l[2] \in Nat
      BY <1>2, <1>6, <2>1, <2>2, <2>5
    <3>2. k[2] = l[2]
      BY <3>1
    <3> QED BY <2>5, <3>2 DEF Ticket
  <2>6. CASE k[1] # "back" /\ l[1] # "back"
    BY <1>6, <2>3, <2>4, <2>6
  <2>7. CASE k[1] = "back" /\ l[1] # "back"
    BY <1>6, <2>1, <2>4, <2>7
  <2>8. CASE k[1] # "back" /\ l[1] = "back"
    BY <1>6, <2>2, <2>3, <2>8
  <2> QED BY <2>5, <2>6, <2>7, <2>8
<1>7. Awaited(rows, z, d, u, n)
  BY <1>3, <1>5, <1>6, MovedTickets
<1> QED BY <1>1, <1>7

\* The server read the first line: if it was a post, its echo is on the way back
\* under the nick it was written with.
LEMMA ReadTickets ==
    ASSUME NEW rows \in Seq(Row), NEW w, NEW c, NEW u \in Seq(Request), u # <<>>, NEW n,
           Awaited(rows, w, c, u, n), c \subseteq 1..Len(w),
           NEW z, NEW d, Prefix(w, z), c \subseteq d,
           Head(u).kind = "post" =>
              Len(w) + 1 \in d /\ Key(z[Len(w) + 1]) = Key(Head(u))
    PROVE  Awaited(rows, z, d, Tail(u), n)
<1>1. PICK v : v = Tail(u)
  OBVIOUS
<1>2. /\ Head(u) = u[1] /\ Len(w) \in Nat
      /\ \A i \in 1..Len(u) : i # 1 => i - 1 \in 1..Len(v) /\ v[i - 1] = u[i]
  BY <1>1 DEF Prefix
<1>3. PICK echo : echo = <<"back", Len(w) + 1>>
  OBVIOUS
<1> DEFINE h == [k \in Ticket |-> IF k[1] = "sent" /\ k[2] \in 1..Len(u)
                                  THEN IF k[2] = 1 THEN echo ELSE <<"sent", k[2] - 1>>
                                  ELSE k]
<1>4. h \in [Ticket -> Ticket]
  BY <1>2, <1>3 DEF Ticket
<1>5. \A k \in Ticket :
        /\ k[1] = "sent" /\ k[2] \in 1..Len(u) /\ k[2] # 1 => h[k] = <<"sent", k[2] - 1>>
        /\ k[1] = "sent" /\ k[2] \in 1..Len(u) /\ k[2] = 1 => h[k] = echo
        /\ k[1] # "sent" => h[k] = k
  OBVIOUS
<1> HIDE DEF h
<1>6. ASSUME NEW k \in Ticket, NEW key \in Keys, Serves(w, c, u, n, k, key)
      PROVE  Serves(z, d, v, n, h[k], key)
  <2>1. CASE k[1] = "sent"
    <3>1. k[2] \in 1..Len(u) /\ u[k[2]].kind = "post" /\ Key(u[k[2]]) = key
      BY <1>6, <2>1 DEF Serves
    <3>2. CASE k[2] = 1
      <4>1. h[k] = echo /\ Len(w) + 1 \in d /\ Key(z[Len(w) + 1]) = key
        BY <1>2, <1>5, <2>1, <3>1, <3>2
      <4> QED BY <1>3, <4>1 DEF Serves
    <3>3. CASE k[2] # 1
      <4>1. h[k] = <<"sent", k[2] - 1>> /\ k[2] - 1 \in 1..Len(v) /\ v[k[2] - 1] = u[k[2]]
        BY <1>2, <1>5, <2>1, <3>1, <3>3
      <4> QED BY <3>1, <4>1 DEF Serves
    <3> QED BY <3>2, <3>3
  <2>2. CASE k[1] = "back"
    <3>1. k[2] \in c /\ Key(w[k[2]]) = key /\ h[k] = k
      BY <1>5, <1>6, <2>2 DEF Serves
    <3>2. k[2] \in d /\ z[k[2]] = w[k[2]]
      BY <3>1 DEF Prefix
    <3> QED BY <2>2, <3>1, <3>2 DEF Serves
  <2>3. CASE k[1] \notin {"sent", "back"}
    <3>1. h[k] = k
      BY <1>5, <2>3
    <3> QED BY <1>6, <2>3, <3>1 DEF Serves
  <2> QED BY <2>1, <2>2, <2>3
<1>7. ASSUME NEW k \in Ticket, NEW l \in Ticket, NEW s \in Keys, NEW t \in Keys,
             Serves(w, c, u, n, k, s), Serves(w, c, u, n, l, t), h[k] = h[l]
      PROVE  k = l
  <2>1. ASSUME NEW x \in Ticket, NEW r \in Keys, Serves(w, c, u, n, x, r)
        PROVE  \/ x[1] = "sent" /\ x[2] = 1 /\ h[x] = echo
               \/ /\ x[1] = "sent" /\ x[2] \in Nat /\ x[2] # 1
                  /\ h[x] = <<"sent", x[2] - 1>>
               \/ x[1] # "sent" /\ h[x] = x /\ x # echo
    <3>1. CASE x[1] = "sent"
      BY <1>5, <2>1, <3>1 DEF Serves
    <3>2. CASE x[1] = "back"
      <4>1. x[2] \in 1..Len(w)
        BY <2>1, <3>2 DEF Serves
      <4>2. x[2] # Len(w) + 1
        BY <1>2, <4>1
      <4> QED BY <1>3, <1>5, <3>2, <4>2
    <3>3. CASE x[1] \notin {"sent", "back"}
      BY <1>3, <1>5, <3>3
    <3> QED BY <3>1, <3>2, <3>3
  <2>2. k[1] = l[1] /\ k[2] = l[2]
    BY <1>3, <1>7, <2>1, SMTT(40)
  <2> QED BY <2>2 DEF Ticket
<1>8. Awaited(rows, z, d, v, n)
  BY <1>4, <1>6, <1>7, MovedTickets
<1> QED BY <1>1, <1>8

\* The server read the first line under another nick: no echo will have the one
\* the row has.
LEMMA MisreadTickets ==
    ASSUME NEW rows \in Seq(Row), NEW w, NEW c, NEW u \in Seq(Request), u # <<>>,
           NEW n \in Nat, Awaited(rows, w, c, u, n), c \subseteq 1..Len(w),
           NEW z, NEW d, Prefix(w, z), c \subseteq d
    PROVE  Awaited(rows, z, d, Tail(u), n + 1)
<1>1. PICK v : v = Tail(u)
  OBVIOUS
<1>2. \A i \in 1..Len(u) : i # 1 => i - 1 \in 1..Len(v) /\ v[i - 1] = u[i]
  BY <1>1
<1>3. PICK no : no = <<"lost", n + 1>>
  OBVIOUS
<1> DEFINE h == [k \in Ticket |-> IF k[1] = "sent" /\ k[2] \in 1..Len(u)
                                  THEN IF k[2] = 1 THEN no ELSE <<"sent", k[2] - 1>>
                                  ELSE k]
<1>4. h \in [Ticket -> Ticket]
  BY <1>2, <1>3 DEF Ticket
<1>5. \A k \in Ticket :
        /\ k[1] = "sent" /\ k[2] \in 1..Len(u) /\ k[2] # 1 => h[k] = <<"sent", k[2] - 1>>
        /\ k[1] = "sent" /\ k[2] \in 1..Len(u) /\ k[2] = 1 => h[k] = no
        /\ k[1] # "sent" => h[k] = k
  OBVIOUS
<1> HIDE DEF h
<1>6. ASSUME NEW k \in Ticket, NEW key \in Keys, Serves(w, c, u, n, k, key)
      PROVE  Serves(z, d, v, n + 1, h[k], key)
  <2>1. CASE k[1] = "sent"
    <3>1. k[2] \in 1..Len(u) /\ u[k[2]].kind = "post" /\ Key(u[k[2]]) = key
      BY <1>6, <2>1 DEF Serves
    <3>2. CASE k[2] = 1
      <4>1. h[k] = no /\ n + 1 \in 1..(n + 1)
        BY <1>5, <2>1, <3>1, <3>2
      <4> QED BY <1>3, <4>1 DEF Serves
    <3>3. CASE k[2] # 1
      <4>1. h[k] = <<"sent", k[2] - 1>> /\ k[2] - 1 \in 1..Len(v) /\ v[k[2] - 1] = u[k[2]]
        BY <1>2, <1>5, <2>1, <3>1, <3>3
      <4> QED BY <3>1, <4>1 DEF Serves
    <3> QED BY <3>2, <3>3
  <2>2. CASE k[1] = "back"
    <3>1. k[2] \in c /\ Key(w[k[2]]) = key /\ h[k] = k
      BY <1>5, <1>6, <2>2 DEF Serves
    <3>2. k[2] \in d /\ z[k[2]] = w[k[2]]
      BY <3>1 DEF Prefix
    <3> QED BY <2>2, <3>1, <3>2 DEF Serves
  <2>3. CASE k[1] \notin {"sent", "back"}
    <3>1. h[k] = k /\ k[1] = "lost" /\ k[2] \in 1..(n + 1)
      BY <1>5, <1>6, <2>3 DEF Serves
    <3> QED BY <3>1 DEF Serves
  <2> QED BY <2>1, <2>2, <2>3
<1>7. ASSUME NEW k \in Ticket, NEW l \in Ticket, NEW s \in Keys, NEW t \in Keys,
             Serves(w, c, u, n, k, s), Serves(w, c, u, n, l, t), h[k] = h[l]
      PROVE  k = l
  <2>1. ASSUME NEW x \in Ticket, NEW r \in Keys, Serves(w, c, u, n, x, r)
        PROVE  \/ x[1] = "sent" /\ x[2] = 1 /\ h[x] = no
               \/ /\ x[1] = "sent" /\ x[2] \in Nat /\ x[2] # 1
                  /\ h[x] = <<"sent", x[2] - 1>>
               \/ x[1] # "sent" /\ h[x] = x /\ x # no
    <3>1. CASE x[1] = "sent"
      BY <1>5, <2>1, <3>1 DEF Serves
    <3>2. CASE x[1] = "lost"
      <4>1. x[2] \in 1..n
        BY <2>1, <3>2 DEF Serves
      <4>2. x[2] # n + 1
        BY <4>1
      <4> QED BY <1>3, <1>5, <3>2, <4>2
    <3>3. CASE x[1] \notin {"sent", "lost"}
      BY <1>3, <1>5, <3>3
    <3> QED BY <3>1, <3>2, <3>3
  <2>2. k[1] = l[1] /\ k[2] = l[2]
    BY <1>3, <1>7, <2>1, SMTT(40)
  <2> QED BY <2>2 DEF Ticket
<1>8. Awaited(rows, z, d, v, n + 1)
  BY <1>4, <1>6, <1>7, MovedTickets
<1> QED BY <1>1, <1>8

---------------------------------------------------------------------------
(* What the operations on the buffer leave of it                           *)

LEMMA DrawnThinned ==
    ASSUME NEW r, NEW q, NEW p, NEW e, Len(r) \in Nat, Len(q) \in Nat, Len(p) \in Nat,
           Thinned(r, q), Drawn(q, p, e)
    PROVE  Drawn(r, p, e)
<1>1. PICK g \in [1..Len(r) -> 1..Len(q)] :
         /\ \A k, l \in 1..Len(r) : g[k] = g[l] => k = l
         /\ \A k \in 1..Len(r) : r[k] = q[g[k]]
  BY DEF Thinned
<1>2. PICK h \in [1..Len(q) -> 0..Len(p)] :
         /\ \A k, l \in 1..Len(q) : h[k] = h[l] => k = l
         /\ \A k \in 1..Len(q) : q[k] = IF h[k] = 0 THEN e ELSE p[h[k]]
  BY DEF Drawn
<1> DEFINE f == [k \in 1..Len(r) |-> h[g[k]]]
<1>3. \A k \in 1..Len(r) : g[k] \in 1..Len(q)
  OBVIOUS
<1>4. f \in [1..Len(r) -> 0..Len(p)] /\ \A k \in 1..Len(r) : f[k] = h[g[k]]
  BY <1>3
<1> HIDE DEF f
<1>5. \A k, l \in 1..Len(r) : f[k] = f[l] => k = l
  BY <1>1, <1>2, <1>3, <1>4
<1>6. \A k \in 1..Len(r) : r[k] = IF f[k] = 0 THEN e ELSE p[f[k]]
  BY <1>1, <1>2, <1>3, <1>4
<1> QED BY <1>4, <1>5, <1>6 DEF Drawn

\* A new row is added to the rows without the one that gives way to it.
LEMMA AppendedDraws ==
    ASSUME NEW b \in Buffer, NEW row \in Row, Fresh(b, row)
    PROVE  /\ WithoutEcho(b.rows, row) \in Seq(Row)
           /\ Thinned(WithoutEcho(b.rows, row), b.rows)
           /\ Drawn(Appended(b, row).rows, WithoutEcho(b.rows, row), row)
<1>1. PICK rest \in Seq(Row) : rest = WithoutEcho(b.rows, row) /\ Thinned(rest, b.rows)
  BY WithoutEchoIs DEF Buffer
<1>2. PICK r \in Seq(Row) : r = Made(b, row) /\ Drawn(r, rest, row) /\ Len(r) = Len(rest) + 1
  BY <1>1, InsertedIs DEF Made
<1>3. Appended(b, row).rows = r \/ Appended(b, row).rows = Tail(r)
  <2>1. CASE Appended(b, row) = [rows |-> Made(b, row), ids |-> Known(b, row),
                                 aliases |-> b.aliases]
    BY <1>2, <2>1
  <2>2. CASE Appended(b, row) = [rows |-> Tail(Made(b, row)),
                                 ids |-> Known(b, row) \ {Head(Made(b, row)).id},
                                 aliases |-> b.aliases]
    BY <1>2, <2>2
  <2> QED BY <2>1, <2>2, AppendedIs
<1>4. Drawn(Tail(r), rest, row)
  <2>1. r # <<>> /\ Len(rest) \in Nat /\ Len(r) \in Nat
    BY <1>2
  <2>2. Tail(r) \in Seq(Row) /\ Thinned(Tail(r), r)
    BY <2>1, TailThins
  <2>3. Len(Tail(r)) \in Nat
    BY <2>2
  <2> QED BY <1>2, <2>1, <2>2, <2>3, DrawnThinned
<1> QED BY <1>1, <1>2, <1>3, <1>4

\* The rows and ids of a buffer are among those it was made from.
LEMMA NamesAre ==
    ASSUME NEW b, NEW X,
           b.ids \subseteq X, b.aliases \subseteq X,
           \A i \in 1..Len(b.rows) : b.rows[i].id \in X /\ b.rows[i].of \in X
    PROVE  Names(b) \subseteq X
  BY DEF Names

LEMMA NamesAppended ==
    ASSUME NEW b \in Buffer, NEW row \in Row
    PROVE  Names(Appended(b, row)) \subseteq Names(b) \cup {row.id, row.of}
<1>1. PICK e : e = Appended(b, row)
  OBVIOUS
<1>2. CASE e = b
  BY <1>1, <1>2
<1>3. CASE Fresh(b, row)
  <2>1. PICK rest : rest = WithoutEcho(b.rows, row) /\ Thinned(rest, b.rows)
                    /\ Drawn(e.rows, rest, row)
    BY <1>1, <1>3, AppendedDraws
  <2>2. PICK f \in [1..Len(rest) -> 1..Len(b.rows)] : \A k \in 1..Len(rest) : rest[k] = b.rows[f[k]]
    BY <2>1 DEF Thinned
  <2>3. PICK g \in [1..Len(e.rows) -> 0..Len(rest)] :
          \A k \in 1..Len(e.rows) : e.rows[k] = IF g[k] = 0 THEN row ELSE rest[g[k]]
    BY <2>1 DEF Drawn
  <2>4. ASSUME NEW k \in 1..Len(e.rows)
        PROVE  e.rows[k] = row \/ \E i \in 1..Len(b.rows) : e.rows[k] = b.rows[i]
    <3>1. CASE g[k] = 0
      BY <2>3, <3>1
    <3>2. CASE g[k] # 0
      <4>1. g[k] \in 1..Len(rest) /\ e.rows[k] = rest[g[k]]
        BY <2>3, <3>2
      <4>2. f[g[k]] \in 1..Len(b.rows) /\ e.rows[k] = b.rows[f[g[k]]]
        BY <2>2, <4>1
      <4> QED BY <4>2
    <3> QED BY <3>1, <3>2
  <2>5. \A k \in 1..Len(e.rows) : /\ e.rows[k].id \in Names(b) \cup {row.id, row.of}
                                  /\ e.rows[k].of \in Names(b) \cup {row.id, row.of}
    BY <2>4 DEF Names
  <2>6. e.ids \subseteq b.ids \cup {row.id} /\ e.aliases \subseteq b.aliases
    <3>1. Known(b, row) \subseteq b.ids \cup {row.id}
      BY DEF Known
    <3>2. CASE e = [rows |-> Made(b, row), ids |-> Known(b, row), aliases |-> b.aliases]
      BY <3>1, <3>2
    <3>3. CASE e = [rows |-> Tail(Made(b, row)),
                    ids |-> Known(b, row) \ {Head(Made(b, row)).id},
                    aliases |-> b.aliases]
      BY <3>1, <3>3
    <3> QED BY <1>1, <1>3, <3>2, <3>3, AppendedIs
  <2>7. /\ e.ids \subseteq Names(b) \cup {row.id, row.of}
        /\ e.aliases \subseteq Names(b) \cup {row.id, row.of}
    BY <2>6 DEF Names
  <2>8. Names(e) \subseteq Names(b) \cup {row.id, row.of}
    <3>1. PICK X : X = Names(b) \cup {row.id, row.of}
      OBVIOUS
    <3>2. e.ids \subseteq X /\ e.aliases \subseteq X
      BY <2>7, <3>1
    <3>3. \A k \in 1..Len(e.rows) : e.rows[k].id \in X /\ e.rows[k].of \in X
      BY <2>5, <3>1
    <3>4. Names(e) \subseteq X
      BY <3>2, <3>3, NamesAre
    <3> QED BY <3>1, <3>4
  <2> QED BY <1>1, <2>8
<1> QED BY <1>1, <1>2, <1>3, AppendedIs

\* An edit in place, with its msgid or without.
LEMMA EditedEcho ==
    ASSUME NEW b \in Buffer, NEW n \in Ids, NEW new \in Ids \cup {0}, NEW text \in Texts,
           FirstNamed(b.rows, n) # 0, LocalsPlain(b.rows),
           NEW w, NEW c, NEW u, NEW m, Awaited(b.rows, w, c, u, m)
    PROVE  /\ Awaited(Edited(b, n, new, text).rows, w, c, u, m)
           /\ Names(Edited(b, n, new, text)) \subseteq Names(b) \cup {new}
<1>1. PICK e : e = Edited(b, n, new, text)
  OBVIOUS
<1>2. PICK i : i = FirstNamed(b.rows, n)
  OBVIOUS
<1>3. PICK id : id = IdAfter(b, n, new)
  OBVIOUS
<1>4. Rewrites(e, b, i, n, id, text)
  BY <1>1, <1>2, <1>3, EditedIs
<1>5. b.rows[i].id \in Ids /\ id \in Ids /\ (new = 0 => id = b.rows[i].id) /\ (new # 0 => id = new)
  <2>1. b.rows[i].id \in Ids
    BY <1>2, EditedType
  <2> QED BY <1>2, <1>3, <2>1 DEF IdAfter
<1>6. 0 \notin Ids
  BY DEF Ids
<1>7. /\ i \in 1..Len(b.rows) /\ Matches(b.rows[i], n) /\ Len(e.rows) = Len(b.rows)
      /\ \A k \in 1..Len(b.rows) : k # i => e.rows[k] = b.rows[k]
      /\ e.rows[i].id = id
      /\ e.rows[i].of = IF b.rows[i].of = 0 THEN n ELSE b.rows[i].of
      /\ e.ids = IF id = b.rows[i].id THEN b.ids ELSE (b.ids \ {b.rows[i].id}) \cup {id}
      /\ e.aliases = b.aliases \cup {n, b.rows[i].id}
  BY <1>4 DEF Rewrites
<1>8. \A k \in 1..Len(b.rows) :
        /\ e.rows[k].id = Local <=> b.rows[k].id = Local
        /\ b.rows[k].id = Local => e.rows[k] = b.rows[k]
  BY <1>5, <1>6, <1>7 DEF Local
<1>9. Awaited(e.rows, w, c, u, m)
  BY <1>7, <1>8, SamePending
<1>11. n \in Names(b) /\ b.rows[i].id \in Names(b) /\ b.rows[i].of \in Names(b)
  BY <1>7 DEF Names, Matches
<1>12. id \in Names(b) \cup {new}
  BY <1>5, <1>11
<1>13. \A k \in 1..Len(e.rows) : /\ e.rows[k].id \in Names(b) \cup {new}
                                 /\ e.rows[k].of \in Names(b) \cup {new}
  <2> SUFFICES ASSUME NEW k \in 1..Len(e.rows)
               PROVE  /\ e.rows[k].id \in Names(b) \cup {new}
                      /\ e.rows[k].of \in Names(b) \cup {new}
    OBVIOUS
  <2>1. CASE k = i
    BY <1>7, <1>11, <1>12, <2>1
  <2>2. CASE k # i
    BY <1>7, <2>2 DEF Names
  <2> QED BY <2>1, <2>2
<1>14. e.ids \subseteq Names(b) \cup {new} /\ e.aliases \subseteq Names(b) \cup {new}
  BY <1>7, <1>11, <1>12 DEF Names
<1>15. Names(e) \subseteq Names(b) \cup {new}
  BY <1>13, <1>14, NamesAre
<1> QED BY <1>1, <1>9, <1>15

LEMMA DeletedEcho ==
    ASSUME NEW b \in Buffer, NEW from, NEW n,
           NEW w, NEW c, NEW u, NEW m, Awaited(b.rows, w, c, u, m)
    PROVE  /\ Awaited(Deleted(b, from, n).rows, w, c, u, m)
           /\ Names(Deleted(b, from, n)) \subseteq Names(b)
<1>1. PICK e : e = Deleted(b, from, n)
  OBVIOUS
<1>2. /\ e.ids = b.ids /\ e.aliases = b.aliases /\ Len(e.rows) = Len(b.rows)
      /\ \A k \in 1..Len(b.rows) :
            /\ e.rows[k].id = b.rows[k].id /\ e.rows[k].of = b.rows[k].of
            /\ e.rows[k].from = b.rows[k].from /\ e.rows[k].text = b.rows[k].text
  BY <1>1, DeletedIs
<1>3. Awaited(e.rows, w, c, u, m)
  <2>1. \A k \in 1..Len(b.rows) : Key(e.rows[k]) = Key(b.rows[k])
    BY <1>2 DEF Key
  <2> QED BY <1>2, <2>1, SamePending
<1>5. Names(e) \subseteq Names(b)
  <2>1. \A i \in 1..Len(e.rows) : e.rows[i].id \in Names(b) /\ e.rows[i].of \in Names(b)
    BY <1>2 DEF Names
  <2>2. e.ids \subseteq Names(b) /\ e.aliases \subseteq Names(b)
    BY <1>2 DEF Names
  <2> QED BY <2>1, <2>2, NamesAre
<1> QED BY <1>1, <1>3, <1>5

\* An echo still to come stays one unless the buffer meets its id.
LEMMA ComersKept ==
    ASSUME NEW w, NEW z, NEW b, NEW e, Prefix(w, z),
           \A i \in Comers(w, b) : w[i].id \notin Names(e)
    PROVE  Comers(w, b) \subseteq Comers(z, e)
<1> SUFFICES ASSUME NEW i \in Comers(w, b) PROVE i \in Comers(z, e)
  OBVIOUS
<1>1. /\ i \in 1..Len(w) /\ w[i].kind = "post" /\ w[i].from \in OwnNicks
      /\ \A j \in 1..(i - 1) : w[j].kind # "delete" => w[j].id # w[i].id /\ w[j].names # w[i].id
  BY DEF Comers
<1>2. i \in 1..Len(z) /\ z[i] = w[i] /\ \A j \in 1..(i - 1) : z[j] = w[j]
  BY <1>1 DEF Prefix
<1> QED BY <1>1, <1>2 DEF Comers

---------------------------------------------------------------------------
(* Every optimistic row has something to wait for                          *)

EchoInv == /\ Awaited(buf.rows, wire, Comers(wire, buf), up, lost)
           /\ Names(buf) \subseteq 0..Len(log)
           /\ online \/ (up = <<>> /\ wire = <<>>)

LEMMA PrefixSelf == ASSUME NEW S, NEW q \in Seq(S) PROVE Prefix(q, q)
  BY DEF Prefix

LEMMA PrefixAppend ==
    ASSUME NEW S, NEW q \in Seq(S), NEW e \in S
    PROVE  Prefix(q, Append(q, e))
<1>1. /\ Len(Append(q, e)) = Len(q) + 1 /\ Len(q) \in Nat
      /\ \A i \in 1..Len(q) : Append(q, e)[i] = q[i]
  OBVIOUS
<1> QED BY <1>1 DEF Prefix

LEMMA ComersIn == ASSUME NEW w, NEW b PROVE Comers(w, b) \subseteq 1..Len(w)
  BY DEF Comers

\* Lines and tickets are added at most; X is what the buffer has newly met.
LEMMA EchoKept ==
    ASSUME IInv, EchoInv, IInv', NEW X, NEW v, NEW m \in Nat,
           Awaited((buf').rows, wire, Comers(wire, buf), v, m),
           Names(buf') \subseteq Names(buf) \cup X, X \subseteq 0..Len(log'),
           \A i \in Comers(wire, buf) : wire[i].id \notin X,
           Len(log) <= Len(log'), Prefix(wire, wire'), Prefix(v, up'), m <= lost',
           online' \/ (up' = <<>> /\ wire' = <<>>)
    PROVE  EchoInv'
<1>1. (buf').rows \in Seq(Row) /\ lost' \in Nat /\ Len(log) \in Nat /\ Len(log') \in Nat
  BY LogIs DEF IInv, Plainly, Buffer, LogSound
<1>2. \A i \in Comers(wire, buf) : wire[i].id \notin Names(buf')
  BY DEF Comers
<1>3. Comers(wire, buf) \subseteq Comers(wire', buf')
  BY <1>2, ComersKept
<1>4. Awaited((buf').rows, wire', Comers(wire', buf'), up', lost')
  BY <1>1, <1>3, ComersIn, KeptTickets
<1>5. Names(buf') \subseteq 0..Len(log')
  <2>1. 0..Len(log) \subseteq 0..Len(log')
    BY <1>1
  <2> QED BY <2>1 DEF EchoInv
<1> QED BY <1>4, <1>5 DEF EchoInv

\* A step that leaves the buffer alone, and takes no line.
LEMMA EchoUntouched ==
    ASSUME IInv, EchoInv, IInv', UNCHANGED buf, Len(log) <= Len(log'),
           Prefix(wire, wire'), Prefix(up, up'), lost <= lost',
           online' \/ (up' = <<>> /\ wire' = <<>>)
    PROVE  EchoInv'
<1>1. PICK X : X = {}
  OBVIOUS
<1>2. Awaited((buf').rows, wire, Comers(wire, buf), up, lost)
  BY DEF EchoInv
<1>3. /\ Names(buf') \subseteq Names(buf) \cup X /\ X \subseteq 0..Len(log')
      /\ \A i \in Comers(wire, buf) : wire[i].id \notin X
      /\ lost \in Nat
  BY <1>1 DEF IInv, Plainly
<1> QED BY <1>2, <1>3, EchoKept

\* The types of what is on its way and of the buffer, as the lemmas below take them.
LEMMA LinesTyped ==
    ASSUME IInv
    PROVE  /\ wire \in Seq(Entry \cup Deletion) /\ up \in Seq(Request)
           /\ Prefix(wire, wire) /\ Prefix(up, up) /\ Prefix(<<>>, up)
           /\ \A i \in Comers(wire, buf) : wire[i].id \in Ids /\ wire[i].id # 0
           /\ lost \in Nat /\ buf \in Buffer /\ buf.rows \in Seq(Row)
           /\ LocalsPlain(buf.rows)
<1>1. wire \in Seq(Entry \cup Deletion) /\ up \in Seq(Request)
  BY DEF IInv, WireSound, UpSound
<1>2. Prefix(wire, wire) /\ Prefix(up, up)
  BY <1>1, PrefixSelf
<1>3. Prefix(<<>>, up)
  BY <1>1 DEF Prefix
<1>4. \A i \in Comers(wire, buf) : wire[i].id \in Ids /\ wire[i].id # 0
  <2> SUFFICES ASSUME NEW i \in Comers(wire, buf) PROVE wire[i].id \in Ids /\ wire[i].id # 0
    OBVIOUS
  <2>1. wire[i] \in Entry \cup Deletion /\ wire[i].kind = "post"
    BY <1>1 DEF Comers
  <2>2. wire[i].id \in Ids
    BY <2>1 DEF Entry, Deletion
  <2> QED BY <2>2 DEF Ids
<1>5. lost \in Nat /\ buf \in Buffer /\ buf.rows \in Seq(Row)
  BY DEF IInv, Plainly, Buffer
<1>6. LocalsPlain(buf.rows)
  BY DEF IInv, Sound, RowsRefer, Refers, LocalsPlain, Local
<1> QED BY <1>1, <1>2, <1>3, <1>4, <1>5, <1>6

\* The echoes have different values of p in S.
Parted(p, c, S) ==
    IsFiniteSet(S) /\ p \in [c -> S] /\ \A i, j \in c : p[i] = p[j] => i = j

\* There are not more optimistic rows than tickets.
Bounded(rows, u, S, n) ==
    /\ IsFiniteSet(Pending(rows)) /\ Cardinality(Pending(rows)) \in Nat
    /\ Cardinality(Pending(rows)) <= Many(u, {"post"}) + Cardinality(S) + n

\* How many optimistic rows there may be with the lines and the requests as they are.
LEMMA PendingNow ==
    ASSUME IInv, NEW rows \in Seq(Row), NEW c, NEW S, NEW p, Parted(p, c, S),
           Awaited(rows, wire, c, up, lost)
    PROVE  Bounded(rows, up, S, lost)
<1>1. PICK w : w = wire
  OBVIOUS
<1>2. PICK u \in Seq(Request) : u = up
  BY LinesTyped
<1>3. PICK n \in Nat : n = lost
  BY LinesTyped
<1>4. Awaited(rows, w, c, u, n)
  BY <1>1, <1>2, <1>3
<1>5. IsFiniteSet(S) /\ p \in [c -> S] /\ \A i, j \in c : p[i] = p[j] => i = j
  BY DEF Parted
<1>6. Bounded(rows, u, S, n)
  BY <1>4, <1>5, PendingCount DEF Bounded
<1> QED BY <1>2, <1>3, <1>6

\* A step that touches none of it.
LEMMA EchoQuiet ==
    ASSUME IInv, EchoInv, IInv', UNCHANGED <<buf, online, up, wire, log, lost>>
    PROVE  EchoInv'
<1>1. /\ Prefix(wire, wire') /\ Prefix(up, up')
      /\ Len(log) <= Len(log') /\ lost <= lost'
  BY LinesTyped, LogIs
<1>2. online' \/ (up' = <<>> /\ wire' = <<>>)
  BY DEF EchoInv
<1> QED BY <1>1, <1>2, EchoUntouched

LEMMA EchoSend ==
    ASSUME IInv, EchoInv, IInv', NEW t \in Texts, Send(t) PROVE EchoInv'
<1>1. PICK row : row = [id |-> Local, of |-> 0, text |-> t, from |-> nick,
                        deleted |-> FALSE, ts |-> Len(log)]
  OBVIOUS
<1>2. PICK r : r = [kind |-> "post", names |-> 0, text |-> t, from |-> nick]
  OBVIOUS
<1>3. /\ buf' = Appended(buf, row)
      /\ up' = IF online THEN Append(up, r) ELSE up
      /\ lost' = IF online THEN lost ELSE lost + 1
      /\ UNCHANGED <<online, wire, log>>
  BY <1>1, <1>2, Zenon DEF Send, serverVars, Request1
<1>4. /\ row \in Row /\ row.id = Local /\ row.of = 0 /\ Key(row) = <<nick, t>>
      /\ Fresh(buf, row)
  BY <1>1, LogIs DEF Row, Local, Fresh, Key, Nicks, IInv, NicksSound
<1>5. r \in Request /\ r.kind = "post" /\ Key(r) = <<nick, t>>
  BY <1>2 DEF Request, Key, IInv, NicksSound
<1>6. (buf').rows \in Seq(Row) /\ Drawn((buf').rows, buf.rows, row)
  <2>1. WithoutEcho(buf.rows, row) = buf.rows
    BY <1>4 DEF WithoutEcho
  <2>2. Drawn((buf').rows, buf.rows, row)
    BY <1>3, <1>4, <2>1, LinesTyped, AppendedDraws
  <2> QED BY <2>2 DEF IInv, Plainly, Buffer
<1>8. Names(buf') \subseteq Names(buf) \cup {0}
  BY <1>3, <1>4, LinesTyped, NamesAppended DEF Local
<1>9. {0} \subseteq 0..Len(log') /\ Len(log) <= Len(log')
  BY <1>3, LogIs
<1>10. \A i \in Comers(wire, buf) : wire[i].id \notin {0}
  BY LinesTyped
<1>11. lost' \in Nat /\ Prefix(up', up') /\ Prefix(wire, wire') /\ lost' <= lost'
  <2>1. up' \in Seq(Request) /\ lost' \in Nat
    BY DEF IInv, UpSound, Plainly
  <2>2. Prefix(up', up') /\ Prefix(wire, wire')
    BY <1>3, <2>1, LinesTyped, PrefixSelf
  <2> QED BY <2>1, <2>2
<1>12. Awaited((buf').rows, wire, Comers(wire, buf), up', lost')
  <2> DEFINE c == Comers(wire, buf)
  <2>1. PICK q \in Seq(Row) : q = buf.rows
    BY LinesTyped
  <2>2. PICK z \in Seq(Row) : z = (buf').rows
    BY <1>6
  <2>3. Drawn(z, q, row)
    BY <1>6, <2>1, <2>2
  <2>4. Awaited(q, wire, c, up, lost)
    BY <2>1 DEF EchoInv
  <2>5. CASE online
    <3>1. PICK k : k = <<"sent", Len(up) + 1>>
      OBVIOUS
    <3>2. /\ up' = Append(up, r) /\ lost' = lost /\ Len(up) \in Nat /\ Prefix(up, up')
          /\ Len(up') = Len(up) + 1 /\ up'[Len(up) + 1] = r
      BY <1>3, <1>5, <2>5, LinesTyped, PrefixAppend
    <3>3. k \in Ticket /\ k[1] = "sent" /\ k[2] = Len(up) + 1
      BY <3>1, <3>2 DEF Ticket
    <3>4. Serves(wire, c, up', lost', k, Key(row))
      BY <1>4, <1>5, <3>2, <3>3 DEF Serves
    <3>5. \A key : ~Serves(wire, c, up, lost, k, key)
      BY <3>2, <3>3 DEF Serves
    <3>6. \A l \in Ticket, key \in Keys :
             Serves(wire, c, up, lost, l, key) => Serves(wire, c, up', lost', l, key)
      BY <3>2 DEF Serves, Prefix
    <3> HIDE DEF c
    <3>7. Awaited(z, wire, c, up', lost')
      BY <2>3, <2>4, <3>3, <3>4, <3>5, <3>6, MorePending
    <3> QED BY <2>2, <3>7 DEF c
  <2>6. CASE ~online
    <3>1. PICK k : k = <<"lost", lost + 1>>
      OBVIOUS
    <3>2. up' = up /\ lost' = lost + 1 /\ lost \in Nat
      BY <1>3, <2>6, LinesTyped
    <3>3. k \in Ticket /\ k[1] = "lost" /\ k[2] = lost + 1
      BY <3>1, <3>2 DEF Ticket
    <3>4. Serves(wire, c, up', lost', k, Key(row))
      BY <3>2, <3>3 DEF Serves
    <3>5. \A key : ~Serves(wire, c, up, lost, k, key)
      BY <3>2, <3>3 DEF Serves
    <3>6. \A l \in Ticket, key \in Keys :
             Serves(wire, c, up, lost, l, key) => Serves(wire, c, up', lost', l, key)
      BY <3>2 DEF Serves
    <3> HIDE DEF c
    <3>7. Awaited(z, wire, c, up', lost')
      BY <2>3, <2>4, <3>3, <3>4, <3>5, <3>6, MorePending
    <3> QED BY <2>2, <3>7 DEF c
  <2> QED BY <2>5, <2>6
<1>13. online' \/ (up' = <<>> /\ wire' = <<>>)
  BY <1>3 DEF EchoInv
<1> QED BY <1>8, <1>9, <1>10, <1>11, <1>12, <1>13, EchoKept

\* The line of a request, if there is a session.
LEMMA EchoRequest ==
    ASSUME IInv, EchoInv, NEW r \in Request, Request1(r), UNCHANGED <<online, wire>>
    PROVE  /\ Prefix(up, up') /\ Prefix(wire, wire')
           /\ online' \/ (up' = <<>> /\ wire' = <<>>)
<1>1. up' = IF online THEN Append(up, r) ELSE up
  BY DEF Request1
<1>2. Prefix(up, up') /\ Prefix(wire, wire')
  BY <1>1, LinesTyped, PrefixAppend
<1>3. online' \/ (up' = <<>> /\ wire' = <<>>)
  BY <1>1 DEF EchoInv
<1> QED BY <1>2, <1>3

LEMMA EchoSave ==
    ASSUME IInv, EchoInv, IInv', NEW t \in Texts, Save(t) PROVE EchoInv'
<1>1. PICK r : r = [kind |-> "edit", names |-> editing, text |-> t, from |-> nick]
  OBVIOUS
<1>2. /\ buf' = IF Editable(buf, nick, editing) THEN Edited(buf, editing, 0, t) ELSE buf
      /\ Request1(r) /\ editing # 0
      /\ UNCHANGED <<online, wire, log, lost>>
  BY <1>1, Zenon DEF Save, serverVars
<1>3. editing \in Ids
  BY <1>2, LogIs DEF IInv, Plainly
<1>4. r \in Request
  BY <1>1, <1>3 DEF Request, IInv, NicksSound
<1>5. /\ Prefix(up, up') /\ Prefix(wire, wire')
      /\ online' \/ (up' = <<>> /\ wire' = <<>>)
  BY <1>2, <1>4, EchoRequest
<1>6. /\ Awaited((buf').rows, wire, Comers(wire, buf), up, lost)
      /\ Names(buf') \subseteq Names(buf) \cup {0}
  <2>1. CASE Editable(buf, nick, editing)
    <3>1. buf' = Edited(buf, editing, 0, t) /\ FirstNamed(buf.rows, editing) # 0
      BY <1>2, <2>1 DEF Editable
    <3> QED BY <1>3, <3>1, LinesTyped, EditedEcho DEF EchoInv
  <2>2. CASE ~Editable(buf, nick, editing)
    BY <1>2, <2>2 DEF EchoInv
  <2> QED BY <2>1, <2>2
<1>7. {0} \subseteq 0..Len(log') /\ Len(log) <= Len(log') /\ lost <= lost'
  BY <1>2, LogIs, LinesTyped
<1>8. \A i \in Comers(wire, buf) : wire[i].id \notin {0}
  BY LinesTyped
<1> QED BY <1>5, <1>6, <1>7, <1>8, LinesTyped, EchoKept

LEMMA EchoDelete ==
    ASSUME IInv, EchoInv, IInv', NEW i, Delete(i) PROVE EchoInv'
<1>1. PICK n : n = IF buf.rows[i].of # 0 THEN buf.rows[i].of ELSE buf.rows[i].id
  OBVIOUS
<1>2. PICK r : r = [kind |-> "delete", names |-> n]
  OBVIOUS
<1>3. /\ Own(i) /\ buf' = Deleted(buf, nick, n) /\ Request1(r)
      /\ UNCHANGED <<online, wire, log, lost>>
  BY <1>1, <1>2, Zenon DEF Delete, serverVars
<1>4. n \in Ids
  BY <1>1, <1>3, RowOwned, LogIs
<1>5. r \in Request
  BY <1>2, <1>4 DEF Request
<1>6. /\ Prefix(up, up') /\ Prefix(wire, wire')
      /\ online' \/ (up' = <<>> /\ wire' = <<>>)
  BY <1>3, <1>5, EchoRequest
<1>7. PICK X : X = {}
  OBVIOUS
<1>8. /\ Awaited((buf').rows, wire, Comers(wire, buf), up, lost)
      /\ Names(buf') \subseteq Names(buf) \cup X
  BY <1>3, LinesTyped, DeletedEcho DEF EchoInv
<1>9. X \subseteq 0..Len(log') /\ Len(log) <= Len(log') /\ lost <= lost'
  BY <1>3, <1>7, LogIs, LinesTyped
<1>10. \A j \in Comers(wire, buf) : wire[j].id \notin X
  BY <1>7
<1> QED BY <1>6, <1>8, <1>9, <1>10, LinesTyped, EchoKept

\* The head of the wire names no message whose echo is behind it.
LEMMA HeadNames ==
    ASSUME IInv, NEW i \in Comers(wire, buf), i # 1, wire[1].kind # "delete"
    PROVE  wire[i].id \notin {wire[1].id, wire[1].names}
<1>1. 1 \in 1..(i - 1)
  BY DEF Comers
<1> QED BY <1>1 DEF Comers

\* If the first line is the echo of an own message, the optimistic row of it has
\* given way; the others wait for what is behind it.
LEMMA EchoRest ==
    ASSUME IInv, EchoInv, wire # <<>>, NEW row \in Row, row = RowOf(wire[1]), row.id # Local,
           wire[1].from \in Nicks, Fresh(buf, row)
    PROVE  /\ WithoutEcho(buf.rows, row) \in Seq(Row)
           /\ Thinned(WithoutEcho(buf.rows, row), buf.rows)
           /\ Awaited(WithoutEcho(buf.rows, row), wire, Comers(wire, buf) \ {1}, up, lost)
<1>1. /\ row.id = wire[1].id /\ row.of = wire[1].names /\ row.from = wire[1].from
      /\ row.text = wire[1].text
  BY DEF RowOf
<1>2. PICK c : c = Comers(wire, buf)
  OBVIOUS
<1>3. 1 \in c => wire[1].from \in OwnNicks
  BY <1>2 DEF Comers
<1>4. PICK rest \in Seq(Row) : rest = WithoutEcho(buf.rows, row) /\ Thinned(rest, buf.rows)
  BY LinesTyped, WithoutEchoIs
<1>5. CASE wire[1].from \in OwnNicks
  <2>1. Key(wire[1]) = Key(row)
    BY <1>1 DEF Key
  <2>2. Awaited(WithoutEcho(buf.rows, row), wire, c \ {1}, up, lost)
    BY <1>2, <2>1, LinesTyped, EchoTaken DEF EchoInv
  <2> QED BY <1>2, <1>4, <2>2
<1>6. CASE ~(wire[1].from \in OwnNicks)
  <2>1. c \ {1} = c
    BY <1>3, <1>6
  <2>2. Awaited(rest, wire, c, up, lost)
    BY <1>2, <1>4, LinesTyped, ThinnedPending DEF EchoInv
  <2> QED BY <1>2, <1>4, <2>1, <2>2
<1> QED BY <1>5, <1>6

\* A row of the server comes in; if it is the echo of an own message, the
\* optimistic row of it gives way.
LEMMA EchoAppended ==
    ASSUME IInv, EchoInv, IInv', wire # <<>>, wire[1].kind \in {"post", "edit"},
           buf' = Appended(buf, RowOf(wire[1])),
           RowOf(wire[1]) \in Row, RowOf(wire[1]).id # Local, wire[1].from \in Nicks
    PROVE  /\ Awaited((buf').rows, wire, Comers(wire, buf) \ {1}, up, lost)
          
           /\ Names(buf') \subseteq Names(buf) \cup {wire[1].id, wire[1].names}
<1>1. PICK row : row = RowOf(wire[1])
  OBVIOUS
<1>2. /\ row.id = wire[1].id /\ row.of = wire[1].names /\ row.from = wire[1].from
      /\ row.text = wire[1].text
  BY <1>1 DEF RowOf
<1>3. PICK c : c = Comers(wire, buf)
  OBVIOUS
<1>4. Names(buf') \subseteq Names(buf) \cup {wire[1].id, wire[1].names}
  BY <1>1, <1>2, LinesTyped, NamesAppended
<1>5. 1 \in c => wire[1].from \in OwnNicks /\ Fresh(buf, row)
  BY <1>2, <1>3 DEF Comers, Names, Fresh
<1>6. CASE ~Fresh(buf, row)
  <2>1. buf' = buf
    BY <1>1, <1>6, LinesTyped, AppendedIs
  <2>2. c \ {1} = c
    BY <1>5, <1>6
  <2> QED BY <1>3, <1>4, <2>1, <2>2 DEF EchoInv
<1>7. CASE Fresh(buf, row)
  <2>1. PICK rest \in Seq(Row) :
          /\ rest = WithoutEcho(buf.rows, row) /\ Thinned(rest, buf.rows)
          /\ Drawn((buf').rows, rest, row)
    BY <1>1, <1>7, LinesTyped, AppendedDraws
  <2>2. (buf').rows \in Seq(Row)
    BY DEF IInv, Plainly, Buffer
  <2>3. Awaited(rest, wire, c \ {1}, up, lost)
    BY <1>1, <1>3, <1>7, <2>1, EchoRest
  <2>4. Awaited((buf').rows, wire, c \ {1}, up, lost)
    BY <1>1, <2>1, <2>2, <2>3, DrawnPending
  <2> QED BY <1>3, <1>4, <2>4
<1> QED BY <1>6, <1>7

\* The first line has been handled: what is behind it moves up by one place.
LEMMA EchoTakenLine ==
    ASSUME IInv, EchoInv, IInv', wire # <<>>, wire' = Tail(wire),
           UNCHANGED <<online, up, log, lost>>, NEW X,
           Awaited((buf').rows, wire, Comers(wire, buf) \ {1}, up, lost),
           Names(buf') \subseteq Names(buf) \cup X, X \subseteq 0..Len(log),
           \A i \in Comers(wire, buf) : i # 1 => wire[i].id \notin X
    PROVE  EchoInv'
<1>1. PICK c \in SUBSET (2..Len(wire)) : c = Comers(wire, buf) \ {1}
  <2>1. Len(wire) \in Nat
    BY LinesTyped
  <2>2. Comers(wire, buf) \ {1} \subseteq 2..Len(wire)
    BY <2>1, ComersIn
  <2> QED BY <2>2
<1>2. PICK z : z = Tail(wire)
  OBVIOUS
<1>3. /\ wire \in Seq(Entry \cup Deletion) /\ (buf').rows \in Seq(Row)
  BY LinesTyped DEF IInv, Plainly, Buffer
<1>4. /\ \A i \in 2..Len(wire) : i - 1 \in 1..Len(z) /\ z[i - 1] = wire[i]
      /\ \A j \in 1..Len(z) : j + 1 \in 2..Len(wire) /\ z[j] = wire[j + 1]
  BY <1>2, <1>3
<1>5. \A i \in c : i - 1 \in Comers(z, buf')
  <2> SUFFICES ASSUME NEW i \in c PROVE i - 1 \in Comers(z, buf')
    OBVIOUS
  <2>1. /\ i \in 2..Len(wire) /\ i \in Comers(wire, buf) /\ wire[i].id \notin X
    BY <1>1
  <2>2. /\ wire[i].kind = "post" /\ wire[i].from \in OwnNicks /\ wire[i].id \notin Names(buf')
        /\ \A j \in 1..(i - 1) : wire[j].kind # "delete" =>
              wire[j].id # wire[i].id /\ wire[j].names # wire[i].id
    BY <2>1 DEF Comers
  <2>3. i - 1 \in 1..Len(z) /\ z[i - 1] = wire[i]
    BY <1>4
  <2>4. ASSUME NEW j \in 1..((i - 1) - 1), z[j].kind # "delete"
        PROVE  z[j].id # wire[i].id /\ z[j].names # wire[i].id
    <3>1. j \in 1..Len(z) /\ j + 1 \in 1..(i - 1) /\ z[j] = wire[j + 1]
      BY <1>4, <2>3
    <3> QED BY <2>2, <2>4, <3>1
  <2> QED BY <2>2, <2>3, <2>4 DEF Comers
<1>6. Awaited((buf').rows, wire', Comers(wire', buf'), up', lost')
  <2>1. Awaited((buf').rows, wire, c, up, lost)
    BY <1>1
  <2>2. Awaited((buf').rows, Tail(wire), Comers(z, buf'), up, lost)
    BY <1>3, <1>5, <2>1, TakenTickets
  <2> QED BY <1>2, <2>2
<1>7. Names(buf') \subseteq 0..Len(log')
  BY DEF EchoInv
<1>8. online'
  BY DEF EchoInv
<1> QED BY <1>6, <1>7, <1>8 DEF EchoInv

LEMMA EchoReceive ==
    ASSUME IInv, EchoInv, IInv', Receive PROVE EchoInv'
<1>1. PICK m : m = Head(wire)
  OBVIOUS
<1>2. /\ wire # <<>> /\ wire' = Tail(wire)
      /\ UNCHANGED <<online, up, log, lost>>
  BY DEF Receive, serverVars
<1>3. \/ m.kind = "delete" /\ buf' = Deleted(buf, m.from, m.names)
      \/ /\ m.kind = "edit" /\ Editable(buf, m.from, m.names)
         /\ buf' = Edited(buf, m.names, m.id, m.text)
      \/ m.kind \in {"post", "edit"} /\ buf' = Appended(buf, RowOf(m))
  BY <1>1, Zenon DEF Receive
<1>4. m = wire[1]
  BY <1>1, <1>2, LinesTyped
<1>5. m.kind # "delete" =>
        /\ m \in Entry /\ m.id \in 1..Len(log) /\ m = log[m.id] /\ m.from \in Nicks
        /\ m.id \in Ids /\ m.text \in Texts
        /\ {m.id, m.names} \subseteq 0..Len(log)
        /\ RowOf(m) \in Row /\ RowOf(m).id # Local
  <2> SUFFICES ASSUME m.kind # "delete"
               PROVE  /\ m \in Entry /\ m.id \in 1..Len(log) /\ m = log[m.id] /\ m.from \in Nicks
                      /\ m.id \in Ids /\ m.text \in Texts
                      /\ {m.id, m.names} \subseteq 0..Len(log)
                      /\ RowOf(m) \in Row /\ RowOf(m).id # Local
    OBVIOUS
  <2>1. m \in Entry /\ m.id \in 1..Len(log) /\ m = log[m.id]
    BY <1>1, <1>2, LineIs
  <2>2. m.from \in Nicks /\ m.text \in Texts /\ m.id \in Ids /\ m.id # 0
    BY <2>1, LogIs DEF Entry
  <2>3. RowOf(log[m.id]) \in Row /\ Refers(RowOf(log[m.id]), log) /\ RowOf(log[m.id]).id = m.id
    BY <2>1, RowOfIs
  <2>4. m.names \in 0..Len(log) /\ m.id \in 0..Len(log)
    <3>1. RowOf(m).of = m.names
      BY DEF RowOf
    <3> QED BY <2>1, <2>3, <3>1, LogIs DEF Refers
  <2> QED BY <2>1, <2>2, <2>3, <2>4 DEF Local
<1>6. CASE m.kind = "delete" /\ buf' = Deleted(buf, m.from, m.names)
  <2>1. Comers(wire, buf) \ {1} = Comers(wire, buf)
    BY <1>4, <1>6 DEF Comers
  <2>2. PICK X : X = {}
    OBVIOUS
  <2>3. /\ Awaited((buf').rows, wire, Comers(wire, buf) \ {1}, up, lost)
        /\ Names(buf') \subseteq Names(buf) \cup X
    BY <1>6, <2>1, LinesTyped, DeletedEcho DEF EchoInv
  <2>4. /\ X \subseteq 0..Len(log)
        /\ \A i \in Comers(wire, buf) : i # 1 => wire[i].id \notin X
    BY <2>2
  <2> QED BY <1>2, <2>3, <2>4, EchoTakenLine
<1>7. CASE /\ m.kind = "edit" /\ Editable(buf, m.from, m.names)
           /\ buf' = Edited(buf, m.names, m.id, m.text)
  <2>1. Comers(wire, buf) \ {1} = Comers(wire, buf)
    BY <1>4, <1>7 DEF Comers
  <2>2. m.names \in Ids /\ FirstNamed(buf.rows, m.names) # 0
    <3>1. m.names \in 1..Len(log)
      BY <1>5, <1>7, RowOfIs
    <3> QED BY <1>7, <3>1, LogIs DEF Editable
  <2>3. PICK X : X = {m.id}
    OBVIOUS
  <2>4. /\ Awaited((buf').rows, wire, Comers(wire, buf) \ {1}, up, lost)
        /\ Names(buf') \subseteq Names(buf) \cup X
    <3>1. m.id \in Ids \cup {0} /\ m.text \in Texts
      BY <1>5, <1>7
    <3>2. /\ Awaited(buf.rows, wire, Comers(wire, buf), up, lost)
          /\ buf \in Buffer /\ LocalsPlain(buf.rows)
      BY LinesTyped DEF EchoInv
    <3>3. /\ Awaited((buf').rows, wire, Comers(wire, buf), up, lost)
          /\ Names(buf') \subseteq Names(buf) \cup {m.id}
      BY <1>7, <2>2, <3>1, <3>2, EditedEcho
    <3> QED BY <2>1, <2>3, <3>3
  <2>5. X \subseteq 0..Len(log)
    BY <1>5, <1>7, <2>3
  <2>6. \A i \in Comers(wire, buf) : i # 1 => wire[i].id \notin X
    BY <1>4, <1>7, <2>3, HeadNames
  <2> QED BY <1>2, <2>4, <2>5, <2>6, EchoTakenLine
<1>8. CASE m.kind \in {"post", "edit"} /\ buf' = Appended(buf, RowOf(m))
  <2>1. PICK X : X = {m.id, m.names}
    OBVIOUS
  <2>2. /\ Awaited((buf').rows, wire, Comers(wire, buf) \ {1}, up, lost)
        /\ Names(buf') \subseteq Names(buf) \cup X
    BY <1>2, <1>4, <1>5, <1>8, <2>1, EchoAppended
  <2>3. X \subseteq 0..Len(log)
    BY <1>5, <1>8, <2>1
  <2>4. \A i \in Comers(wire, buf) : i # 1 => wire[i].id \notin X
    BY <1>4, <1>8, <2>1, HeadNames
  <2> QED BY <1>2, <2>2, <2>3, <2>4, EchoTakenLine
<1> QED BY <1>3, <1>6, <1>7, <1>8

\* The server reads a line of the user, and echoes a post.
LEMMA EchoServerReads ==
    ASSUME IInv, EchoInv, IInv', ServerReads PROVE EchoInv'
<1>1. PICK r : r = Head(up)
  OBVIOUS
<1>2. /\ online /\ up # <<>> /\ up' = Tail(up) /\ UNCHANGED <<buf, online>>
      /\ lost' = IF r.kind = "post" /\ r.from # me THEN lost + 1 ELSE lost
  BY <1>1 DEF ServerReads
<1>3. \/ r.kind = "history" /\ wire' = wire \o Replay /\ UNCHANGED log
      \/ r.kind = "post" /\ Log(Said("post", 0, r.text, me))
      \/ r.kind = "edit" /\ Log(Said("edit", r.names, r.text, me))
      \/ r.kind # "post" /\ UNCHANGED <<log, wire>>
  BY <1>1, Zenon DEF ServerReads
<1>4. /\ wire \in Seq(Entry \cup Deletion) /\ wire' \in Seq(Entry \cup Deletion)
      /\ up \in Seq(Request) /\ buf.rows \in Seq(Row)
      /\ Len(log) \in Nat /\ Len(log') \in Nat
  BY LinesTyped, LogIs DEF IInv, WireSound, LogSound
<1>5. Prefix(wire, wire') /\ Len(log) <= Len(log')
  <2>1. CASE wire' = wire \o Replay /\ UNCHANGED log
    <3>1. Replay \in Seq(Entry)
      BY ReplayLogged, LogIs
    <3>2. PICK p \in Seq(Entry \cup Deletion) : p = Replay
      BY <3>1
    <3>3. /\ Len(wire') = Len(wire) + Len(p)
          /\ \A i \in 1..Len(wire) : wire'[i] = wire[i]
      BY <1>4, <2>1, <3>2, ConcatProperties
    <3> QED BY <1>4, <2>1, <3>3 DEF Prefix
  <2>2. ASSUME NEW m, Log(m) PROVE Prefix(wire, wire') /\ Len(log) <= Len(log')
    <3>1. wire' = Append(wire, m) /\ log' = Append(log, m)
      BY <1>2, <2>2 DEF Log
    <3>2. Len(log') = Len(log) + 1
      BY <3>1, LogIs
    <3>3. Len(wire') = Len(wire) + 1 /\ \A i \in 1..Len(wire) : wire'[i] = wire[i]
      BY <1>4, <3>1
    <3> QED BY <1>4, <3>2, <3>3 DEF Prefix
  <2>3. CASE UNCHANGED <<log, wire>>
    BY <1>4, <2>3, PrefixSelf
  <2> QED BY <1>3, <2>1, <2>2, <2>3
<1>6. r.kind = "post" /\ r.from = me =>
         Len(wire) + 1 \in Comers(wire', buf) /\ Key(wire'[Len(wire) + 1]) = Key(r)
  <2> SUFFICES ASSUME r.kind = "post", r.from = me
               PROVE  Len(wire) + 1 \in Comers(wire', buf) /\ Key(wire'[Len(wire) + 1]) = Key(r)
    OBVIOUS
  <2>1. PICK m : m = Said("post", 0, r.text, me)
    OBVIOUS
  <2>2. /\ m.kind = "post" /\ m.id = Len(log) + 1 /\ Key(m) = Key(r) /\ m.from \in OwnNicks
    BY <2>1 DEF Said, Key, IInv, NicksSound
  <2>3. wire' = Append(wire, m)
    BY <1>2, <1>3, <2>1 DEF Log
  <2>4. /\ Len(wire) \in Nat /\ Len(wire') = Len(wire) + 1 /\ wire'[Len(wire) + 1] = m
        /\ \A i \in 1..Len(wire) : wire'[i] = wire[i]
    BY <1>4, <2>3
  <2>5. m.id \notin Names(buf)
    BY <1>4, <2>2 DEF EchoInv
  <2>6. ASSUME NEW j \in 1..Len(wire), wire[j].kind # "delete"
        PROVE  wire[j].id # m.id /\ wire[j].names # m.id
    <3>1. wire[j].id \in 1..Len(log) /\ wire[j] = log[wire[j].id]
      BY <2>6 DEF IInv, WireSound, Carries
    <3>2. wire[j].names \in 0..(wire[j].id - 1)
      BY <3>1 DEF IInv, LogSound
    <3> QED BY <1>4, <2>2, <3>1, <3>2
  <2>7. Len(wire) + 1 \in Comers(wire', buf)
    <3>1. \A j \in 1..((Len(wire) + 1) - 1) : wire'[j].kind # "delete" =>
             wire'[j].id # m.id /\ wire'[j].names # m.id
      BY <2>4, <2>6
    <3>2. Len(wire) + 1 \in 1..Len(wire')
      BY <2>4
    <3> QED BY <2>2, <2>4, <2>5, <3>1, <3>2 DEF Comers
  <2> QED BY <2>2, <2>4, <2>7
<1>7. Comers(wire, buf) \subseteq Comers(wire', buf)
  <2>1. \A i \in Comers(wire, buf) : wire[i].id \notin Names(buf)
    BY DEF Comers
  <2> QED BY <1>5, <2>1, ComersKept
<1>8. Awaited(buf.rows, wire', Comers(wire', buf), Tail(up), lost')
  <2>1. CASE r.kind = "post" /\ r.from # me
    <3>1. lost' = lost + 1
      BY <1>2, <2>1
    <3>2. Awaited(buf.rows, wire', Comers(wire', buf), Tail(up), lost + 1)
      BY <1>2, <1>4, <1>5, <1>7, ComersIn, LinesTyped, MisreadTickets DEF EchoInv
    <3> QED BY <3>1, <3>2
  <2>2. CASE ~(r.kind = "post" /\ r.from # me)
    <3>1. lost' = lost
      BY <1>2, <2>2
    <3>2. Awaited(buf.rows, wire', Comers(wire', buf), Tail(up), lost)
      BY <1>1, <1>2, <1>4, <1>5, <1>6, <1>7, <2>2, ComersIn, ReadTickets DEF EchoInv
    <3> QED BY <3>1, <3>2
  <2> QED BY <2>1, <2>2
<1>9. Awaited((buf').rows, wire', Comers(wire', buf'), up', lost')
  BY <1>2, <1>8
<1>10. Names(buf') \subseteq 0..Len(log')
  <2>1. 0..Len(log) \subseteq 0..Len(log')
    BY <1>4, <1>5
  <2> QED BY <1>2, <2>1 DEF EchoInv
<1> QED BY <1>2, <1>9, <1>10 DEF EchoInv

\* What was on its way is lost with the session.
LEMMA EchoDrop ==
    ASSUME IInv, EchoInv, IInv', Drop PROVE EchoInv'
<1> DEFINE own == {i \in 1..Len(wire) : wire[i].kind = "post" /\ wire[i].from \in OwnNicks}
           p == [i \in Comers(wire, buf) |-> i]
<1>1. /\ online' = FALSE /\ up' = <<>> /\ wire' = <<>> /\ UNCHANGED <<buf, log>>
      /\ lost' = lost + Many(up, {"post"}) + Cardinality(own)
  BY DEF Drop, serverVars
<1>2. IsFiniteSet(own) /\ Cardinality(own) \in Nat
  <2>1. IsFiniteSet(1..Len(wire)) /\ own \in SUBSET (1..Len(wire))
    BY LinesTyped, FS_Interval
  <2> QED BY <2>1, FS_Subset, FS_CardinalityType
<1>3. /\ p \in [Comers(wire, buf) -> own]
      /\ \A i, j \in Comers(wire, buf) : p[i] = p[j] => i = j
  BY DEF Comers
<1>4. Many(up, {"post"}) \in Nat /\ lost \in Nat /\ lost' \in Nat
  BY ManyPlaces, LinesTyped DEF IInv, Plainly
<1> HIDE DEF own, p
<1>5. /\ IsFiniteSet(Pending(buf.rows)) /\ Cardinality(Pending(buf.rows)) \in Nat
      /\ Cardinality(Pending(buf.rows)) <= Many(up, {"post"}) + Cardinality(own) + lost
  <2>1. Parted(p, Comers(wire, buf), own)
    BY <1>2, <1>3 DEF Parted
  <2>2. Awaited(buf.rows, wire, Comers(wire, buf), up, lost) /\ buf.rows \in Seq(Row)
    BY LinesTyped DEF EchoInv
  <2>3. Bounded(buf.rows, up, own, lost)
    BY <2>1, <2>2, PendingNow
  <2> QED BY <2>3 DEF Bounded
<1>6. Cardinality(Pending(buf.rows)) <= lost'
  BY <1>1, <1>2, <1>4, <1>5
<1>7. Awaited(buf.rows, <<>>, Comers(<<>>, buf), <<>>, lost')
  BY <1>4, <1>5, <1>6, AllLost
<1>8. Awaited((buf').rows, wire', Comers(wire', buf'), up', lost')
  BY <1>1, <1>7
<1> QED BY <1>1, <1>8 DEF EchoInv

LEMMA EchoOthers ==
    ASSUME IInv, EchoInv, IInv', NEW m,
           wire' = IF online THEN Append(wire, m) ELSE wire,
           log' = log \/ log' = Append(log, m), UNCHANGED <<buf, online, up, lost>>
    PROVE  EchoInv'
<1>1. Prefix(wire, wire')
  <2>1. CASE online
    <3>1. wire' = Append(wire, m) /\ Len(wire) \in Nat
      BY <2>1, LinesTyped
    <3>2. Len(wire') = Len(wire) + 1 /\ \A i \in 1..Len(wire) : wire'[i] = wire[i]
      BY <3>1, LinesTyped
    <3> QED BY <3>1, <3>2 DEF Prefix
  <2>2. CASE ~online
    BY <2>2, LinesTyped
  <2> QED BY <2>1, <2>2
<1>2. Len(log) <= Len(log')
  BY LogIs
<1>3. Prefix(up, up') /\ lost <= lost'
  BY LinesTyped
<1>4. online' \/ (up' = <<>> /\ wire' = <<>>)
  BY DEF EchoInv
<1> QED BY <1>1, <1>2, <1>3, <1>4, EchoUntouched

LEMMA EchoStep ==
    ASSUME IInv, EchoInv, IInv', [Next]_vars PROVE EchoInv'
<1>1. CASE User
  <2>1. ASSUME NEW t \in Texts, Send(t) \/ Save(t) PROVE EchoInv'
    BY <2>1, EchoSend, EchoSave
  <2>2. ASSUME NEW i \in 1..MaxRows, BeginEdit(i) \/ Delete(i) PROVE EchoInv'
    <3>1. CASE BeginEdit(i)
      <4>1. UNCHANGED <<buf, online, up, wire, log, lost>>
        BY <3>1, Zenon DEF BeginEdit, serverVars, historyVars
      <4> QED BY <4>1, EchoQuiet
    <3> QED BY <2>2, <3>1, EchoDelete
  <2>3. CASE CancelEdit
    <3>1. UNCHANGED <<buf, online, up, wire, log, lost>>
      BY <2>3, Zenon DEF CancelEdit, serverVars, historyVars
    <3> QED BY <3>1, EchoQuiet
  <2>4. CASE OpenChat
    <3>1. PICK r : r = [kind |-> "history"]
      OBVIOUS
    <3>2. /\ online /\ up' = Append(up, r) /\ UNCHANGED <<buf, online, wire, log, lost>>
      BY <2>4, <3>1, Zenon DEF OpenChat, serverVars, historyVars
    <3>3. r \in Request
      BY <3>1 DEF Request
    <3>4. Prefix(up, up') /\ Prefix(wire, wire') /\ Len(log) <= Len(log') /\ lost <= lost'
      BY <3>2, <3>3, LinesTyped, LogIs, PrefixAppend
    <3> QED BY <3>2, <3>4, EchoUntouched
  <2> QED BY <1>1, <2>1, <2>2, <2>3, <2>4 DEF User
<1>2. CASE Others
  <2>1. PICK t \in Texts, from \in {me} \cup OtherNicks :
           \/ OthersPost(t, from)
           \/ \E n \in Ids : OthersEdit(n, t, from) \/ OthersDelete(n, from)
    BY <1>2 DEF Others
  <2>2. CASE OthersPost(t, from)
    <3>1. PICK m : m = Said("post", 0, t, from)
      OBVIOUS
    <3> QED BY <2>2, <3>1, EchoOthers DEF OthersPost, Log
  <2>3. ASSUME NEW n \in Ids, OthersEdit(n, t, from) PROVE EchoInv'
    <3>1. PICK m : m = Said("edit", n, t, from)
      OBVIOUS
    <3> QED BY <2>3, <3>1, EchoOthers DEF OthersEdit, Log
  <2>4. ASSUME NEW n \in Ids, OthersDelete(n, from) PROVE EchoInv'
    <3>1. PICK m : m = [kind |-> "delete", names |-> n, from |-> from]
      OBVIOUS
    <3> QED BY <2>4, <3>1, EchoOthers DEF OthersDelete
  <2> QED BY <2>1, <2>2, <2>3, <2>4
<1>3. CASE Rejoin
  <2>1. PICK r : r = [kind |-> "history"]
    OBVIOUS
  <2>2. /\ ~online /\ online' = TRUE /\ (up' = <<>> \/ up' = <<r>>)
        /\ UNCHANGED <<buf, wire, log, lost>>
    BY <1>3, <2>1, Zenon DEF Rejoin, serverVars, historyVars
  <2>3. Prefix(up, up')
    <3>1. up = <<>> /\ up' \in Seq(Request)
      BY <2>2 DEF EchoInv, IInv, UpSound
    <3> QED BY <3>1 DEF Prefix
  <2>4. Prefix(wire, wire') /\ Len(log) <= Len(log') /\ lost <= lost'
    BY <2>2, LinesTyped, LogIs
  <2> QED BY <2>2, <2>3, <2>4, EchoUntouched
<1>4. CASE UNCHANGED vars
  <2>1. UNCHANGED <<buf, online, up, wire, log, lost>>
    BY <1>4 DEF vars, serverVars, historyVars
  <2> QED BY <2>1, EchoQuiet
<1>5. CASE OnNickChanged \/ \E n \in OwnNicks : Rename(n)
  <2>1. UNCHANGED <<buf, online, up, wire, log, lost>>
    BY <1>5, Zenon DEF OnNickChanged, Rename, serverVars, historyVars
  <2> QED BY <2>1, EchoQuiet
<1> QED BY <1>1, <1>2, <1>3, <1>4, <1>5, EchoReceive, EchoServerReads, EchoDrop DEF Next

LEMMA EchoInit == ASSUME Init PROVE EchoInv
<1>1. /\ buf = [rows |-> <<>>, ids |-> {}, aliases |-> {}]
      /\ up = <<>> /\ wire = <<>> /\ log = <<>> /\ lost = 0
  BY DEF Init
<1>2. buf.rows = <<>> /\ buf.ids = {} /\ buf.aliases = {}
  BY <1>1
<1>3. Pending(buf.rows) = {} /\ Names(buf) = {}
  BY <1>2 DEF Pending, Names
<1>4. Awaited(buf.rows, wire, Comers(wire, buf), up, lost)
  <2>1. IsFiniteSet(Pending(buf.rows)) /\ Cardinality(Pending(buf.rows)) = 0
    BY <1>3, FS_EmptySet
  <2>2. Awaited(buf.rows, <<>>, Comers(wire, buf), <<>>, 0)
    BY <2>1, AllLost
  <2> QED BY <1>1, <2>2
<1> QED BY <1>1, <1>3, <1>4 DEF EchoInv

\* An optimistic row is there only as long as its message is on its way, in
\* either direction, or was lost with a session, or reached the server after it
\* had changed the user's nick: otherwise the echo replaces it, whatever nicks he
\* had before and after (Buffer::append, consume_local_echo).
THEOREM EchoReplaces == Spec => []EchoReplacesRow
<1>1. IInv /\ EchoInv => EchoReplacesRow
  <2> SUFFICES ASSUME IInv, EchoInv PROVE EchoReplacesRow
    OBVIOUS
  <2> DEFINE back == {m.id : m \in {q \in ToSet(wire) : q.kind = "post" /\ q.from \in OwnNicks}}
                     \ (buf.ids \cup buf.aliases)
             c == Comers(wire, buf)
             p == [i \in c |-> wire[i].id]
  <2>1. \A i \in c : i \in 1..Len(wire) /\ wire[i].id \in back
    <3>1. \A i \in 1..Len(wire) : wire[i] \in ToSet(wire)
      BY LinesTyped DEF ToSet
    <3> QED BY <3>1 DEF Comers, Names
  <2>2. p \in [c -> back] /\ \A i \in c : p[i] = wire[i].id
    BY <2>1
  <2>3. \A i, j \in c : p[i] = p[j] => i = j
    <3> SUFFICES ASSUME NEW i \in c, NEW j \in c, i < j, p[i] = p[j] PROVE FALSE
      BY <2>1
    <3>1. i \in 1..(j - 1) /\ wire[i].kind = "post"
      BY <2>1 DEF Comers
    <3> QED BY <2>2, <3>1 DEF Comers
  <2>4. IsFiniteSet(back)
    <3>1. back \subseteq Ids
      <4>1. \A m \in ToSet(wire) : m.kind = "post" => m.id \in Ids
        <5> SUFFICES ASSUME NEW i \in 1..Len(wire), wire[i].kind = "post"
                     PROVE  wire[i].id \in Ids
          BY LinesTyped DEF ToSet
        <5>1. wire[i] \in Entry \cup Deletion
          BY LinesTyped
        <5> QED BY <5>1 DEF Entry, Deletion
      <4> QED BY <4>1
    <3>2. IsFiniteSet(Ids)
      BY LimitsAssumption, FS_Interval DEF Ids
    <3> QED BY <3>1, <3>2, FS_Subset
  <2> HIDE DEF back, c, p
  <2>5. Cardinality(Pending(buf.rows)) <= Many(up, {"post"}) + Cardinality(back) + lost
    <3>1. Parted(p, c, back)
      BY <2>2, <2>3, <2>4 DEF Parted
    <3>2. Awaited(buf.rows, wire, c, up, lost)
      BY DEF EchoInv, c
    <3>3. buf.rows \in Seq(Row)
      BY LinesTyped
    <3>4. Bounded(buf.rows, up, back, lost)
      BY <3>1, <3>2, <3>3, PendingNow
    <3> QED BY <3>4 DEF Bounded
  <2> QED BY <2>5 DEF EchoReplacesRow, Pending, back
<1>2. Init => IInv /\ EchoInv
  BY InitSound, EchoInit
<1>3. IInv /\ EchoInv /\ [Next]_vars => IInv' /\ EchoInv'
  <2> SUFFICES ASSUME IInv, EchoInv, [Next]_vars PROVE IInv' /\ EchoInv'
    OBVIOUS
  <2>1. IInv'
    BY NextKeeps DEF StepKeeps
  <2> QED BY <2>1, EchoStep
<1> QED BY <1>1, <1>2, <1>3, PTL DEF Spec

---------------------------------------------------------------------------
(* What the lines on their way make of a row                               *)

\* The messages, the rows of one, and its versions: the original and its edits.
Roots(l)         == {r \in 1..Len(l) : l[r].root = r}
RowsOf(b, l, r)  == {row \in ToSet(b.rows) : row.id # Local /\ l[row.id].root = r}
VersionsOf(l, r) == {v \in 1..Len(l) : l[v].root = r}

\* The lines that bring a version of r, and their places.
Brings(r)     == {m \in Entry : m.root = r}
LinesOf(w, r) == {k \in 1..Len(w) : w[k] \in Brings(r)}

Gap(l, r, a, z) == \E v \in VersionsOf(l, r) : a < v /\ v < z

\* The row itself, which has the version x, comes before all lines.
Stops(w, r) == {0} \cup LinesOf(w, r)
At(w, x, k) == IF k = 0 THEN x ELSE w[k].id

Adjacent(w, r, j, k) == j < k /\ \A i \in Stops(w, r) : ~(j < i /\ i < k)

\* The lines take a row from version x to the latest; they may go back, but never
\* leave one out on the way forward.
Path(w, l, r, x) ==
    /\ \A j, k \in Stops(w, r) : Adjacent(w, r, j, k) => ~Gap(l, r, At(w, x, j), At(w, x, k))
    /\ \A j \in Stops(w, r) : (\A i \in Stops(w, r) : i <= j) =>
          \A v \in VersionsOf(l, r) : v <= At(w, x, j)

\* The path depends on the lines and the versions of the message only.
LEMMA PathSame ==
    ASSUME NEW w, NEW z, NEW l, NEW k, NEW r, NEW x, LinesOf(z, r) = LinesOf(w, r),
           \A i \in LinesOf(w, r) : i # 0 /\ z[i].id = w[i].id,
           VersionsOf(k, r) = VersionsOf(l, r), Path(w, l, r, x)
    PROVE  Path(z, k, r, x)
<1>1. Stops(z, r) = Stops(w, r) /\ \A i \in Stops(w, r) : At(z, x, i) = At(w, x, i)
  BY DEF Stops, At
<1>2. \A i, j : Adjacent(z, r, i, j) <=> Adjacent(w, r, i, j)
  BY <1>1 DEF Adjacent
<1>3. \A a, b : Gap(k, r, a, b) <=> Gap(l, r, a, b)
  BY DEF Gap
<1> QED BY <1>1, <1>2, <1>3 DEF Path

\* The first line of a queue is about another message.
LEMMA PathTailOther ==
    ASSUME NEW S, NEW w \in Seq(S), w # <<>>, NEW r, 1 \notin LinesOf(w, r), NEW l, NEW x,
           Path(w, l, r, x)
    PROVE  Path(Tail(w), l, r, x)
<1>1. PICK q : q = Tail(w)
  OBVIOUS
<1>2. /\ Len(w) \in Nat /\ Len(w) > 0 /\ Len(q) = Len(w) - 1
      /\ \A i \in 1..Len(q) : q[i] = w[i + 1]
      /\ \A i \in 1..Len(w) : i = 1 \/ (i - 1 \in 1..Len(q) /\ q[i - 1] = w[i])
  BY <1>1, TailAt
<1> DEFINE up1(k) == IF k = 0 THEN 0 ELSE k + 1
<1>3. /\ Stops(q, r) \subseteq 0..Len(q) /\ Stops(w, r) \subseteq 0..Len(w)
      /\ 1 \notin Stops(w, r)
  BY DEF Stops, LinesOf
<1>4. \A k \in Stops(q, r) : up1(k) \in Stops(w, r) /\ At(w, x, up1(k)) = At(q, x, k)
  BY <1>2 DEF Stops, LinesOf, At
<1>5. \A k \in Stops(w, r) : k = 0 \/ (k - 1 \in Stops(q, r) /\ k > 1)
  BY <1>2, <1>3 DEF Stops, LinesOf
<1>6. ASSUME NEW j \in Stops(q, r), NEW k \in Stops(q, r), Adjacent(q, r, j, k)
      PROVE  Adjacent(w, r, up1(j), up1(k))
  <2>1. j \in Nat /\ k \in Nat /\ j < k
    BY <1>2, <1>3, <1>6 DEF Adjacent
  <2>2. ASSUME NEW i \in Stops(w, r), up1(j) < i, i < up1(k) PROVE FALSE
    <3>1. i \in Nat /\ i > 1 /\ i - 1 \in Stops(q, r)
      BY <1>3, <1>5, <2>1, <2>2
    <3>2. j < i - 1 /\ i - 1 < k
      BY <2>1, <2>2, <3>1
    <3> QED BY <1>6, <3>1, <3>2 DEF Adjacent
  <2> QED BY <2>1, <2>2 DEF Adjacent
<1>7. \A j \in Stops(q, r) : (\A i \in Stops(q, r) : i <= j) =>
                                \A i \in Stops(w, r) : i <= up1(j)
  BY <1>2, <1>3, <1>5
<1> HIDE DEF up1
<1>8. \A j, k \in Stops(q, r) : Adjacent(q, r, j, k) => ~Gap(l, r, At(q, x, j), At(q, x, k))
  BY <1>4, <1>6 DEF Path
<1>9. \A j \in Stops(q, r) : (\A i \in Stops(q, r) : i <= j) =>
          \A v \in VersionsOf(l, r) : v <= At(q, x, j)
  BY <1>4, <1>7 DEF Path
<1> QED BY <1>1, <1>8, <1>9 DEF Path

\* The first line of a queue brings a version: there is none between the row's and it.
LEMMA PathTailHit ==
    ASSUME NEW S, NEW w \in Seq(S), w # <<>>, NEW r, 1 \in LinesOf(w, r), NEW l, NEW x,
           Path(w, l, r, x)
    PROVE  Path(Tail(w), l, r, w[1].id) /\ ~Gap(l, r, x, w[1].id)
<1>1. PICK q : q = Tail(w)
  OBVIOUS
<1>2. /\ Len(w) \in Nat /\ Len(w) > 0 /\ Len(q) = Len(w) - 1
      /\ \A i \in 1..Len(q) : q[i] = w[i + 1]
      /\ \A i \in 1..Len(w) : i = 1 \/ (i - 1 \in 1..Len(q) /\ q[i - 1] = w[i])
  BY <1>1, TailAt
<1>3. Stops(q, r) \subseteq 0..Len(q) /\ Stops(w, r) \subseteq 0..Len(w)
  BY DEF Stops, LinesOf
<1>4. PICK y : y = w[1].id
  OBVIOUS
<1>5. \A k \in Stops(q, r) : k + 1 \in Stops(w, r) /\ At(w, x, k + 1) = At(q, y, k)
  BY <1>2, <1>4 DEF Stops, LinesOf, At
<1>6. \A k \in Stops(w, r) : k = 0 \/ k - 1 \in Stops(q, r)
  BY <1>2, <1>3 DEF Stops, LinesOf
<1>7. ASSUME NEW j \in Stops(q, r), NEW k \in Stops(q, r), Adjacent(q, r, j, k)
      PROVE  Adjacent(w, r, j + 1, k + 1)
  <2>1. j \in Nat /\ k \in Nat /\ j < k
    BY <1>2, <1>3, <1>7 DEF Adjacent
  <2>2. ASSUME NEW i \in Stops(w, r), j + 1 < i, i < k + 1 PROVE FALSE
    <3>1. i \in Nat /\ i - 1 \in Stops(q, r)
      BY <1>3, <1>6, <2>1, <2>2
    <3>2. j < i - 1 /\ i - 1 < k
      BY <2>1, <2>2, <3>1
    <3> QED BY <1>7, <3>1, <3>2 DEF Adjacent
  <2> QED BY <2>1, <2>2 DEF Adjacent
<1>8. \A j \in Stops(q, r) : (\A i \in Stops(q, r) : i <= j) =>
                                \A i \in Stops(w, r) : i <= j + 1
  BY <1>2, <1>3, <1>6
<1>9. \A j, k \in Stops(q, r) : Adjacent(q, r, j, k) => ~Gap(l, r, At(q, y, j), At(q, y, k))
  BY <1>5, <1>7 DEF Path
<1>10. \A j \in Stops(q, r) : (\A i \in Stops(q, r) : i <= j) =>
          \A v \in VersionsOf(l, r) : v <= At(q, y, j)
  BY <1>5, <1>8 DEF Path
<1>11. ~Gap(l, r, x, y)
  <2>1. 0 \in Stops(w, r) /\ 1 \in Stops(w, r) /\ Adjacent(w, r, 0, 1)
    BY <1>3 DEF Stops, Adjacent
  <2>2. At(w, x, 0) = x /\ At(w, x, 1) = y
    BY <1>4 DEF At
  <2> QED BY <2>1, <2>2 DEF Path
<1> QED BY <1>1, <1>4, <1>9, <1>10, <1>11 DEF Path

\* From a later version there is less to do.
LEMMA PathLater ==
    ASSUME NEW w, NEW l, NEW r, NEW x \in Nat, NEW y \in Nat, x <= y, Path(w, l, r, x),
           Len(w) \in Nat, Len(l) \in Nat, \A k \in LinesOf(w, r) : w[k].id \in Nat
    PROVE  Path(w, l, r, y)
<1>1. \A j \in Stops(w, r) : At(w, x, j) \in Nat /\ At(w, y, j) \in Nat
                             /\ At(w, x, j) <= At(w, y, j)
                             /\ (j # 0 => At(w, y, j) = At(w, x, j))
  BY DEF Stops, At
<1>2. VersionsOf(l, r) \subseteq Nat /\ Stops(w, r) \subseteq Nat
  BY DEF VersionsOf, Stops, LinesOf
<1>3. ASSUME NEW j \in Stops(w, r), NEW k \in Stops(w, r), Adjacent(w, r, j, k)
      PROVE  ~Gap(l, r, At(w, y, j), At(w, y, k))
  <2>1. k # 0
    BY <1>2, <1>3 DEF Adjacent
  <2>2. ~Gap(l, r, At(w, x, j), At(w, x, k))
    BY <1>3 DEF Path
  <2> QED BY <1>1, <1>2, <2>1, <2>2 DEF Gap
<1>4. ASSUME NEW j \in Stops(w, r), \A i \in Stops(w, r) : i <= j, NEW v \in VersionsOf(l, r)
      PROVE  v <= At(w, y, j)
  <2>1. v <= At(w, x, j)
    BY <1>4 DEF Path
  <2> QED BY <1>1, <1>2, <2>1
<1> QED BY <1>3, <1>4 DEF Path

\* A new version is logged and sent.
LEMMA PathNew ==
    ASSUME NEW S, NEW w \in Seq(S), NEW T, NEW l \in Seq(T), NEW e \in Entry, e \in S, e \in T,
           e.id = Len(l) + 1, NEW x \in Nat,
           \A i \in LinesOf(w, e.root) : w[i].id \in 1..Len(l), Path(w, l, e.root, x)
    PROVE  Path(Append(w, e), Append(l, e), e.root, x)
<1>1. PICK r : r = e.root
  OBVIOUS
<1>2. PICK z : z = Append(w, e)
  OBVIOUS
<1>3. PICK k : k = Append(l, e)
  OBVIOUS
<1>4. /\ Len(w) \in Nat /\ Len(z) = Len(w) + 1 /\ z[Len(w) + 1] = e
      /\ \A i \in 1..Len(w) : z[i] = w[i]
  BY <1>2
<1>5. /\ Len(l) \in Nat /\ Len(k) = Len(l) + 1 /\ k[Len(l) + 1] = e
      /\ \A i \in 1..Len(l) : k[i] = l[i]
  BY <1>3
<1>6. VersionsOf(k, r) = VersionsOf(l, r) \cup {Len(l) + 1} /\ VersionsOf(l, r) \subseteq 1..Len(l)
  BY <1>1, <1>5 DEF VersionsOf
<1>7. Stops(z, r) = Stops(w, r) \cup {Len(w) + 1} /\ Stops(w, r) \subseteq 0..Len(w)
  BY <1>1, <1>4 DEF Stops, LinesOf, Brings
<1>8. /\ \A j \in Stops(w, r) : At(z, x, j) = At(w, x, j)
      /\ At(z, x, Len(w) + 1) = Len(l) + 1
  BY <1>4, <1>7 DEF At, Stops, LinesOf
<1>9. ASSUME NEW a \in Stops(z, r), NEW b \in Stops(z, r), Adjacent(z, r, a, b)
      PROVE  ~Gap(k, r, At(z, x, a), At(z, x, b))
  <2>1. a \in Stops(w, r) /\ a \in 0..Len(w)
    BY <1>4, <1>7, <1>9 DEF Adjacent
  <2>2. CASE b = Len(w) + 1
    <3>1. \A i \in Stops(w, r) : i <= a
      BY <1>4, <1>7, <1>9, <2>1, <2>2 DEF Adjacent
    <3>2. \A v \in VersionsOf(l, r) : v <= At(w, x, a)
      BY <1>1, <2>1, <3>1 DEF Path
    <3>3. At(w, x, a) \in Nat
      BY <1>1, <2>1 DEF Stops, At
    <3> QED BY <1>5, <1>6, <1>8, <2>1, <2>2, <3>2, <3>3 DEF Gap
  <2>3. CASE b # Len(w) + 1
    <3>1. b \in Stops(w, r) /\ Adjacent(w, r, a, b)
      BY <1>7, <1>9, <2>3 DEF Adjacent
    <3>2. ~Gap(l, r, At(w, x, a), At(w, x, b))
      BY <1>1, <2>1, <3>1 DEF Path
    <3>3. b \in LinesOf(w, e.root) /\ At(w, x, b) = w[b].id
      <4>1. b # 0
        BY <1>4, <1>7, <1>9, <2>1, <3>1 DEF Adjacent
      <4> QED BY <1>1, <3>1, <4>1 DEF Stops, At
    <3>4. ~(Len(l) + 1 < At(w, x, b))
      BY <1>5, <3>3
    <3> QED BY <1>6, <1>8, <2>1, <3>1, <3>2, <3>4 DEF Gap
  <2> QED BY <2>2, <2>3
<1>10. ASSUME NEW j \in Stops(z, r), \A i \in Stops(z, r) : i <= j, NEW v \in VersionsOf(k, r)
       PROVE  v <= At(z, x, j)
  <2>1. j = Len(w) + 1
    BY <1>4, <1>7, <1>10
  <2> QED BY <1>5, <1>6, <1>8, <1>10, <2>1
<1> QED BY <1>1, <1>2, <1>3, <1>9, <1>10 DEF Path

\* What a reply to CHATHISTORY brings of r: its versions from some on, in order.
Runs(p, l, r) ==
    /\ \A k \in LinesOf(p, r) : p[k].id \in 1..Len(l)
    /\ \A j, k \in LinesOf(p, r) : j < k => p[j].id < p[k].id
    /\ \A k \in LinesOf(p, r), v \in VersionsOf(l, r) :
          p[k].id < v => \E j \in LinesOf(p, r) : p[j].id = v

\* The elements of two sequences, one behind the other.
LEMMA ConcatAt ==
    ASSUME NEW S, NEW w \in Seq(S), NEW p \in Seq(S)
    PROVE  /\ w \o p \in Seq(S) /\ Len(w) \in Nat /\ Len(p) \in Nat
           /\ Len(w \o p) = Len(w) + Len(p)
           /\ \A i \in 1..Len(w) : (w \o p)[i] = w[i]
           /\ \A i \in 1..Len(p) : (w \o p)[Len(w) + i] = p[i]
           /\ \A i \in 1..Len(w \o p) : i > Len(w) => \E j \in 1..Len(p) : (w \o p)[i] = p[j]
<1>1. PICK z : z = w \o p
  OBVIOUS
<1>2. z \in Seq(S) /\ Len(w) \in Nat /\ Len(p) \in Nat /\ Len(z) = Len(w) + Len(p)
  BY <1>1
<1>3. \A i \in 1..Len(z) : z[i] = IF i <= Len(w) THEN w[i] ELSE p[i - Len(w)]
  BY <1>1, ConcatProperties
<1>4. \A i \in 1..Len(w) : z[i] = w[i]
  BY <1>2, <1>3
<1>5. ASSUME NEW i \in 1..Len(p) PROVE z[Len(w) + i] = p[i]
  <2>1. Len(w) + i \in 1..Len(z) /\ ~(Len(w) + i <= Len(w)) /\ Len(w) + i - Len(w) = i
    BY <1>2
  <2> QED BY <1>3, <2>1
<1>6. ASSUME NEW i \in 1..Len(z), i > Len(w) PROVE \E j \in 1..Len(p) : z[i] = p[j]
  <2>1. i - Len(w) \in 1..Len(p) /\ ~(i <= Len(w))
    BY <1>2, <1>6
  <2> QED BY <1>3, <2>1
<1> QED BY <1>1, <1>2, <1>4, <1>5, <1>6

\* A reply to CHATHISTORY behind the lines leaves the path complete, or begins one.
LEMMA PathReplay ==
    ASSUME NEW S, NEW w \in Seq(S), NEW p \in Seq(S), NEW l, Len(l) \in Nat, NEW r,
           Runs(p, l, r), NEW x \in Nat, \A k \in LinesOf(w, r) : w[k].id \in Nat,
           \/ Path(w, l, r, x)
           \/ /\ LinesOf(w, r) = {} /\ LinesOf(p, r) # {}
              /\ \A v \in VersionsOf(l, r) : \E j \in LinesOf(p, r) : p[j].id = v
    PROVE  Path(w \o p, l, r, x)
<1>1. PICK z : z = w \o p
  OBVIOUS
<1>2. /\ Len(w) \in Nat /\ Len(p) \in Nat /\ Len(z) = Len(w) + Len(p)
      /\ \A i \in 1..Len(w) : z[i] = w[i]
      /\ \A i \in 1..Len(p) : z[Len(w) + i] = p[i]
  BY <1>1, ConcatAt
<1>3. PICK n \in Nat : n = Len(w)
  BY <1>2
<1>4. PICK m \in Nat : m = Len(p)
  BY <1>2, <1>3
<1>5. /\ Stops(w, r) \subseteq 0..n /\ LinesOf(p, r) \subseteq 1..Len(p)
      /\ VersionsOf(l, r) \subseteq Nat /\ \A k \in Stops(z, r) : k \in Nat
  BY <1>3 DEF Stops, LinesOf, VersionsOf
<1>6. \A k \in Stops(z, r) : k \in Stops(w, r) \/ (k > n /\ k - n \in LinesOf(p, r))
  <2> SUFFICES ASSUME NEW k \in LinesOf(z, r)
               PROVE  k \in LinesOf(w, r) \/ (k > n /\ k - n \in LinesOf(p, r))
    BY DEF Stops
  <2>1. k \in 1..Len(z) /\ z[k] \in Brings(r)
    BY DEF LinesOf
  <2>2. CASE k <= n
    BY <1>2, <1>3, <2>1, <2>2 DEF LinesOf
  <2>3. CASE k > n
    <3>1. PICK i \in 1..Len(p) : i = k - n
      <4>1. k \in Nat /\ k <= n + m
        BY <1>2, <1>3, <1>4, <2>1
      <4>2. k - n \in 1..m
        BY <2>3, <4>1
      <4> QED BY <1>4, <4>2
    <3>2. k = n + i
      BY <1>2, <1>3, <2>1, <3>1
    <3>3. i \in LinesOf(p, r)
      BY <1>2, <1>3, <2>1, <3>2 DEF LinesOf
    <3> QED BY <2>3, <3>1, <3>3
  <2> QED BY <1>2, <1>3, <2>1, <2>2, <2>3
<1>7. /\ \A k \in Stops(w, r) : k \in Stops(z, r) /\ At(z, x, k) = At(w, x, k)
      /\ \A k \in LinesOf(p, r) : n + k \in Stops(z, r) /\ At(z, x, n + k) = p[k].id
  <2>1. ASSUME NEW k \in Stops(w, r) PROVE k \in Stops(z, r) /\ At(z, x, k) = At(w, x, k)
    BY <1>2, <1>3 DEF Stops, LinesOf, At
  <2>2. ASSUME NEW k \in LinesOf(p, r)
        PROVE  n + k \in Stops(z, r) /\ At(z, x, n + k) = p[k].id
    <3>1. k \in 1..Len(p) /\ p[k] \in Brings(r)
      BY DEF LinesOf
    <3>2. z[n + k] = p[k]
      BY <1>2, <1>3, <3>1
    <3>3. Len(z) = n + m /\ k \in 1..m
      BY <1>2, <1>3, <1>4, <3>1
    <3>4. n + k \in 1..Len(z) /\ n + k # 0
      BY <3>3
    <3> QED BY <3>1, <3>2, <3>4 DEF Stops, LinesOf, At
  <2> QED BY <2>1, <2>2
<1>8. /\ \A k \in Stops(w, r) : At(w, x, k) \in Nat
      /\ \A k \in LinesOf(p, r) : p[k].id \in Nat
  BY DEF Stops, At, Runs
\* Nothing is left out in the reply, nor behind it.
<1>9. ASSUME NEW k \in LinesOf(p, r), NEW v \in VersionsOf(l, r), p[k].id < v
      PROVE  \E i \in LinesOf(p, r) : k < i /\ p[i].id = v
  <2>1. PICK i \in LinesOf(p, r) : p[i].id = v
    BY <1>9 DEF Runs
  <2>2. ~(i <= k)
    <3>1. i # k /\ ~(i < k)
      BY <1>5, <1>8, <1>9, <2>1 DEF Runs
    <3> QED BY <1>5, <3>1
  <2> QED BY <1>5, <2>1, <2>2
<1>10. ASSUME NEW a \in Stops(z, r), NEW b \in Stops(z, r), Adjacent(z, r, a, b),
             Gap(l, r, At(z, x, a), At(z, x, b))
      PROVE  FALSE
  <2>1. PICK v \in VersionsOf(l, r) : At(z, x, a) < v /\ v < At(z, x, b)
    BY <1>10 DEF Gap
  <2>2. a \in Nat /\ b \in Nat /\ a < b
    BY <1>2, <1>3, <1>5, <1>6, <1>10 DEF Adjacent
  <2>3. CASE a > n
    <3>1. a - n \in LinesOf(p, r) /\ b - n \in LinesOf(p, r)
      BY <1>2, <1>3, <1>5, <1>6, <2>2, <2>3
    <3>2. PICK c \in LinesOf(p, r) : c = a - n
      BY <3>1
    <3>3. PICK d \in LinesOf(p, r) : d = b - n
      BY <3>1
    <3>4. At(z, x, a) = p[c].id /\ At(z, x, b) = p[d].id
      <4>1. a = n + c /\ b = n + d
        BY <1>2, <1>3, <2>2, <3>2, <3>3
      <4> QED BY <1>7, <4>1
    <3>5. PICK i \in LinesOf(p, r) : c < i /\ p[i].id = v
      BY <1>9, <2>1, <3>4
    <3>6. i < d
      <4>1. i # d /\ ~(d < i)
        BY <1>5, <1>8, <2>1, <3>4, <3>5 DEF Runs
      <4> QED BY <1>5, <4>1
    <3>7. n + i \in Stops(z, r) /\ a < n + i /\ n + i < b
      <4>1. i \in Nat /\ c \in Nat /\ d \in Nat
        BY <1>2, <1>5
      <4>2. a < n + i /\ n + i < b
        <5>1. c = a - n /\ d = b - n /\ c < i /\ i < d
          BY <3>2, <3>3, <3>5, <3>6
        <5> QED BY <1>3, <2>2, <4>1, <5>1
      <4>3. n + i \in Stops(z, r)
        BY <1>7, <3>5
      <4> QED BY <4>2, <4>3
    <3> QED BY <1>10, <3>7 DEF Adjacent
  <2>4. CASE a <= n /\ b <= n
    <3>1. a \in Stops(w, r) /\ b \in Stops(w, r)
      BY <1>2, <1>3, <1>6, <2>2, <2>4
    <3>2. Adjacent(w, r, a, b)
      BY <1>7, <1>10 DEF Adjacent
    <3>3. Path(w, l, r, x)
      <4>1. b # 0 /\ b \in LinesOf(w, r)
        BY <2>2, <3>1 DEF Stops
      <4> QED BY <4>1
    <3> QED BY <1>7, <1>10, <3>1, <3>2, <3>3 DEF Path
  <2>5. CASE a <= n /\ b > n
    <3>1. a \in Stops(w, r)
      BY <1>2, <1>3, <1>6, <2>2, <2>5
    <3>2. PICK d \in LinesOf(p, r) : d = b - n
      BY <1>2, <1>3, <1>5, <1>6, <2>2, <2>5
    <3>3. At(z, x, b) = p[d].id
      <4>1. b = n + d
        BY <1>2, <1>3, <2>2, <3>2
      <4> QED BY <1>7, <4>1
    <3>4. CASE Path(w, l, r, x)
      <4>1. \A i \in Stops(w, r) : i <= a
        <5> SUFFICES ASSUME NEW i \in Stops(w, r), ~(i <= a) PROVE FALSE
          OBVIOUS
        <5>1. i \in Stops(z, r) /\ i \in Nat /\ a < i /\ i < b
          BY <1>2, <1>3, <1>5, <1>7, <2>2, <2>5
        <5> QED BY <1>10, <5>1 DEF Adjacent
      <4>2. v <= At(w, x, a)
        BY <3>1, <3>4, <4>1 DEF Path
      <4> QED BY <1>5, <1>7, <1>8, <2>1, <3>1, <4>2
    <3>5. CASE \A u \in VersionsOf(l, r) : \E j \in LinesOf(p, r) : p[j].id = u
      <4>1. PICK i \in LinesOf(p, r) : p[i].id = v
        BY <3>5
      <4>2. i < d
        <5>1. i # d /\ ~(d < i)
          BY <1>5, <1>8, <2>1, <3>3, <4>1 DEF Runs
        <5> QED BY <1>5, <5>1
      <4>3. n + i \in Stops(z, r) /\ a < n + i /\ n + i < b
        <5>1. i \in Nat /\ d \in Nat /\ i # 0
          BY <1>2, <1>5
        <5>2. a < n + i /\ n + i < b
          BY <1>3, <2>2, <2>5, <3>2, <4>2, <5>1
        <5>3. n + i \in Stops(z, r)
          BY <1>7, <4>1
        <5> QED BY <5>2, <5>3
      <4> QED BY <1>10, <4>3 DEF Adjacent
    <3> QED BY <3>4, <3>5
  <2> QED BY <1>2, <1>3, <2>2, <2>3, <2>4, <2>5
<1>11. ASSUME NEW a \in Stops(z, r), \A i \in Stops(z, r) : i <= a, NEW v \in VersionsOf(l, r)
      PROVE  v <= At(z, x, a)
  <2>1. CASE a > n
    <3>1. PICK c \in LinesOf(p, r) : c = a - n
      BY <1>2, <1>3, <1>5, <1>6, <2>1
    <3>2. a = n + c
      BY <1>2, <1>3, <1>5, <1>6, <2>1, <3>1
    <3>3. At(z, x, a) = p[c].id
      BY <1>7, <3>2
    <3>4. ASSUME p[c].id < v PROVE FALSE
      <4>1. PICK i \in LinesOf(p, r) : c < i
        BY <1>9, <3>4
      <4>2. n + i \in Stops(z, r) /\ ~(n + i <= a)
        BY <1>2, <1>3, <1>5, <1>7, <3>2, <4>1
      <4> QED BY <1>11, <4>2
    <3> QED BY <1>5, <1>8, <3>3, <3>4
  <2>2. CASE a <= n
    <3>1. a \in Stops(w, r)
      BY <1>2, <1>3, <1>5, <1>6, <2>2
    <3>2. LinesOf(p, r) = {}
      <4> SUFFICES ASSUME NEW i \in LinesOf(p, r) PROVE FALSE
        OBVIOUS
      <4>1. n + i \in Stops(z, r) /\ ~(n + i <= a)
        BY <1>2, <1>3, <1>5, <1>7, <2>2, <3>1
      <4> QED BY <1>11, <4>1
    <3>3. Path(w, l, r, x) /\ \A i \in Stops(w, r) : i <= a
      BY <1>7, <1>11, <3>2
    <3> QED BY <1>7, <3>1, <3>3 DEF Path
  <2>3. a \in Nat
    BY <1>2, <1>3, <1>5, <1>6
  <2> QED BY <1>2, <1>3, <2>1, <2>2, <2>3
<1> QED BY <1>1, <1>10, <1>11 DEF Path

\* A reply brings the versions of a message in order, without a gap, to the latest.
LEMMA ReplayRuns ==
    ASSUME log \in Seq(Entry), \A i \in 1..Len(log) : log[i].id = i, NEW r, r \notin gone
    PROVE  Runs(Replay, log, r)
<1>1. PICK n \in Nat : \E f \in [1..n -> 1..Len(log)] :
              /\ Replay \in Seq(Entry) /\ Len(Replay) = n
              /\ \A k \in 1..n : Replay[k] = log[f[k]] /\ log[f[k]].root \notin gone
              /\ \A j, k \in 1..n : j < k => f[j] < f[k]
              /\ \A k \in 1..n, v \in 1..Len(log) :
                    f[k] < v /\ log[v].root \notin gone => \E j \in 1..n : f[j] = v
  BY ReplayIs
<1>2. PICK f \in [1..n -> 1..Len(log)] :
              /\ Replay \in Seq(Entry) /\ Len(Replay) = n
              /\ \A k \in 1..n : Replay[k] = log[f[k]] /\ log[f[k]].root \notin gone
              /\ \A j, k \in 1..n : j < k => f[j] < f[k]
              /\ \A k \in 1..n, v \in 1..Len(log) :
                    f[k] < v /\ log[v].root \notin gone => \E j \in 1..n : f[j] = v
  BY <1>1
<1>3. PICK p \in Seq(Entry) : p = Replay
  BY <1>2
<1>4. \A k \in 1..n : p[k].id = f[k] /\ p[k] \in Entry /\ p[k].root = log[f[k]].root
  <2> SUFFICES ASSUME NEW k \in 1..n
               PROVE  p[k].id = f[k] /\ p[k] \in Entry /\ p[k].root = log[f[k]].root
    OBVIOUS
  <2>1. f[k] \in 1..Len(log) /\ p[k] = log[f[k]] /\ p[k] \in Entry
    BY <1>2, <1>3
  <2> QED BY <2>1 DEF Entry
<1>5. \A k : k \in LinesOf(p, r) <=> k \in 1..n /\ log[f[k]].root = r
  BY <1>2, <1>3, <1>4 DEF LinesOf, Brings
<1>6. ASSUME NEW k \in LinesOf(p, r), NEW v \in VersionsOf(log, r), p[k].id < v
      PROVE  \E j \in LinesOf(p, r) : p[j].id = v
  <2>1. v \in 1..Len(log) /\ log[v].root = r /\ f[k] < v /\ k \in 1..n
    BY <1>4, <1>5, <1>6 DEF VersionsOf
  <2>2. PICK j \in 1..n : f[j] = v
    BY <1>2, <2>1
  <2> QED BY <1>4, <1>5, <2>1, <2>2
<1>7. /\ \A k \in LinesOf(p, r) : p[k].id \in 1..Len(log)
      /\ \A j, k \in LinesOf(p, r) : j < k => p[j].id < p[k].id
  BY <1>2, <1>4, <1>5
<1> QED BY <1>3, <1>6, <1>7 DEF Runs

---------------------------------------------------------------------------
(* The rows of a message after an operation, when no row is dropped        *)

\* What is made of q and e, and is longer by one, has all of them.
LEMMA DrawnAll ==
    ASSUME NEW S, NEW q \in Seq(S), NEW r, NEW e, Drawn(r, q, e), Len(r) = Len(q) + 1
    PROVE  ToSet(r) = ToSet(q) \cup {e}
<1>1. PICK n \in Nat : n = Len(q)
  OBVIOUS
<1>2. PICK g \in [1..(n + 1) -> 0..n] :
        /\ \A k, l \in 1..(n + 1) : g[k] = g[l] => k = l
        /\ \A k \in 1..(n + 1) : r[k] = IF g[k] = 0 THEN e ELSE q[g[k]]
  BY <1>1 DEF Drawn
<1>3. ToSet(r) = {r[k] : k \in 1..(n + 1)} /\ ToSet(q) = {q[k] : k \in 1..n}
  BY <1>1 DEF ToSet
<1>4. g \in Injection(1..(n + 1), 0..n)
  BY <1>2 DEF Injection, IsInjective
<1>5. /\ IsFiniteSet(1..(n + 1)) /\ Cardinality(1..(n + 1)) = n + 1
      /\ IsFiniteSet(0..n) /\ Cardinality(0..n) = n + 1
  BY FS_Interval
<1>6. g \in Surjection(1..(n + 1), 0..n)
  BY <1>4, <1>5, FS_Injection
<1>7. \A k \in 0..n : \E i \in 1..(n + 1) : g[i] = k
  BY <1>6 DEF Surjection
<1>8. e \in ToSet(r)
  <2>1. PICK i \in 1..(n + 1) : g[i] = 0
    BY <1>7
  <2> QED BY <1>2, <1>3, <2>1
<1>9. ASSUME NEW k \in 1..n PROVE q[k] \in ToSet(r)
  <2>1. PICK i \in 1..(n + 1) : g[i] = k
    BY <1>7
  <2>2. r[i] = q[k]
    BY <1>2, <2>1
  <2> QED BY <1>3, <2>2
<1>10. ASSUME NEW k \in 1..(n + 1) PROVE r[k] \in ToSet(q) \cup {e}
  <2>1. CASE g[k] = 0
    <3>1. r[k] = e
      BY <1>2, <2>1
    <3> QED BY <3>1
  <2>2. CASE g[k] # 0
    <3>1. PICK i \in 1..n : i = g[k]
      BY <1>2, <2>2
    <3>2. r[k] = q[i]
      BY <1>2, <2>2, <3>1
    <3>3. q[i] \in ToSet(q)
      BY <1>3
    <3> QED BY <3>2, <3>3
  <2> QED BY <2>1, <2>2
<1> QED BY <1>3, <1>8, <1>9, <1>10

\* The places of a sequence are as many as it is long.
LEMMA UpTo == ASSUME NEW n \in Nat PROVE IsFiniteSet(1..n) /\ Cardinality(1..n) = n
  BY FS_Interval

\* What is made of q without its i-th element, and is shorter by one, has the rest.
LEMMA SkipsOne ==
    ASSUME NEW S, NEW q \in Seq(S), NEW i \in 1..Len(q), NEW r \in Seq(S), Skips(r, q, i),
           Len(r) = Len(q) - 1, NEW k \in 1..Len(q), k # i
    PROVE  q[k] \in ToSet(r)
<1>1. PICK n \in Nat : n = Len(q)
  OBVIOUS
<1> DEFINE R == (1..n) \ {i}
<1>2. PICK g \in [1..(n - 1) -> R] :
        /\ \A j, m \in 1..(n - 1) : g[j] = g[m] => j = m
        /\ \A m \in 1..(n - 1) : r[m] = q[g[m]]
  BY <1>1 DEF Skips
<1>3. i \in 1..n /\ k \in R /\ n - 1 \in Nat /\ n \in Int /\ 1 \in Int /\ n >= 1
  BY <1>1
<1>4. /\ IsFiniteSet(1..(n - 1)) /\ Cardinality(1..(n - 1)) = n - 1
      /\ IsFiniteSet(R) /\ Cardinality(R) = n - 1
  <2>1. IsFiniteSet(1..n) /\ Cardinality(1..n) = n
    BY <1>3, FS_Interval
  <2>2. IsFiniteSet(1..(n - 1)) /\ Cardinality(1..(n - 1)) = n - 1
    <3>1. PICK m \in Nat : m = n - 1
      BY <1>3
    <3>2. IsFiniteSet(1..m) /\ Cardinality(1..m) = m
      BY UpTo
    <3> QED BY <3>1, <3>2
  <2>3. IsFiniteSet(R) /\ Cardinality(R) = n - 1
    BY <1>3, <2>1, FS_RemoveElement
  <2> QED BY <2>2, <2>3
<1>5. g \in Injection(1..(n - 1), R)
  BY <1>2 DEF Injection, IsInjective
<1>6. g \in Surjection(1..(n - 1), R)
  BY <1>4, <1>5, FS_Injection
<1>7. PICK m \in 1..(n - 1) : g[m] = k
  BY <1>3, <1>6 DEF Surjection
<1>8. r[m] = q[k] /\ m \in 1..Len(r)
  BY <1>1, <1>2, <1>7
<1> QED BY <1>8 DEF ToSet

\* The rows of a buffer are its places and its elements.
LEMMA RowsTyped ==
    ASSUME NEW q \in Seq(Row)
    PROVE  /\ \A row \in ToSet(q) : row \in Row
           /\ \A x : x \in ToSet(q) <=> \E k \in 1..Len(q) : q[k] = x
  BY DEF ToSet

\* Only optimistic rows give way.
LEMMA ShownStay ==
    ASSUME NEW rows \in Seq(Row), NEW row
    PROVE  /\ ToSet(WithoutEcho(rows, row)) \subseteq ToSet(rows)
           /\ \A x \in ToSet(rows) : x.id # Local => x \in ToSet(WithoutEcho(rows, row))
<1> DEFINE I == {i \in 1..Len(rows) : /\ rows[i].id = Local /\ rows[i].from = row.from
                                      /\ rows[i].text = row.text}
           i == IF I # {} THEN Max(I) ELSE 0
<1>1. WithoutEcho(rows, row) = IF row.id = Local \/ i = 0 THEN rows ELSE RemoveAt(rows, i)
  BY DEF WithoutEcho, SelectLastInSeq
<1>2. i = 0 \/ (i \in 1..Len(rows) /\ rows[i].id = Local)
  <2>1. Len(rows) \in Nat /\ I \in SUBSET (1..Len(rows))
    OBVIOUS
  <2>2. I # {} => Max(I) \in I
    BY <2>1, MaxIs
  <2> QED BY <2>2
<1> HIDE DEF i
<1>3. CASE row.id = Local \/ i = 0
  BY <1>1, <1>3
<1>4. CASE ~(row.id = Local \/ i = 0)
  <2>1. PICK q : q = RemoveAt(rows, i)
    OBVIOUS
  <2>2. i \in 1..Len(rows) /\ rows[i].id = Local
    BY <1>2, <1>4
  <2>3. q \in Seq(Row) /\ Thinned(q, rows) /\ Len(q) = Len(rows) - 1 /\ Skips(q, rows, i)
    BY <2>1, <2>2, RemoveAtThins
  <2>4. ASSUME NEW x \in ToSet(q) PROVE x \in ToSet(rows)
    <3>1. PICK g \in [1..Len(q) -> 1..Len(rows)] : \A k \in 1..Len(q) : q[k] = rows[g[k]]
      BY <2>3 DEF Thinned
    <3>2. PICK k \in 1..Len(q) : q[k] = x
      BY <2>3, <2>4, RowsTyped
    <3> QED BY <3>1, <3>2, RowsTyped
  <2>5. ASSUME NEW x \in ToSet(rows), x.id # Local PROVE x \in ToSet(q)
    <3>1. PICK k \in 1..Len(rows) : rows[k] = x
      BY <2>5, RowsTyped
    <3>2. k # i
      BY <2>2, <2>5, <3>1
    <3> QED BY <2>2, <2>3, <3>1, <3>2, SkipsOne
  <2> QED BY <1>1, <1>4, <2>1, <2>4, <2>5
<1> QED BY <1>3, <1>4

\* A row that is made joins the rows of its message; the others keep theirs.
LEMMA RowsMade ==
    ASSUME NEW b \in Buffer, NEW row \in Row, NEW l, NEW r
    PROVE  \A x : x \in RowsOf(MadeBuf(b, row), l, r) <=>
              x \in RowsOf(b, l, r) \/ (row.id # Local /\ l[row.id].root = r /\ x = row)
<1>1. b.rows \in Seq(Row)
  BY DEF Buffer
<1>2. PICK rest \in Seq(Row) : rest = WithoutEcho(b.rows, row)
  BY <1>1, WithoutEchoIs
<1>3. PICK made \in Seq(Row) : /\ made = Inserted(rest, row) /\ Drawn(made, rest, row)
                               /\ Len(made) = Len(rest) + 1
  BY InsertedIs
<1>4. ToSet(made) = ToSet(rest) \cup {row}
  BY <1>3, DrawnAll
<1>5. /\ ToSet(rest) \subseteq ToSet(b.rows)
      /\ \A x \in ToSet(b.rows) : x.id # Local => x \in ToSet(rest)
  BY <1>1, <1>2, ShownStay
<1>6. MadeBuf(b, row).rows = made
  BY <1>2, <1>3 DEF MadeBuf, Made
<1> QED BY <1>4, <1>5, <1>6 DEF RowsOf

\* The ids a buffer would know a message by.
Met(b) == b.ids \cup b.aliases

\* The rows of a message are places of the buffer.
LEMMA RowsAre ==
    ASSUME NEW b, b.rows \in Seq(Row), NEW l, NEW r, NEW x
    PROVE  x \in RowsOf(b, l, r) <=> \E k \in Shown(b) : b.rows[k] = x /\ l[b.rows[k].id].root = r
  BY RowsTyped DEF RowsOf, Shown

\* A message that no edit has split has one row at most.
LEMMA OnlyRow ==
    ASSUME NEW b, b.rows \in Seq(Row), NEW l, NEW o, RowsDiffer(b, l, o), NEW r, r \notin o,
           NEW x \in RowsOf(b, l, r), NEW y \in RowsOf(b, l, r)
    PROVE  x = y
<1>1. PICK i \in Shown(b) : b.rows[i] = x /\ l[b.rows[i].id].root = r
  BY RowsAre
<1>2. PICK j \in Shown(b) : b.rows[j] = y /\ l[b.rows[j].id].root = r
  BY RowsAre
<1> QED BY <1>1, <1>2 DEF RowsDiffer

\* An edit changes the row of one message.
LEMMA RowsEdited ==
    ASSUME NEW b \in Buffer, NEW e, NEW i, NEW n, NEW id, NEW text, Rewrites(e, b, i, n, id, text),
           NEW l, Len(l) \in Nat, RowsRefer(b, l), n \in 1..Len(l), LocalsPlain(b.rows),
           id \in 1..Len(l), l[id].root = l[n].root
    PROVE  /\ i \in Shown(b) /\ Shown(e) = Shown(b) /\ e.rows \in Seq(Row)
           /\ b.rows[i] \in RowsOf(b, l, l[n].root) /\ e.rows[i] \in RowsOf(e, l, l[n].root)
           /\ \A r : r # l[n].root => RowsOf(e, l, r) = RowsOf(b, l, r)
           /\ Met(e) = Met(b) \cup {n, b.rows[i].id, id}
<1>1. /\ i \in 1..Len(b.rows) /\ Matches(b.rows[i], n)
      /\ e.rows \in Seq(Row) /\ Len(e.rows) = Len(b.rows)
      /\ \A k \in 1..Len(b.rows) : k # i => e.rows[k] = b.rows[k]
      /\ e.rows[i].id = id
      /\ e.ids = IF id = b.rows[i].id THEN b.ids ELSE (b.ids \ {b.rows[i].id}) \cup {id}
      /\ e.aliases = b.aliases \cup {n, b.rows[i].id}
  BY DEF Rewrites
<1>2. b.rows \in Seq(Row)
  BY DEF Buffer
<1>3. PICK r0 : r0 = l[n].root
  OBVIOUS
<1>4. n # 0 /\ id # 0 /\ b.rows[i].id # Local
  BY <1>1 DEF Matches, LocalsPlain, Local
<1>5. l[b.rows[i].id].root = r0
  <2>1. Refers(b.rows[i], l)
    BY <1>1 DEF RowsRefer
  <2> QED BY <1>1, <1>3, <1>4, <2>1 DEF Refers, Matches, Local
<1>6. i \in Shown(b) /\ Shown(e) = Shown(b)
  BY <1>1, <1>4 DEF Shown, Local
<1>7. b.rows[i] \in RowsOf(b, l, r0) /\ e.rows[i] \in RowsOf(e, l, r0)
  BY <1>1, <1>2, <1>3, <1>5, <1>6, RowsAre
<1>8. ASSUME NEW r, r # r0 PROVE RowsOf(e, l, r) = RowsOf(b, l, r)
  <2>1. \A k \in Shown(b) : l[b.rows[k].id].root = r => k # i /\ e.rows[k] = b.rows[k]
    BY <1>1, <1>5, <1>8 DEF Shown
  <2>2. \A k \in Shown(b) : l[e.rows[k].id].root = r => k # i /\ e.rows[k] = b.rows[k]
    BY <1>1, <1>3, <1>8 DEF Shown
  <2>3. ASSUME NEW x \in RowsOf(b, l, r) PROVE x \in RowsOf(e, l, r)
    <3>1. PICK k \in Shown(b) : b.rows[k] = x /\ l[b.rows[k].id].root = r
      BY <1>2, <2>3, RowsAre
    <3>2. k \in Shown(e) /\ e.rows[k] = x /\ l[e.rows[k].id].root = r
      BY <1>6, <2>1, <3>1
    <3> QED BY <1>1, <3>2, RowsAre
  <2>4. ASSUME NEW x \in RowsOf(e, l, r) PROVE x \in RowsOf(b, l, r)
    <3>1. PICK k \in Shown(e) : e.rows[k] = x /\ l[e.rows[k].id].root = r
      BY <1>1, <2>4, RowsAre
    <3>2. k \in Shown(b) /\ b.rows[k] = x /\ l[b.rows[k].id].root = r
      BY <1>6, <2>2, <3>1
    <3> QED BY <1>2, <3>2, RowsAre
  <2> QED BY <2>3, <2>4
<1>9. Met(e) = Met(b) \cup {n, b.rows[i].id, id}
  BY <1>1 DEF Met
<1> QED BY <1>1, <1>3, <1>6, <1>7, <1>8, <1>9

\* A deletion marks rows as deleted, at most.
LEMMA RowsDeleted ==
    ASSUME NEW b \in Buffer, NEW from, NEW n, NEW l, NEW r
    PROVE  /\ \A x \in RowsOf(Deleted(b, from, n), l, r) : \E y \in RowsOf(b, l, r) :
                 /\ y.id = x.id /\ y.of = x.of /\ y.from = x.from /\ y.text = x.text
                 /\ y.deleted => x.deleted
           /\ \A y \in RowsOf(b, l, r) : \E x \in RowsOf(Deleted(b, from, n), l, r) :
                 y.deleted => x.deleted
           /\ Shown(Deleted(b, from, n)) = Shown(b) /\ Met(Deleted(b, from, n)) = Met(b)
<1>1. PICK e \in Buffer : e = Deleted(b, from, n)
  BY DeletedIs
<1>2. /\ e.ids = b.ids /\ e.aliases = b.aliases /\ Len(e.rows) = Len(b.rows)
      /\ \A k \in 1..Len(b.rows) :
            /\ e.rows[k].id = b.rows[k].id /\ e.rows[k].of = b.rows[k].of
            /\ e.rows[k].from = b.rows[k].from /\ e.rows[k].text = b.rows[k].text
            /\ b.rows[k].deleted => e.rows[k].deleted
  BY <1>1, DeletedIs
<1>3. e.rows \in Seq(Row) /\ b.rows \in Seq(Row)
  BY DEF Buffer
<1>4. Shown(e) = Shown(b) /\ Met(e) = Met(b)
  BY <1>2 DEF Shown, Met
<1>5. ASSUME NEW x \in RowsOf(e, l, r)
      PROVE  \E y \in RowsOf(b, l, r) :
                 /\ y.id = x.id /\ y.of = x.of /\ y.from = x.from /\ y.text = x.text
                 /\ y.deleted => x.deleted
  <2>1. PICK k \in Shown(e) : e.rows[k] = x /\ l[e.rows[k].id].root = r
    BY <1>3, RowsAre
  <2>2. k \in 1..Len(b.rows) /\ b.rows[k] \in RowsOf(b, l, r)
    BY <1>2, <1>3, <1>4, <2>1, RowsAre DEF Shown
  <2> QED BY <1>2, <2>1, <2>2
<1>6. ASSUME NEW y \in RowsOf(b, l, r)
      PROVE  \E x \in RowsOf(e, l, r) : y.deleted => x.deleted
  <2>1. PICK k \in Shown(b) : b.rows[k] = y /\ l[b.rows[k].id].root = r
    BY <1>3, RowsAre
  <2>2. k \in 1..Len(b.rows) /\ e.rows[k] \in RowsOf(e, l, r)
    BY <1>2, <1>3, <1>4, <2>1, RowsAre DEF Shown
  <2> QED BY <1>2, <2>1, <2>2
<1> QED BY <1>1, <1>4, <1>5, <1>6

\* A deletion that names the row of a message by one of its ids finds it.
LEMMA DeletedHit ==
    ASSUME NEW b \in Buffer, NEW l, Len(l) \in Nat, RowsRefer(b, l), LocalsPlain(b.rows),
           NEW o, RowsDiffer(b, l, o), NEW n \in 1..Len(l), l[n].root \notin o,
           NEW y \in RowsOf(b, l, l[n].root), y.id = n \/ y.of = n, NEW from, y.from = from
    PROVE  \E x \in RowsOf(Deleted(b, from, n), l, l[n].root) : x.deleted
<1>1. b.rows \in Seq(Row) /\ n # 0
  BY DEF Buffer
<1>2. PICK k \in Shown(b) : b.rows[k] = y /\ l[b.rows[k].id].root = l[n].root
  BY <1>1, RowsAre
<1>3. k \in 1..Len(b.rows) /\ Matches(b.rows[k], n)
  BY <1>1, <1>2 DEF Shown, Matches
<1>4. PICK i : i = LastNamed(b.rows, n)
  OBVIOUS
<1>5. i \in 1..Len(b.rows) /\ Matches(b.rows[i], n)
  <2>1. i \in 0..Len(b.rows) /\ (i # 0 => Matches(b.rows[i], n)) /\ i # 0
    BY <1>1, <1>3, <1>4, LastNamedIs
  <2> QED BY <1>1, <2>1
<1>6. b.rows[i].id # Local
  BY <1>1, <1>5 DEF Matches, LocalsPlain, Local
<1>7. l[b.rows[i].id].root = l[n].root
  <2>1. Refers(b.rows[i], l)
    BY <1>5 DEF RowsRefer
  <2> QED BY <1>1, <1>5, <1>6, <2>1 DEF Refers, Matches, Local
<1>8. i = k
  BY <1>2, <1>5, <1>6, <1>7 DEF RowsDiffer, Shown
<1>9. Deleted(b, from, n) = [b EXCEPT !.rows[i].deleted = TRUE]
  BY <1>2, <1>4, <1>5, <1>8 DEF Deleted
<1>10. PICK e : e = Deleted(b, from, n)
  OBVIOUS
<1>11. e.rows[i].deleted
  <2>1. b.rows[i] \in Row
    BY <1>1, <1>5
  <2>2. e.rows[i].deleted = TRUE
    BY <1>1, <1>5, <1>9, <1>10, <2>1 DEF Buffer, Row
  <2> QED BY <2>2
<1>12. e.rows[i].id = b.rows[i].id /\ e \in Buffer /\ Shown(e) = Shown(b)
  <2>1. /\ e \in Buffer /\ Len(e.rows) = Len(b.rows)
        /\ \A j \in 1..Len(b.rows) : e.rows[j].id = b.rows[j].id
    BY <1>10, DeletedIs
  <2>2. Shown(e) = Shown(b)
    BY <2>1 DEF Shown
  <2> QED BY <1>5, <2>1, <2>2
<1>13. e.rows[i] \in RowsOf(e, l, l[n].root)
  <2>1. e.rows \in Seq(Row)
    BY <1>12 DEF Buffer
  <2> QED BY <1>2, <1>7, <1>8, <1>12, <2>1, RowsAre
<1> QED BY <1>10, <1>11, <1>13

---------------------------------------------------------------------------
(* The buffer has room for all that is said                                *)

\* What the server logged, what is on its way there and what never gets there.
Load  == Len(log) + Many(up, {"post"}) + lost
Roomy == Load <= MaxRows

\* Each row of the server has brought an id of its own.
Few(b) == Cardinality(Shown(b)) <= Cardinality(Met(b))

\* A row has a msgid or is optimistic.
LEMMA RowsCount ==
    ASSUME NEW b, b.rows \in Seq(Row)
    PROVE  /\ IsFiniteSet(Shown(b)) /\ Cardinality(Shown(b)) \in Nat
           /\ IsFiniteSet(Pending(b.rows)) /\ Cardinality(Pending(b.rows)) \in Nat
           /\ Len(b.rows) = Cardinality(Shown(b)) + Cardinality(Pending(b.rows))
<1>1. PICK n \in Nat : n = Len(b.rows)
  OBVIOUS
<1>2. IsFiniteSet(1..n) /\ Cardinality(1..n) = n
  BY UpTo
<1>3. /\ Shown(b) \in SUBSET (1..n) /\ Pending(b.rows) \in SUBSET (1..n)
      /\ Shown(b) \cup Pending(b.rows) = 1..n /\ Shown(b) \cap Pending(b.rows) = {}
  BY <1>1 DEF Shown, Pending
<1>4. IsFiniteSet(Shown(b)) /\ IsFiniteSet(Pending(b.rows))
  BY <1>2, <1>3, FS_Subset
<1>5. Cardinality(Shown(b)) \in Nat /\ Cardinality(Pending(b.rows)) \in Nat
  BY <1>4, FS_CardinalityType
<1>6. Cardinality(Shown(b) \cup Pending(b.rows)) =
         Cardinality(Shown(b)) + Cardinality(Pending(b.rows))
         - Cardinality(Shown(b) \cap Pending(b.rows))
  BY <1>4, FS_Union
<1>7. Cardinality(Shown(b) \cap Pending(b.rows)) = 0
  BY <1>3, FS_EmptySet
<1>8. Cardinality(Shown(b) \cup Pending(b.rows)) = n
  BY <1>2, <1>3
<1>9. n = Cardinality(Shown(b)) + Cardinality(Pending(b.rows))
  BY <1>5, <1>6, <1>7, <1>8
<1> QED BY <1>1, <1>4, <1>5, <1>9

\* One row more of the server at most, none for an optimistic one.
LEMMA ShownMade ==
    ASSUME NEW b \in Buffer, NEW row \in Row
    PROVE  /\ row.id = Local => Cardinality(Shown(MadeBuf(b, row))) <= Cardinality(Shown(b))
           /\ Cardinality(Shown(MadeBuf(b, row))) <= Cardinality(Shown(b)) + 1
<1>1. PICK e : e = MadeBuf(b, row)
  OBVIOUS
<1>2. e.rows \in Seq(Row) /\ Drawn(e.rows, b.rows, row) /\ b.rows \in Seq(Row)
  <2>1. Made(b, row) \in Seq(Row) /\ Drawn(Made(b, row), b.rows, row)
    BY MadeIs
  <2>2. e.rows = Made(b, row)
    BY <1>1 DEF MadeBuf
  <2> QED BY <2>1, <2>2 DEF Buffer
<1>3. PICK g \in [1..Len(e.rows) -> 0..Len(b.rows)] :
        /\ \A k, m \in 1..Len(e.rows) : g[k] = g[m] => k = m
        /\ \A k \in 1..Len(e.rows) : e.rows[k] = IF g[k] = 0 THEN row ELSE b.rows[g[k]]
  BY <1>2 DEF Drawn
<1>4. ASSUME NEW k \in Shown(e) PROVE (g[k] = 0 /\ row.id # Local) \/ g[k] \in Shown(b)
  <2>1. k \in 1..Len(e.rows) /\ e.rows[k].id # Local /\ g[k] \in 0..Len(b.rows)
    BY DEF Shown
  <2> QED BY <1>3, <2>1 DEF Shown
<1> DEFINE f == [k \in Shown(e) |-> g[k]]
<1>5. /\ IsFiniteSet(Shown(b)) /\ Cardinality(Shown(b)) \in Nat
      /\ IsFiniteSet(Shown(e)) /\ Cardinality(Shown(e)) \in Nat
  BY <1>2, RowsCount
<1>6. \A k, m \in Shown(e) : f[k] = f[m] => k = m
  BY <1>3 DEF Shown
<1>7. CASE row.id = Local
  <2>1. f \in [Shown(e) -> Shown(b)]
    BY <1>4, <1>7
  <2> HIDE DEF f
  <2>2. f \in Injection(Shown(e), Shown(b))
    BY <1>6, <2>1 DEF Injection, IsInjective
  <2>3. Cardinality(Shown(e)) <= Cardinality(Shown(b))
    BY <1>5, <2>2, FS_Injection
  <2> QED BY <1>1, <1>5, <2>3
<1>8. CASE row.id # Local
  <2>1. f \in [Shown(e) -> Shown(b) \cup {0}]
    BY <1>4
  <2> HIDE DEF f
  <2>2. f \in Injection(Shown(e), Shown(b) \cup {0})
    BY <1>6, <2>1 DEF Injection, IsInjective
  <2>3. /\ IsFiniteSet(Shown(b) \cup {0})
        /\ Cardinality(Shown(b) \cup {0}) <= Cardinality(Shown(b)) + 1
    <3>1. /\ IsFiniteSet(Shown(b) \cup {0})
          /\ Cardinality(Shown(b) \cup {0}) =
                IF 0 \in Shown(b) THEN Cardinality(Shown(b)) ELSE Cardinality(Shown(b)) + 1
      BY <1>5, FS_AddElement
    <3> QED BY <1>5, <3>1
  <2>4. Cardinality(Shown(e)) <= Cardinality(Shown(b) \cup {0})
    BY <1>5, <2>2, <2>3, FS_Injection
  <2> QED BY <1>1, <1>5, <1>8, <2>3, <2>4, FS_CardinalityType
<1> QED BY <1>7, <1>8

\* The echoes that will bring a row, and the ids the buffer has, are all different
\* and all logged.
LEMMA ComersFit ==
    ASSUME IInv, EchoInv, NEW c \in SUBSET Comers(wire, buf), NEW M, M \in SUBSET (1..Len(log)),
           \A i \in c : wire[i].id \notin M
    PROVE  LET S == {wire[i].id : i \in c} IN
           /\ IsFiniteSet(S) /\ Cardinality(S) \in Nat
           /\ IsFiniteSet(M) /\ Cardinality(M) \in Nat
           /\ Cardinality(S) + Cardinality(M) <= Len(log)
           /\ [i \in c |-> wire[i].id] \in [c -> S]
           /\ \A i, j \in c : wire[i].id = wire[j].id => i = j
<1> DEFINE S == {wire[i].id : i \in c}
           L == 1..Len(log)
<1>1. PICK n \in Nat : n = Len(log)
  BY LogIs
<1>2. IsFiniteSet(L) /\ Cardinality(L) = n
  BY <1>1, UpTo
<1>3. ASSUME NEW i \in c PROVE i \in 1..Len(wire) /\ wire[i].kind = "post" /\ wire[i].id \in L
  <2>1. i \in 1..Len(wire) /\ wire[i].kind = "post"
    BY DEF Comers
  <2>2. Carries(wire[i], log)
    BY <2>1 DEF IInv, WireSound
  <2> QED BY <2>1, <2>2 DEF Carries
<1>4. ASSUME NEW i \in c, NEW j \in c, wire[i].id = wire[j].id PROVE i = j
  <2>1. i \in Nat /\ j \in Nat /\ wire[i].kind # "delete" /\ wire[j].kind # "delete"
    BY <1>3
  <2>2. ~(i < j) /\ ~(j < i)
    BY <1>4, <2>1 DEF Comers
  <2> QED BY <2>1, <2>2
<1>5. S \in SUBSET L /\ S \cap M = {} /\ S \cup M \in SUBSET L
  BY <1>3
<1>6. /\ IsFiniteSet(S) /\ Cardinality(S) \in Nat /\ IsFiniteSet(M) /\ Cardinality(M) \in Nat
      /\ Cardinality(S \cup M) \in Nat /\ Cardinality(S \cup M) <= n
  <2>1. IsFiniteSet(S) /\ IsFiniteSet(M) /\ IsFiniteSet(S \cup M) /\ Cardinality(S \cup M) <= n
    BY <1>2, <1>5, FS_Subset
  <2> QED BY <2>1, FS_CardinalityType
<1> HIDE DEF S, L
<1>7. Cardinality(S \cup M) = Cardinality(S) + Cardinality(M) - Cardinality(S \cap M)
  BY <1>6, FS_Union
<1>8. Cardinality(S \cap M) = 0
  BY <1>5, FS_EmptySet
<1>9. Cardinality(S) + Cardinality(M) <= n
  BY <1>6, <1>7, <1>8
<1> QED BY <1>1, <1>4, <1>6, <1>9 DEF S

\* What the buffer has met was logged.
LEMMA MetLogged ==
    ASSUME IInv, EchoInv
    PROVE  Met(buf) \in SUBSET (1..Len(log))
<1>1. Met(buf) \subseteq Ids /\ Met(buf) \subseteq 0..Len(log) /\ Len(log) \in Nat
  <2>1. buf \in Buffer /\ Met(buf) \subseteq Names(buf)
    BY LinesTyped DEF Met, Names
  <2> QED BY <2>1, LogIs DEF EchoInv, Buffer, Met
<1> QED BY <1>1 DEF Ids

\* The number of requests of some kinds is a natural number.
LEMMA ManyIn ==
    ASSUME IInv, NEW kinds PROVE Many(up, kinds) \in Nat
  BY LinesTyped, ManyPlaces

\* As long as each row has brought an id, there are not more rows than the load.
LEMMA RowsFit ==
    ASSUME IInv, EchoInv, Few(buf)
    PROVE  Len(buf.rows) <= Load
<1> DEFINE c == Comers(wire, buf)
           S == {wire[i].id : i \in c}
           p == [i \in c |-> wire[i].id]
<1>1. \A i \in c : wire[i].id \notin Met(buf)
  BY DEF Comers, Names, Met
<1>2. /\ IsFiniteSet(S) /\ Cardinality(S) \in Nat /\ Cardinality(Met(buf)) \in Nat
      /\ Cardinality(S) + Cardinality(Met(buf)) <= Len(log)
      /\ p \in [c -> S] /\ \A i, j \in c : wire[i].id = wire[j].id => i = j
  BY <1>1, MetLogged, ComersFit
<1>3. \A i, j \in c : p[i] = p[j] => i = j
  BY <1>2
<1> HIDE DEF p, S, c
<1>4. /\ Cardinality(Pending(buf.rows)) \in Nat
      /\ Cardinality(Pending(buf.rows)) <= Many(up, {"post"}) + Cardinality(S) + lost
  <2>1. Awaited(buf.rows, wire, c, up, lost)
    BY DEF EchoInv, c
  <2>2. IsFiniteSet(S) /\ p \in [c -> S]
    BY <1>2
  <2>3. Parted(p, c, S)
    BY <1>2, <1>3, <2>2 DEF Parted
  <2>4. buf.rows \in Seq(Row)
    BY LinesTyped
  <2>5. Bounded(buf.rows, up, S, lost)
    BY <2>1, <2>3, <2>4, PendingNow
  <2> QED BY <2>5 DEF Bounded
<1>5. /\ Cardinality(Shown(buf)) \in Nat
      /\ Len(buf.rows) = Cardinality(Shown(buf)) + Cardinality(Pending(buf.rows))
  BY LinesTyped, RowsCount
<1>6. Many(up, {"post"}) \in Nat /\ lost \in Nat /\ Len(log) \in Nat
  BY LinesTyped, LogIs, ManyIn
<1> QED BY <1>2, <1>4, <1>5, <1>6 DEF Few, Load

\* The row a line brings finds room.
LEMMA LineFits ==
    ASSUME IInv, EchoInv, Few(buf), wire # <<>>, NEW row \in Row, row = RowOf(wire[1]),
           wire[1].kind # "delete", wire[1].id \in 1..Len(log), wire[1].from \in Nicks,
           Fresh(buf, row)
    PROVE  Len(Made(buf, row)) <= Load /\ Few(MadeBuf(buf, row))
<1> DEFINE c == Comers(wire, buf) \ {1}
           S == {wire[i].id : i \in c}
           p == [i \in c |-> wire[i].id]
           M == Met(buf) \cup {row.id}
<1>1. /\ row.id = wire[1].id /\ row.id # Local /\ row.id \notin Met(buf)
  BY DEF RowOf, Local, Fresh, Met
<1>2. \A i \in c : wire[i].id \notin M /\ i \in 1..Len(wire) /\ i # 1
  BY <1>1 DEF Comers, Names, Met
<1>3. M \in SUBSET (1..Len(log)) /\ c \in SUBSET Comers(wire, buf)
  BY <1>1, MetLogged
<1>4. /\ IsFiniteSet(S) /\ Cardinality(S) \in Nat /\ IsFiniteSet(M) /\ Cardinality(M) \in Nat
      /\ Cardinality(S) + Cardinality(M) <= Len(log)
      /\ p \in [c -> S] /\ \A i, j \in c : wire[i].id = wire[j].id => i = j
  <2> HIDE DEF c, M
  <2> QED BY <1>2, <1>3, ComersFit DEF S, p
<1>5. \A i, j \in c : p[i] = p[j] => i = j
  BY <1>4
<1>6. Cardinality(M) = Cardinality(Met(buf)) + 1 /\ Cardinality(Met(buf)) \in Nat
  <2>1. IsFiniteSet(Met(buf))
    BY <1>4, FS_Subset
  <2> QED BY <1>1, <2>1, FS_AddElement, FS_CardinalityType
<1> HIDE DEF p, S, M, c
<1>7. PICK e : e = MadeBuf(buf, row)
  OBVIOUS
<1>8. e.rows = Made(buf, row) /\ e.rows \in Seq(Row) /\ Met(e) = M
  <2>1. e.rows = Made(buf, row) /\ e.ids = Known(buf, row) /\ e.aliases = buf.aliases
    BY <1>7 DEF MadeBuf
  <2>2. Made(buf, row) \in Seq(Row)
    BY LinesTyped, MadeIs
  <2> QED BY <1>1, <2>1, <2>2 DEF Met, Known, M
<1>9. Awaited(e.rows, wire, c, up, lost)
  <2>1. PICK rest \in Seq(Row) : /\ rest = WithoutEcho(buf.rows, row)
                                 /\ Awaited(rest, wire, c, up, lost)
    BY <1>1, EchoRest DEF c
  <2>2. Drawn(e.rows, rest, row)
    BY <1>8, <2>1, InsertedIs DEF Made
  <2> QED BY <1>1, <1>8, <2>1, <2>2, DrawnPending
<1>10. /\ Cardinality(Pending(e.rows)) \in Nat
       /\ Cardinality(Pending(e.rows)) <= Many(up, {"post"}) + Cardinality(S) + lost
  <2>1. Parted(p, c, S)
    BY <1>4, <1>5 DEF Parted
  <2>2. e.rows \in Seq(Row)
    BY <1>8
  <2>3. Bounded(e.rows, up, S, lost)
    BY <1>9, <2>1, <2>2, PendingNow
  <2> QED BY <2>3 DEF Bounded
<1>11. /\ Cardinality(Shown(e)) \in Nat
       /\ Len(e.rows) = Cardinality(Shown(e)) + Cardinality(Pending(e.rows))
  BY <1>8, RowsCount
<1>12. Cardinality(Shown(e)) <= Cardinality(M)
  <2>1. Cardinality(Shown(e)) <= Cardinality(Shown(buf)) + 1
    BY <1>7, LinesTyped, ShownMade
  <2>2. Cardinality(Shown(buf)) \in Nat /\ Cardinality(Shown(buf)) <= Cardinality(Met(buf))
    BY LinesTyped, RowsCount DEF Few
  <2> QED BY <1>6, <1>11, <2>1, <2>2
<1>13. Many(up, {"post"}) \in Nat /\ lost \in Nat /\ Len(log) \in Nat
  BY LinesTyped, LogIs, ManyIn
<1>14. Len(e.rows) <= Load
  BY <1>4, <1>10, <1>11, <1>12, <1>13 DEF Load
<1> QED BY <1>7, <1>8, <1>12, <1>14 DEF Few

\* Without a row too many, appending drops none.
LEMMA AppendedRoom ==
    ASSUME NEW b \in Buffer, NEW row \in Row, Len(Made(b, row)) <= MaxRows, Fresh(b, row)
    PROVE  Appended(b, row) = MadeBuf(b, row)
<1>1. Len(Made(b, row)) \in Nat /\ MaxRows \in Nat
  BY MadeIs, LimitsAssumption
<1>2. ~(Len(Made(b, row)) > MaxRows)
  BY <1>1
<1> QED BY <1>2, AppendedIs DEF MadeBuf

---------------------------------------------------------------------------
(* What is true of one message while lines about it are on their way       *)

\* The lines that delete r, and the user's edits of it.
Removes(l, r)   == {m \in Deletion : l[m.names].root = r}
Rewriting(l, r) == {q \in Request : q.kind = "edit" /\ l[q.names].root = r}

\* The row has the text of its version, or it will get another one: an edit of the
\* user is on its way there, or a version on its way back.
Told(b, l, u, r, row) ==
    \/ row.text = l[row.id].text
    \/ ~Lacks(u, Rewriting(l, r))
    \/ \E v \in VersionsOf(l, r) : v \notin Met(b)

\* An edit the buffer has met was of the original or of the version before it.
Chained(b, l, r) ==
    \A v \in VersionsOf(l, r) \cap Met(b) :
        v = r \/ l[v].names = r \/ ~Gap(l, r, l[v].names, v)

Current(b, l, u, r, row) ==
    /\ \A v \in VersionsOf(l, r) : v <= row.id => v \in Met(b)
    /\ Chained(b, l, r)
    /\ Told(b, l, u, r, row)

OnItsWay(b, w, l, u, r) ==
    /\ RowsOf(b, l, r) = {} => Path(w, l, r, 0)
    /\ \A row \in RowsOf(b, l, r) :
          ~row.deleted => Path(w, l, r, row.id) /\ Current(b, l, u, r, row)

\* Deleted on the server: there is a tombstone, or there will be one.
Buried(b, w, l, r) ==
    \/ \E row \in RowsOf(b, l, r) : row.deleted
    \/ After(w, Removes(l, r), Brings(r), FALSE)

Tracked(b, w, l, u, g, r) ==
    /\ r \in g => Buried(b, w, l, r)
    /\ r \notin g => OnItsWay(b, w, l, u, r)
    /\ RowsOf(b, l, r) # {} \/ LinesOf(w, r) # {}

---------------------------------------------------------------------------
(* What is not about r does not disturb it                                 *)

SameVersions(l, k, r) == /\ VersionsOf(k, r) = VersionsOf(l, r)
                         /\ \A v \in VersionsOf(l, r) : k[v] = l[v]

\* The rows of r are what they were, tombstones aside.
RowsFollow(b, e, l, k, r) ==
    /\ \A x \in RowsOf(e, k, r) : \E y \in RowsOf(b, l, r) :
          y.id = x.id /\ y.text = x.text /\ (y.deleted => x.deleted)
    /\ \A y \in RowsOf(b, l, r) : \E x \in RowsOf(e, k, r) : y.deleted => x.deleted
    /\ Met(e) \cap VersionsOf(l, r) = Met(b) \cap VersionsOf(l, r)

\* The lines about r are what they were, or more that end well.
LinesFollow(w, z, l, k, r) ==
    /\ \A x \in Nat : Path(w, l, r, x) => Path(z, k, r, x)
    /\ After(w, Removes(l, r), Brings(r), FALSE) => After(z, Removes(k, r), Brings(r), FALSE)
    /\ LinesOf(w, r) # {} => LinesOf(z, r) # {}

EditsFollow(u, v, l, k, r) == Lacks(v, Rewriting(k, r)) => Lacks(u, Rewriting(l, r))

\* What does not disturb the rows, lines and edits of r leaves it tracked.
LEMMA TrackedOn ==
    ASSUME NEW b, NEW e, NEW w, NEW z, NEW l, NEW k, NEW u, NEW v, NEW g, NEW h, NEW r,
           Tracked(b, w, l, u, g, r), SameVersions(l, k, r), RowsFollow(b, e, l, k, r),
           LinesFollow(w, z, l, k, r), r \notin g => EditsFollow(u, v, l, k, r),
           r \in g <=> r \in h,
           \A row \in RowsOf(b, l, r) : row.id \in VersionsOf(l, r) /\ row.id \in Nat
    PROVE  Tracked(e, z, k, v, h, r)
<1>1. RowsOf(b, l, r) = {} <=> RowsOf(e, k, r) = {}
  BY DEF RowsFollow
<1>2. RowsOf(e, k, r) # {} \/ LinesOf(z, r) # {}
  BY <1>1 DEF Tracked, LinesFollow
<1>3. ASSUME r \in h PROVE Buried(e, z, k, r)
  <2>1. Buried(b, w, l, r)
    BY <1>3 DEF Tracked
  <2> QED BY <2>1 DEF Buried, RowsFollow, LinesFollow
<1>4. ASSUME r \notin h PROVE OnItsWay(e, z, k, v, r)
  <2>1. OnItsWay(b, w, l, u, r)
    BY <1>4 DEF Tracked
  <2>2. RowsOf(e, k, r) = {} => Path(z, k, r, 0)
    BY <1>1, <2>1 DEF OnItsWay, LinesFollow
  <2>3. ASSUME NEW x \in RowsOf(e, k, r), ~x.deleted
        PROVE  Path(z, k, r, x.id) /\ Current(e, k, v, r, x)
    <3>1. PICK y \in RowsOf(b, l, r) : y.id = x.id /\ y.text = x.text /\ ~y.deleted
      BY <2>3 DEF RowsFollow
    <3>2. Path(w, l, r, y.id) /\ Current(b, l, u, r, y) /\ y.id \in Nat
      BY <2>1, <3>1 DEF OnItsWay
    <3>3. Path(z, k, r, x.id)
      BY <3>1, <3>2 DEF LinesFollow
    <3>4. \A i \in VersionsOf(k, r) : i <= x.id => i \in Met(e)
      BY <3>1, <3>2 DEF Current, SameVersions, RowsFollow
    <3>5. Chained(e, k, r)
      <4>1. Chained(b, l, r) /\ \A i, j : Gap(k, r, i, j) <=> Gap(l, r, i, j)
        BY <3>2 DEF Current, Gap, SameVersions
      <4> QED BY <4>1 DEF Chained, SameVersions, RowsFollow
    <3>6. Told(e, k, v, r, x)
      <4>1. Told(b, l, u, r, y)
        BY <3>2 DEF Current
      <4>2. k[x.id] = l[y.id]
        BY <3>1 DEF SameVersions
      <4>3. CASE y.text = l[y.id].text
        BY <3>1, <4>2, <4>3 DEF Told
      <4>4. CASE ~Lacks(u, Rewriting(l, r))
        BY <1>4, <4>4 DEF Told, EditsFollow
      <4>5. CASE \E i \in VersionsOf(l, r) : i \notin Met(b)
        BY <4>5 DEF Told, SameVersions, RowsFollow
      <4> QED BY <4>1, <4>3, <4>4, <4>5 DEF Told
    <3> QED BY <3>3, <3>4, <3>5, <3>6 DEF Current
  <2> QED BY <2>2, <2>3 DEF OnItsWay
<1> QED BY <1>2, <1>3, <1>4 DEF Tracked

\* Nothing is disturbed by a step that leaves the rows alone ...
LEMMA RowsFollowSelf == \A b, l, r : RowsFollow(b, b, l, l, r)
  BY DEF RowsFollow

\* ... or the lines ...
LEMMA LinesFollowSelf == \A w, l, r : LinesFollow(w, w, l, l, r)
  BY DEF LinesFollow

\* ... or the log.
LEMMA SameVersionsSelf == \A l, r : SameVersions(l, l, r)
  BY DEF SameVersions

\* A line about another message is handled.
LEMMA LinesTail ==
    ASSUME NEW w \in Seq(Entry \cup Deletion), w # <<>>, NEW l, NEW r,
           w[1] \notin Brings(r), w[1] \notin Removes(l, r)
    PROVE  LinesFollow(w, Tail(w), l, l, r)
<1>1. 1 \notin LinesOf(w, r)
  BY DEF LinesOf
<1>2. \A x \in Nat : Path(w, l, r, x) => Path(Tail(w), l, r, x)
  BY <1>1, PathTailOther
<1>3. PICK no \in BOOLEAN : no = FALSE
  OBVIOUS
<1>4. After(w, Removes(l, r), Brings(r), no) => After(Tail(w), Removes(l, r), Brings(r), no)
  <2>1. Head(w) \notin Removes(l, r)
    OBVIOUS
  <2> QED BY <1>3, <2>1, AfterTail
<1>5. LinesOf(w, r) # {} => LinesOf(Tail(w), r) # {}
  <2>1. PICK q : q = Tail(w)
    OBVIOUS
  <2>2. \A i \in 1..Len(w) : i = 1 \/ (i - 1 \in 1..Len(q) /\ q[i - 1] = w[i])
    BY <2>1, TailAt
  <2> QED BY <1>1, <2>1, <2>2 DEF LinesOf
<1> QED BY <1>2, <1>3, <1>4, <1>5 DEF LinesFollow

\* A line about another message, or a deletion, comes last.
LEMMA LinesAppend ==
    ASSUME NEW w \in Seq(Entry \cup Deletion), NEW m \in Entry \cup Deletion, NEW l, NEW k, NEW r,
           m \notin Brings(r), SameVersions(l, k, r),
           \A i \in 1..Len(w) : w[i] \in Removes(l, r) => w[i] \in Removes(k, r)
    PROVE  LinesFollow(w, Append(w, m), l, k, r)
<1>1. PICK z : z = Append(w, m)
  OBVIOUS
<1>2. /\ Len(w) \in Nat /\ Len(z) = Len(w) + 1 /\ z[Len(w) + 1] = m
      /\ \A i \in 1..Len(w) : z[i] = w[i]
  BY <1>1
<1>3. LinesOf(z, r) = LinesOf(w, r) /\ \A i \in LinesOf(w, r) : i # 0 /\ z[i].id = w[i].id
  BY <1>2 DEF LinesOf
<1>4. \A x : Path(w, l, r, x) => Path(z, k, r, x)
  BY <1>3, PathSame DEF SameVersions
<1>5. After(w, Removes(l, r), Brings(r), FALSE) => After(w, Removes(k, r), Brings(r), FALSE)
  BY DEF After
<1>6. PICK no \in BOOLEAN : no = FALSE
  OBVIOUS
<1>7. After(w, Removes(k, r), Brings(r), no) => After(z, Removes(k, r), Brings(r), no)
  BY <1>1, AfterKept
<1> QED BY <1>1, <1>3, <1>4, <1>5, <1>6, <1>7 DEF LinesFollow

\* The log grows by what is not about r.
LEMMA LinesLater ==
    ASSUME NEW w \in Seq(Entry \cup Deletion), NEW l, NEW k, NEW r, SameVersions(l, k, r),
           \A i \in 1..Len(w) : w[i] \in Removes(l, r) => w[i] \in Removes(k, r)
    PROVE  LinesFollow(w, w, l, k, r)
<1>1. \A i \in LinesOf(w, r) : i # 0
  BY DEF LinesOf
<1>2. \A x : Path(w, l, r, x) => Path(w, k, r, x)
  BY <1>1, PathSame DEF SameVersions
<1> QED BY <1>2 DEF LinesFollow, After

\* A reply to CHATHISTORY brings no deletions, and nothing of a deleted message.
LEMMA ReplayLines ==
    ASSUME log \in Seq(Entry), NEW r \in gone
    PROVE  LinesOf(Replay, r) = {}
<1>1. PICK n \in Nat : \E f \in [1..n -> 1..Len(log)] :
         /\ Len(Replay) = n
         /\ \A k \in 1..n : Replay[k] = log[f[k]] /\ log[f[k]].root \notin gone
  BY ReplayIs
<1> QED BY <1>1 DEF LinesOf, Brings

\* Of a message that is deleted a reply brings nothing, so that has no gap either.
LEMMA RunsAll ==
    ASSUME log \in Seq(Entry), \A i \in 1..Len(log) : log[i].id = i, NEW r
    PROVE  Runs(Replay, log, r)
<1>1. CASE r \in gone
  BY <1>1, ReplayLines DEF Runs
<1> QED BY <1>1, ReplayRuns

\* A reply behind the lines disturbs no message.
LEMMA LinesReplay ==
    ASSUME IInv, NEW r, r \notin gone => Lacks(wire, Removes(log, r))
    PROVE  LinesFollow(wire, wire \o Replay, log, log, r)
<1>1. PICK w \in Seq(Entry \cup Deletion) : w = wire
  BY LinesTyped
<1>2. Replay \in Seq(Entry)
  BY LogIs, ReplayIs
<1>3. PICK p \in Seq(Entry \cup Deletion) : p = Replay
  BY <1>2
<1>4. Runs(p, log, r) /\ Len(log) \in Nat
  BY <1>3, LogIs, RunsAll DEF IInv, LogSound
<1>5. PICK z : z = w \o p
  OBVIOUS
<1>6. /\ Len(w) \in Nat /\ Len(p) \in Nat /\ Len(z) = Len(w) + Len(p)
      /\ \A i \in 1..Len(w) : z[i] = w[i]
      /\ \A i \in 1..Len(z) : i > Len(w) => \E j \in 1..Len(p) : z[i] = p[j]
  BY <1>5, ConcatAt
<1>7. \A k \in LinesOf(w, r) : w[k].id \in Nat
  BY DEF LinesOf, Brings, Entry, Ids
<1>8. \A x \in Nat : Path(w, log, r, x) => Path(z, log, r, x)
  BY <1>4, <1>5, <1>7, PathReplay
<1>9. LinesOf(w, r) # {} => LinesOf(z, r) # {}
  <2>1. \A k \in LinesOf(w, r) : k \in LinesOf(z, r)
    BY <1>6 DEF LinesOf
  <2> QED BY <2>1
<1>10. ASSUME After(w, Removes(log, r), Brings(r), FALSE)
       PROVE  After(z, Removes(log, r), Brings(r), FALSE)
  <2>1. PICK i \in 1..Len(w) : /\ w[i] \in Removes(log, r)
                               /\ \A j \in (i + 1)..Len(w) : w[j] \notin Brings(r)
    BY <1>10 DEF After
  <2>2. r \in gone
    BY <1>1, <2>1 DEF Lacks
  <2>3. LinesOf(p, r) = {}
    BY <1>3, <2>2, LogIs, ReplayLines
  <2>4. i \in 1..Len(z) /\ z[i] \in Removes(log, r)
    BY <1>6, <2>1
  <2>5. ASSUME NEW j \in (i + 1)..Len(z) PROVE z[j] \notin Brings(r)
    <3>1. CASE j <= Len(w)
      <4>1. j \in 1..Len(w) /\ j \in (i + 1)..Len(w)
        BY <1>6, <3>1
      <4> QED BY <1>6, <2>1, <4>1
    <3>2. CASE j > Len(w)
      <4>1. j \in 1..Len(z)
        BY <1>6
      <4> QED BY <1>6, <2>3, <3>2, <4>1 DEF LinesOf
    <3> QED BY <1>6, <3>1, <3>2
  <2> QED BY <2>4, <2>5 DEF After
<1> QED BY <1>1, <1>3, <1>5, <1>8, <1>9, <1>10 DEF LinesFollow

\* A message of which only the reply tells is tracked from there.
LEMMA RestoredTracked ==
    ASSUME IInv, NEW r \in Restored, NEW u
    PROVE  Tracked(buf, wire \o Replay, log, u, gone, r)
<1>1. PICK w \in Seq(Entry \cup Deletion) : w = wire
  BY LinesTyped
<1>2. PICK n \in Nat : \E f \in [1..n -> 1..Len(log)] :
         /\ Replay \in Seq(Entry) /\ Len(Replay) = n
         /\ \A k \in 1..n : Replay[k] = log[f[k]] /\ log[f[k]].root \notin gone
  BY LogIs, ReplayIs
<1>3. PICK p \in Seq(Entry \cup Deletion) : p = Replay
  BY <1>2
<1>4. /\ Runs(p, log, r) /\ Len(log) \in Nat
      /\ \A i \in 1..Len(log) : log[i] \in Entry /\ log[i].id = i
  BY <1>3, LogIs, RunsAll DEF IInv, LogSound
<1>5. r \in 1..Len(log) /\ log[r].root = r
  BY DEF Restored
<1>6. RowsOf(buf, log, r) = {}
  BY DEF Restored, RowsOf
<1>7. LinesOf(w, r) = {}
  <2> SUFFICES ASSUME NEW k \in 1..Len(w), w[k] \in Brings(r) PROVE FALSE
    BY DEF LinesOf
  <2>1. w[k] \in ToSet(wire) /\ w[k].kind # "delete" /\ w[k].root = r
    BY <1>1 DEF ToSet, Brings, Entry
  <2> QED BY <2>1 DEF Restored, RootOf
<1>8. ASSUME NEW v \in VersionsOf(log, r)
      PROVE  r \notin gone /\ \E j \in LinesOf(p, r) : p[j].id = v
  <2>1. v \in 1..Len(log) /\ log[v].root = r /\ log[v] \in ToSet(log)
    BY DEF VersionsOf, ToSet
  <2>2. log[v] \in ToSet(Replay)
    BY <2>1 DEF Restored
  <2>3. PICK j \in 1..n : p[j] = log[v]
    BY <1>2, <1>3, <2>2 DEF ToSet
  <2>4. r \notin gone
    BY <1>2, <1>3, <2>1, <2>3
  <2>5. j \in LinesOf(p, r) /\ p[j].id = v
    BY <1>2, <1>3, <1>4, <2>1, <2>3 DEF LinesOf, Brings
  <2> QED BY <2>4, <2>5
<1>9. r \in VersionsOf(log, r)
  BY <1>5 DEF VersionsOf
<1>10. r \notin gone /\ LinesOf(p, r) # {}
  BY <1>8, <1>9
<1>11. Path(w \o p, log, r, 0)
  <2>1. \A k \in LinesOf(w, r) : w[k].id \in Nat
    BY <1>7
  <2>2. \A v \in VersionsOf(log, r) : \E j \in LinesOf(p, r) : p[j].id = v
    BY <1>8
  <2>3. PICK x \in Nat : x = 0
    OBVIOUS
  <2>4. Path(w \o p, log, r, x)
    BY <1>4, <1>7, <1>10, <2>1, <2>2, PathReplay
  <2> QED BY <2>3, <2>4
<1>12. LinesOf(w \o p, r) # {}
  <2>1. PICK j \in LinesOf(p, r) : TRUE
    BY <1>10
  <2>2. PICK z : z = w \o p
    OBVIOUS
  <2>3. /\ Len(w) \in Nat /\ Len(p) \in Nat /\ Len(z) = Len(w) + Len(p)
        /\ \A i \in 1..Len(p) : z[Len(w) + i] = p[i]
    BY <2>2, ConcatAt
  <2>4. j \in 1..Len(p) /\ p[j] \in Brings(r)
    BY DEF LinesOf
  <2>5. Len(w) + j \in 1..Len(z) /\ z[Len(w) + j] \in Brings(r)
    BY <2>3, <2>4
  <2> QED BY <2>2, <2>5 DEF LinesOf
<1>13. OnItsWay(buf, w \o p, log, u, r)
  BY <1>6, <1>11 DEF OnItsWay
<1> QED BY <1>1, <1>3, <1>10, <1>12, <1>13 DEF Tracked

---------------------------------------------------------------------------
(* The invariant                                                           *)

\* The user's requests are about his own messages, a deletion about a message that
\* is deleted, and the versions of a message have one author, whatever his nicks.
Foreign(l)  == {q \in Request : q.kind \in {"edit", "delete"} /\ ~l[q.names].from \in OwnNicks}
Stray(l, g) == {m \in Deletion : m.names \notin Roots(l) \cap g}

OneAuthor(l) ==
    \A i \in 1..Len(l) : /\ l[i].root \in Roots(l) /\ l[i].root <= i
                         /\ l[l[i].root].from \in OwnNicks <=> l[i].from \in OwnNicks

OwnInv == /\ OneAuthor(log) /\ gone \subseteq Roots(log)
          /\ Lacks(up, Foreign(log)) /\ Lacks(wire, Stray(log, gone))
          /\ editing # 0 => log[editing].from \in OwnNicks

\* What was met is shown, by a row that has its original id or replaced it; what the
\* user deletes is a tombstone already.
MetShown(b, l)   == \A v \in Met(b) : RowsOf(b, l, l[v].root) # {}
Named(b, l, o)   == \A r \in Roots(l) \ o : \A row \in RowsOf(b, l, r) :
                       row.of = r \/ (row.of = 0 /\ row.id = r)
Unshown(b, l, o) == {q \in Request : /\ q.kind = "delete" /\ l[q.names].root \notin o
                                     /\ \A row \in RowsOf(b, l, l[q.names].root) : ~row.deleted}

\* A message that an edit has split into rows has one.
SplitShown(b, l, o) == \A r \in o : RowsOf(b, l, r) # {}

\* All versions that one row has taken in were under its nick.
SameNick(b, l, o) == \A r \in Roots(l) \ o : \A row \in RowsOf(b, l, r) :
                        \A v \in VersionsOf(l, r) \cap Met(b) : l[v].from = row.from

Deduced(b, l, u, o) == /\ Few(b) /\ MetShown(b, l) /\ Named(b, l, o) /\ SplitShown(b, l, o)
                       /\ SameNick(b, l, o) /\ Lacks(u, Unshown(b, l, o))

AllTracked == \A r \in Roots(log) \ (missed \cup orphans) : Tracked(buf, wire, log, up, gone, r)

RowsInv == Deduced(buf, log, up, orphans) /\ AllTracked

AheadInv == OwnInv /\ (Roomy => RowsInv)

---------------------------------------------------------------------------

\* A row of r has a version of r.
LEMMA RowsIn ==
    ASSUME IInv, NEW r, NEW row \in RowsOf(buf, log, r)
    PROVE  /\ row \in Row /\ row.id \in 1..Len(log) /\ row.id \in Nat
           /\ row.id \in VersionsOf(log, r) /\ Refers(row, log)
           /\ row.from = log[row.id].from
           /\ row.of # 0 => row.of \in 1..Len(log) /\ log[row.of].root = r
<1>1. buf.rows \in Seq(Row)
  BY LinesTyped
<1>2. PICK k \in Shown(buf) : buf.rows[k] = row /\ log[row.id].root = r
  BY <1>1, RowsAre
<1>3. k \in 1..Len(buf.rows) /\ row.id # 0 /\ row.id # Local
  BY <1>2 DEF Shown, Local
<1>4. row \in Row
  BY <1>1, <1>2, <1>3
<1>5. Refers(row, log)
  BY <1>2, <1>3 DEF IInv, Sound, RowsRefer
<1>6. row.id \in 1..Len(log) /\ row.of \in 0..Len(log)
  BY <1>3, <1>5, LogIs DEF Refers
<1>7. row.of # 0 => row.of \in 1..Len(log)
  BY <1>6, LogIs
<1> QED BY <1>2, <1>3, <1>4, <1>5, <1>6, <1>7, LogIs DEF Refers, VersionsOf

\* The only row of a message, if no edit has split it, is known by its two ids.
LEMMA RowMet ==
    ASSUME IInv, NEW r, r \notin orphans, NEW row \in RowsOf(buf, log, r)
    PROVE  /\ row.id \in Met(buf) /\ r \in Met(buf)
           /\ \A x \in RowsOf(buf, log, r) : x = row
<1>1. buf.rows \in Seq(Row)
  BY LinesTyped
<1>2. PICK k \in Shown(buf) : buf.rows[k] = row /\ log[row.id].root = r
  BY <1>1, RowsAre
<1>3. /\ row.id \in buf.ids
      /\ row.id = r \/ r \in buf.aliases
  BY <1>2 DEF IInv, Sound, RowsKnown
<1>4. RowsDiffer(buf, log, orphans)
  BY DEF IInv, Sound
<1> QED BY <1>1, <1>3, <1>4, OnlyRow DEF Met

\* The load never falls.
LEMMA PostsAppend ==
    ASSUME NEW u \in Seq(Request), NEW q \in Request
    PROVE  Many(Append(u, q), {"post"}) = Many(u, {"post"}) + (IF q.kind = "post" THEN 1 ELSE 0)
<1>1. q \in OfKind({"post"}) <=> q.kind = "post"
  BY DEF OfKind
<1>2. Append(u, q) \in Seq(Request)
  OBVIOUS
<1>3. Cardinality(Places(Append(u, q), OfKind({"post"}))) =
         Cardinality(Places(u, OfKind({"post"}))) + (IF q \in OfKind({"post"}) THEN 1 ELSE 0)
  BY PlacesAppend
<1> QED BY <1>1, <1>2, <1>3, ManyPlaces

\* The first request is a message or is not.
LEMMA PostsTail ==
    ASSUME NEW u \in Seq(Request), u # <<>>
    PROVE  Many(u, {"post"}) = Many(Tail(u), {"post"}) + (IF u[1].kind = "post" THEN 1 ELSE 0)
<1>1. Head(u) = u[1] /\ u[1] \in Request /\ Tail(u) \in Seq(Request)
  OBVIOUS
<1>2. u[1] \in OfKind({"post"}) <=> u[1].kind = "post"
  BY <1>1 DEF OfKind
<1>3. Cardinality(Places(Tail(u), OfKind({"post"})))
            + (IF Head(u) \in OfKind({"post"}) THEN 1 ELSE 0)
         = Cardinality(Places(u, OfKind({"post"})))
  BY PlacesTail
<1>4. /\ Many(u, {"post"}) = Cardinality(Places(u, OfKind({"post"})))
      /\ Many(Tail(u), {"post"}) = Cardinality(Places(Tail(u), OfKind({"post"})))
  BY <1>1, ManyPlaces
<1> QED BY <1>1, <1>2, <1>3, <1>4

\* No requests, no messages among them.
LEMMA NoPosts == Many(<<>>, {"post"}) = 0
<1>1. {i \in 1..Len(<<>>) : <<>>[i].kind \in {"post"}} = {}
  OBVIOUS
<1> QED BY <1>1, FS_EmptySet DEF Many

\* A request on its way is part of the load if it is a message.
LEMMA RequestLoads ==
    ASSUME IInv, NEW q \in Request, Request1(q)
    PROVE  /\ up' = up \/ up' = Append(up, q)
           /\ Many(up', {"post"}) =
                 Many(up, {"post"}) + (IF online /\ q.kind = "post" THEN 1 ELSE 0)
           /\ Many(up, {"post"}) \in Nat
<1>1. up \in Seq(Request)
  BY LinesTyped
<1>2. Many(up, {"post"}) \in Nat
  BY <1>1, ManyPlaces
<1>3. CASE online
  BY <1>1, <1>2, <1>3, PostsAppend DEF Request1
<1>4. CASE ~online
  BY <1>2, <1>4 DEF Request1
<1> QED BY <1>2, <1>3, <1>4

\* A step that leaves the log and what is told of the messages alone.
LEMMA OwnSame ==
    ASSUME OwnInv, UNCHANGED <<log, wire, gone>>, Lacks(up', Foreign(log)),
           editing' # 0 => log[editing'].from \in OwnNicks
    PROVE  OwnInv'
  BY DEF OwnInv

\* One more request, about what the user wrote.
LEMMA ForeignAppend ==
    ASSUME IInv, OwnInv, NEW q \in Request, up' = up \/ up' = Append(up, q),
           q.kind \in {"edit", "delete"} => log[q.names].from \in OwnNicks
    PROVE  Lacks(up', Foreign(log))
<1>1. up \in Seq(Request) /\ Lacks(up, Foreign(log))
  BY LinesTyped DEF OwnInv
<1>2. q \notin Foreign(log)
  BY DEF Foreign
<1>3. Lacks(Append(up, q), Foreign(log))
  BY <1>1, <1>2, LacksAppend
<1> QED BY <1>1, <1>3

\* The load of the step before it was no greater.
LEMMA RoomyBefore ==
    ASSUME IInv, Load' >= Load, Load' \in Nat, Roomy' PROVE Roomy
<1>1. Load \in Nat
  BY LogIs, LinesTyped, ManyIn DEF Load
<1>2. MaxRows \in Nat
  BY LimitsAssumption
<1> QED BY <1>1, <1>2 DEF Roomy

\* TrackedOn, for a step of the system.
LEMMA TrackedStep ==
    ASSUME IInv, NEW r, Tracked(buf, wire, log, up, gone, r), SameVersions(log, log', r),
           RowsFollow(buf, buf', log, log', r), LinesFollow(wire, wire', log, log', r),
           r \notin gone => EditsFollow(up, up', log, log', r), r \in gone <=> r \in gone'
    PROVE  Tracked(buf', wire', log', up', gone', r)
<1>1. \A row \in RowsOf(buf, log, r) : row.id \in VersionsOf(log, r) /\ row.id \in Nat
  BY RowsIn
<1> QED BY <1>1, TrackedOn

\* A request more does not take an edit away.
LEMMA EditsFollowAppend ==
    ASSUME IInv, NEW q \in Request, up' = up \/ up' = Append(up, q), NEW r
    PROVE  EditsFollow(up, up', log, log, r)
<1>1. up \in Seq(Request)
  BY LinesTyped
<1>2. \A T : Lacks(Append(up, q), T) => Lacks(up, T)
  BY <1>1, LacksAppend
<1> QED BY <1>2 DEF EditsFollow

\* Requests that are neither edits nor deletions change nothing for the rows.
LEMMA QuietTracks ==
    ASSUME IInv, RowsInv, UNCHANGED <<buf, wire, log, gone, orphans>>, missed \subseteq missed',
           Lacks(up', Unshown(buf, log, orphans)),
           \A r : r \notin gone => EditsFollow(up, up', log, log, r)
    PROVE  RowsInv'
<1>1. ASSUME NEW r \in Roots(log) \ (missed' \cup orphans)
      PROVE  Tracked(buf', wire', log', up', gone', r)
  <2>1. Tracked(buf, wire, log, up, gone, r)
    BY DEF RowsInv, AllTracked
  <2>2. SameVersions(log, log', r) /\ RowsFollow(buf, buf', log, log', r)
        /\ LinesFollow(wire, wire', log, log', r)
    BY RowsFollowSelf, LinesFollowSelf, SameVersionsSelf
  <2> QED BY <2>1, <2>2, TrackedStep
<1>2. AllTracked'
  BY <1>1 DEF AllTracked
<1>3. Deduced(buf', log', up', orphans')
  BY DEF RowsInv, Deduced
<1> QED BY <1>2, <1>3 DEF RowsInv

\* A step that only asks something or chooses what to edit.
LEMMA QuietAhead ==
    ASSUME IInv, IInv', AheadInv, UNCHANGED <<buf, wire, log, gone, missed, orphans, lost>>,
           Lacks(up', Foreign(log)), RowsInv => Lacks(up', Unshown(buf, log, orphans)),
           \A r : EditsFollow(up, up', log, log, r), Many(up', {"post"}) = Many(up, {"post"}),
           editing' # 0 => log[editing'].from \in OwnNicks
    PROVE  AheadInv'
<1>1. OwnInv'
  BY OwnSame DEF AheadInv
<1>2. Load' = Load
  BY DEF Load
<1>3. ASSUME Roomy' PROVE RowsInv'
  <2>1. Roomy
    BY <1>2, <1>3 DEF Roomy
  <2>2. RowsInv
    BY <2>1 DEF AheadInv
  <2> QED BY <2>2, QuietTracks
<1> QED BY <1>1, <1>3 DEF AheadInv

\* The same requests have the same edits.
LEMMA EditsFollowSelf == \A u, l, r : EditsFollow(u, u, l, l, r)
  BY DEF EditsFollow

\* The user chooses a row of his own.
LEMMA BeginEditAhead ==
    ASSUME IInv, IInv', AheadInv, NEW i, BeginEdit(i) PROVE AheadInv'
<1>1. /\ Own(i) /\ editing' = buf.rows[i].id
      /\ UNCHANGED <<buf, online, up, wire, log, gone, missed, orphans, lost, turns>>
  BY Zenon DEF BeginEdit, serverVars, historyVars
<1>2. i \in 1..Len(buf.rows) /\ buf.rows[i].from \in OwnNicks /\ buf.rows[i].id # 0
  BY <1>1 DEF Own, Local, IInv, NicksSound
<1>3. Refers(buf.rows[i], log)
  BY <1>2 DEF IInv, Sound, RowsRefer
<1>4. log[editing'].from \in OwnNicks
  BY <1>1, <1>2, <1>3 DEF Refers
<1>5. Lacks(up', Foreign(log)) /\ (RowsInv => Lacks(up', Unshown(buf, log, orphans)))
  BY <1>1 DEF AheadInv, OwnInv, RowsInv, Deduced
<1> QED BY <1>1, <1>4, <1>5, EditsFollowSelf, QuietAhead

\* The user gives up an edit.
LEMMA CancelEditAhead ==
    ASSUME IInv, IInv', AheadInv, CancelEdit PROVE AheadInv'
<1>1. /\ editing' = 0
      /\ UNCHANGED <<buf, online, up, wire, log, gone, missed, orphans, lost, turns>>
  BY Zenon DEF CancelEdit, serverVars, historyVars
<1>2. Lacks(up', Foreign(log)) /\ (RowsInv => Lacks(up', Unshown(buf, log, orphans)))
  BY <1>1 DEF AheadInv, OwnInv, RowsInv, Deduced
<1> QED BY <1>1, <1>2, EditsFollowSelf, QuietAhead

\* A session begins with nothing on its way, or with the request for history.
LEMMA RejoinAhead ==
    ASSUME IInv, IInv', EchoInv, AheadInv, Rejoin PROVE AheadInv'
<1>1. PICK r : r = [kind |-> "history"]
  OBVIOUS
<1>2. /\ ~online
      /\ up' = <<>> \/ up' = <<r>>
      /\ UNCHANGED <<buf, editing, wire, log, gone, missed, orphans, lost>>
  BY <1>1, Zenon DEF Rejoin, serverVars, historyVars
<1>3. r \in Request /\ r.kind = "history"
  BY <1>1 DEF Request
<1>4. up = <<>> /\ Append(<<>>, r) = <<r>> /\ <<>> \in Seq(Request)
  BY <1>2 DEF EchoInv
<1>5. \A T : r \notin T => Lacks(up', T)
  <2> SUFFICES ASSUME NEW T, r \notin T PROVE Lacks(up', T)
    OBVIOUS
  <2>1. Lacks(<<>>, T) /\ Lacks(Append(<<>>, r), T)
    BY <1>3, <1>4, LacksEmpty, LacksAppend
  <2> QED BY <1>2, <1>4, <2>1
<1>6. Lacks(up', Foreign(log)) /\ Lacks(up', Unshown(buf, log, orphans))
  BY <1>3, <1>5 DEF Foreign, Unshown
<1>7. \A i : EditsFollow(up, up', log, log, i)
  BY <1>4, LacksEmpty DEF EditsFollow
<1>8. Many(up', {"post"}) = Many(up, {"post"})
  <2>1. Many(<<r>>, {"post"}) = 0
    <3>1. PICK u \in Seq(Request) : u = <<>>
      BY <1>4
    <3>2. Many(Append(u, r), {"post"}) = Many(u, {"post"}) + (IF r.kind = "post" THEN 1 ELSE 0)
      BY <1>3, PostsAppend
    <3> QED BY <1>3, <1>4, <3>1, <3>2, NoPosts
  <2> QED BY <1>2, <1>4, <2>1, NoPosts
<1>9. editing' # 0 => log[editing'].from \in OwnNicks
  BY <1>2 DEF AheadInv, OwnInv
<1> QED BY <1>2, <1>6, <1>7, <1>8, <1>9, QuietAhead

\* History is asked for again.
LEMMA OpenChatAhead ==
    ASSUME IInv, IInv', AheadInv, OpenChat PROVE AheadInv'
<1>1. PICK r : r = [kind |-> "history"]
  OBVIOUS
<1>2. /\ online /\ up' = Append(up, r)
      /\ UNCHANGED <<buf, editing, online, wire, log, gone, missed, orphans, lost, turns>>
  BY <1>1, Zenon DEF OpenChat, serverVars, historyVars
<1>3. r \in Request /\ r.kind = "history"
  BY <1>1 DEF Request
<1>4. up \in Seq(Request)
  BY LinesTyped
<1>5. Lacks(up', Foreign(log))
  BY <1>2, <1>3, ForeignAppend DEF AheadInv
<1>6. editing' # 0 => log[editing'].from \in OwnNicks
  BY <1>2 DEF AheadInv, OwnInv
<1>7. \A i : EditsFollow(up, up', log, log, i)
  BY <1>2, <1>3, EditsFollowAppend
<1>8. Many(up', {"post"}) = Many(up, {"post"})
  BY <1>2, <1>3, <1>4, PostsAppend, ManyPlaces
<1>9. RowsInv => Lacks(up', Unshown(buf, log, orphans))
  BY <1>2, <1>3, <1>4, LacksAppend DEF Unshown, RowsInv, Deduced
<1> QED BY <1>2, <1>5, <1>6, <1>7, <1>8, <1>9, QuietAhead

\* Rows of r that are the same rows.
LEMMA SameRowsFollow ==
    ASSUME NEW b, NEW e, NEW l, NEW r, RowsOf(e, l, r) = RowsOf(b, l, r),
           Met(e) \cap VersionsOf(l, r) = Met(b) \cap VersionsOf(l, r)
    PROVE  RowsFollow(b, e, l, l, r)
  BY DEF RowsFollow

\* An optimistic row, and the line for it, or one more that never gets there.
LEMMA SendAhead ==
    ASSUME IInv, IInv', EchoInv, AheadInv, NEW t \in Texts, Send(t) PROVE AheadInv'
<1>1. PICK row : row = [id |-> Local, of |-> 0, text |-> t, from |-> nick,
                        deleted |-> FALSE, ts |-> Len(log)]
  OBVIOUS
<1>2. PICK q : q = [kind |-> "post", names |-> 0, text |-> t, from |-> nick]
  OBVIOUS
<1>3. /\ buf' = Appended(buf, row) /\ Request1(q)
      /\ lost' = IF online THEN lost ELSE lost + 1
      /\ UNCHANGED <<editing, online, wire, log, gone, missed, orphans, turns>>
  BY <1>1, <1>2, Zenon DEF Send, serverVars
<1>4. row \in Row /\ row.id = Local /\ Fresh(buf, row)
  BY <1>1, LogIs DEF Row, Local, Fresh, Nicks, IInv, NicksSound
<1>5. q \in Request /\ q.kind = "post"
  BY <1>2 DEF Request, IInv, NicksSound
<1>6. /\ up' = up \/ up' = Append(up, q)
      /\ Many(up', {"post"}) = Many(up, {"post"}) + (IF online THEN 1 ELSE 0)
      /\ Many(up, {"post"}) \in Nat
  BY <1>3, <1>5, RequestLoads
<1>7. lost \in Nat /\ Len(log) \in Nat /\ up \in Seq(Request) /\ buf \in Buffer
  BY LogIs, LinesTyped
<1>8. Load' = Load + 1 /\ Load \in Nat
  <2>1. lost' + Many(up', {"post"}) = lost + Many(up, {"post"}) + 1
    BY <1>3, <1>6, <1>7
  <2> QED BY <1>3, <1>6, <1>7, <2>1 DEF Load
<1>9. OwnInv'
  <2>1. Lacks(up', Foreign(log))
    BY <1>5, <1>6, ForeignAppend DEF AheadInv
  <2>2. editing' # 0 => log[editing'].from \in OwnNicks
    BY <1>3 DEF AheadInv, OwnInv
  <2> QED BY <1>3, <2>1, <2>2, OwnSame DEF AheadInv
<1>10. ASSUME Roomy' PROVE RowsInv'
  <2>1. RowsInv
    BY <1>8, <1>10, RoomyBefore DEF AheadInv
  <2>2. Len(Made(buf, row)) <= MaxRows
    <3>1. Len(buf.rows) <= Load
      BY <2>1, RowsFit DEF RowsInv, Deduced
    <3>2. Len(Made(buf, row)) <= Len(buf.rows) + 1 /\ Made(buf, row) \in Seq(Row)
      BY <1>4, <1>7, MadeIs
    <3>3. Len(Made(buf, row)) \in Nat /\ Len(buf.rows) \in Nat
      BY <1>7, <3>2 DEF Buffer
    <3> QED BY <1>8, <1>10, <3>1, <3>2, <3>3, LimitsAssumption DEF Roomy
  <2>3. buf' = MadeBuf(buf, row)
    BY <1>3, <1>4, <1>7, <2>2, AppendedRoom
  <2>4. ASSUME NEW r PROVE RowsOf(buf', log, r) = RowsOf(buf, log, r)
    <3>1. PICK l : l = log
      OBVIOUS
    <3>2. \A x : x \in RowsOf(MadeBuf(buf, row), l, r) <=>
             x \in RowsOf(buf, l, r) \/ (row.id # Local /\ l[row.id].root = r /\ x = row)
      BY <1>4, <1>7, RowsMade
    <3> QED BY <1>4, <2>3, <3>1, <3>2
  <2>5. Met(buf') = Met(buf)
    BY <1>4, <2>3 DEF Met, MadeBuf, Known
  <2>6. Few(buf')
    <3>1. Cardinality(Shown(buf')) <= Cardinality(Shown(buf))
      BY <1>4, <1>7, <2>3, ShownMade
    <3>2. Cardinality(Shown(buf')) \in Nat /\ Cardinality(Shown(buf)) \in Nat
      <4>1. (buf').rows \in Seq(Row) /\ buf.rows \in Seq(Row)
        BY <1>7 DEF Buffer, IInv, Plainly
      <4> QED BY <4>1, RowsCount
    <3>3. Cardinality(Met(buf)) \in Nat
      <4>1. Met(buf) \in SUBSET (1..Len(log)) /\ IsFiniteSet(1..Len(log))
        BY <1>7, UpTo, MetLogged
      <4> QED BY <4>1, FS_Subset, FS_CardinalityType
    <3> QED BY <2>1, <2>5, <3>1, <3>2, <3>3 DEF RowsInv, Deduced, Few
  <2>7. Lacks(up', Unshown(buf', log, orphans))
    <3>1. Unshown(buf', log, orphans) = Unshown(buf, log, orphans)
      BY <2>4 DEF Unshown
    <3>2. q \notin Unshown(buf, log, orphans) /\ Lacks(up, Unshown(buf, log, orphans))
      BY <1>5, <2>1 DEF Unshown, RowsInv, Deduced
    <3>3. Lacks(Append(up, q), Unshown(buf, log, orphans))
      BY <1>5, <1>7, <3>2, LacksAppend
    <3> QED BY <1>6, <3>1, <3>2, <3>3
  <2>8. Deduced(buf', log', up', orphans')
    BY <1>3, <2>1, <2>4, <2>5, <2>6, <2>7 DEF RowsInv, Deduced, MetShown, Named, SplitShown,
         SameNick
  <2>9. ASSUME NEW r \in Roots(log) \ (missed \cup orphans)
        PROVE  Tracked(buf', wire', log', up', gone', r)
    <3>1. Tracked(buf, wire, log, up, gone, r)
      BY <2>1 DEF RowsInv, AllTracked
    <3>2. RowsFollow(buf, buf', log, log, r)
      BY <2>4, <2>5, SameRowsFollow
    <3>3. EditsFollow(up, up', log, log, r)
      BY <1>5, <1>6, EditsFollowAppend
    <3> QED BY <1>3, <3>1, <3>2, <3>3, LinesFollowSelf, SameVersionsSelf, TrackedStep
  <2> QED BY <1>3, <2>8, <2>9 DEF RowsInv, AllTracked
<1> QED BY <1>9, <1>10 DEF AheadInv

\* The only row of r in b is live and is rewritten in e.
Retold(b, e, l, r, from, n, new, text) ==
    \E x \in RowsOf(b, l, r), y \in RowsOf(e, l, r) :
        /\ \A z \in RowsOf(b, l, r) : z = x
        /\ \A z \in RowsOf(e, l, r) : z = y
        /\ x.from = from /\ ~x.deleted /\ ~y.deleted /\ (n = x.id \/ n = r)
        /\ y.id = (IF new = 0 THEN x.id ELSE new) /\ y.text = text
        /\ Met(e) = Met(b) \cup {n, x.id, y.id}

\* An edit in place: the message's row gets a version and a text, all else is kept.
LEMMA EditedRows ==
    ASSUME IInv, EchoInv, OwnInv, Deduced(buf, log, up, orphans), NEW from, NEW n \in 1..Len(log),
           NEW new \in 0..Len(log), NEW text \in Texts, Editable(buf, from, n),
           new # 0 => log[new].root = log[n].root /\ log[new].from = from, NEW r0, r0 = log[n].root,
           NEW e, e = Edited(buf, n, new, text)
    PROVE  /\ Deduced(e, log, up, orphans)
           /\ \A r : r # r0 => RowsFollow(buf, e, log, log, r)
           /\ r0 \notin orphans => Retold(buf, e, log, r0, from, n, new, text)
<1>1. PICK i : i = FirstNamed(buf.rows, n)
  OBVIOUS
<1>2. PICK id : id = IdAfter(buf, n, new)
  OBVIOUS
<1>3. buf \in Buffer /\ buf.rows \in Seq(Row) /\ LocalsPlain(buf.rows) /\ Len(log) \in Nat
  BY LinesTyped, LogIs
<1>4. n \in Ids /\ n # 0 /\ new \in Ids \cup {0}
  BY LogIs
<1>5. i # 0 /\ i \in 1..Len(buf.rows) /\ buf.rows[i].from = from /\ ~buf.rows[i].deleted
  BY <1>1, <1>3, FirstNamedIs DEF Editable
<1>6. Rewrites(e, buf, i, n, id, text)
  BY <1>1, <1>2, <1>3, <1>4, <1>5, EditedIs
<1>7. Refers(buf.rows[i], log) /\ Matches(buf.rows[i], n)
  BY <1>5, <1>6 DEF IInv, Sound, RowsRefer, Rewrites
<1>8. buf.rows[i].id \in 1..Len(log) /\ log[buf.rows[i].id].root = r0
  BY <1>3, <1>4, <1>7 DEF Refers, Matches
<1>9. id \in 1..Len(log) /\ log[id].root = r0
  BY <1>1, <1>2, <1>3, <1>8 DEF IdAfter
<1>10. RowsRefer(buf, log) /\ RowsDiffer(buf, log, orphans)
  BY DEF IInv, Sound
<1>11. /\ i \in Shown(buf) /\ Shown(e) = Shown(buf) /\ e.rows \in Seq(Row)
       /\ buf.rows[i] \in RowsOf(buf, log, r0) /\ e.rows[i] \in RowsOf(e, log, r0)
       /\ \A r : r # r0 => RowsOf(e, log, r) = RowsOf(buf, log, r)
       /\ Met(e) = Met(buf) \cup {n, buf.rows[i].id, id}
  <2>1. log[id].root = log[n].root
    BY <1>9
  <2>2. PICK l : l = log
    OBVIOUS
  <2>3. /\ i \in Shown(buf) /\ Shown(e) = Shown(buf) /\ e.rows \in Seq(Row)
        /\ buf.rows[i] \in RowsOf(buf, l, l[n].root)
        /\ e.rows[i] \in RowsOf(e, l, l[n].root)
        /\ \A r : r # l[n].root => RowsOf(e, l, r) = RowsOf(buf, l, r)
        /\ Met(e) = Met(buf) \cup {n, buf.rows[i].id, id}
    <3>1. /\ RowsRefer(buf, l) /\ Len(l) \in Nat
          /\ id \in 1..Len(l) /\ n \in 1..Len(l) /\ l[id].root = l[n].root
      BY <1>3, <1>9, <1>10, <2>1, <2>2
    <3>2. buf \in Buffer /\ LocalsPlain(buf.rows) /\ Rewrites(e, buf, i, n, id, text)
      BY <1>3, <1>6
    <3> HIDE <2>2
    <3> QED BY <3>1, <3>2, RowsEdited
  <2> QED BY <2>2, <2>3
<1>12. ASSUME r0 \notin orphans
       PROVE  /\ \A x \in RowsOf(buf, log, r0) : x = buf.rows[i]
              /\ \A x \in RowsOf(e, log, r0) : x = e.rows[i]
  <2>1. RowsDiffer(e, log, orphans)
    BY EditKeeps DEF Sound
  <2> QED BY <1>3, <1>10, <1>11, <1>12, <2>1, OnlyRow
<1>13. /\ e.rows[i].id = id /\ e.rows[i].text = text /\ ~e.rows[i].deleted
       /\ e.rows[i].of = IF buf.rows[i].of = 0 THEN n ELSE buf.rows[i].of
  BY <1>5, <1>6 DEF Rewrites
<1>14. ASSUME r0 \notin orphans
       PROVE  /\ buf.rows[i].of = r0 \/ (buf.rows[i].of = 0 /\ buf.rows[i].id = r0)
              /\ r0 \in 1..Len(log)
  <2>1. r0 \in Roots(log)
    BY <1>14 DEF OwnInv, OneAuthor
  <2> QED BY <1>11, <1>14, <2>1 DEF Deduced, Named, Roots
<1>15. MetShown(e, log)
  <2> SUFFICES ASSUME NEW v \in Met(e) PROVE RowsOf(e, log, log[v].root) # {}
    BY DEF MetShown
  <2>1. CASE log[v].root = r0
    BY <1>11, <2>1
  <2>2. CASE log[v].root # r0
    BY <1>8, <1>9, <1>11, <2>2 DEF Deduced, MetShown
  <2> QED BY <2>1, <2>2
<1>16. Named(e, log, orphans)
  <2> SUFFICES ASSUME NEW r \in Roots(log) \ orphans, NEW row \in RowsOf(e, log, r)
               PROVE  row.of = r \/ (row.of = 0 /\ row.id = r)
    BY DEF Named
  <2>1. CASE r = r0
    BY <1>4, <1>7, <1>13, <1>14, <1>12, <2>1 DEF Matches
  <2>2. CASE r # r0
    BY <1>11, <2>2 DEF Deduced, Named
  <2> QED BY <2>1, <2>2
<1>17. Few(e)
  <2>1. Met(e) \in SUBSET (1..Len(log)) /\ IsFiniteSet(1..Len(log)) /\ Met(buf) \subseteq Met(e)
    BY <1>3, <1>8, <1>9, <1>11, UpTo, MetLogged
  <2>2. IsFiniteSet(Met(e))
    BY <2>1, FS_Subset
  <2>3. /\ Cardinality(Met(buf)) <= Cardinality(Met(e))
        /\ Cardinality(Met(buf)) \in Nat /\ Cardinality(Met(e)) \in Nat
    BY <2>1, <2>2, FS_Subset, FS_CardinalityType
  <2>4. Cardinality(Shown(buf)) \in Nat
    BY <1>3, RowsCount
  <2> QED BY <1>11, <2>3, <2>4 DEF Deduced, Few
<1>18. Lacks(up, Unshown(e, log, orphans))
  <2>1. \A q \in Unshown(e, log, orphans) : q \in Unshown(buf, log, orphans)
    <3> SUFFICES ASSUME NEW q \in Unshown(e, log, orphans)
                 PROVE  q \in Unshown(buf, log, orphans)
      OBVIOUS
    <3>1. CASE log[q.names].root = r0
      BY <1>5, <1>12, <3>1 DEF Unshown
    <3>2. CASE log[q.names].root # r0
      BY <1>11, <3>2 DEF Unshown
    <3> QED BY <3>1, <3>2
  <2> QED BY <2>1, LacksMore DEF Deduced
<1>19. SplitShown(e, log, orphans)
  BY <1>11 DEF Deduced, SplitShown
<1>20. SameNick(e, log, orphans)
  <2> SUFFICES ASSUME NEW r \in Roots(log) \ orphans, NEW row \in RowsOf(e, log, r),
                      NEW v \in VersionsOf(log, r) \cap Met(e)
               PROVE  log[v].from = row.from
    BY DEF SameNick
  <2>1. CASE r = r0
    <3>1. row.from = from
      <4>1. e.rows[i].from = buf.rows[i].from
        BY <1>6 DEF Rewrites
      <4> QED BY <1>5, <1>12, <2>1, <4>1
    <3>2. \A w \in VersionsOf(log, r) \cap Met(buf) : log[w].from = from
      BY <1>5, <1>11, <2>1 DEF Deduced, SameNick
    <3>3. v \in Met(buf) \/ v = new
      <4>1. buf.rows[i].id \in Met(buf) /\ r0 \in Met(buf)
        BY <1>11, <2>1, RowMet
      <4>2. n = buf.rows[i].id \/ n = r0
        BY <1>4, <1>7, <1>14, <2>1 DEF Matches
      <4>3. id = buf.rows[i].id \/ id = new
        BY <1>1, <1>2 DEF IdAfter
      <4> QED BY <1>11, <4>1, <4>2, <4>3
    <3>4. v # 0
      BY LogIs DEF VersionsOf
    <3> QED BY <3>1, <3>2, <3>3, <3>4
  <2>2. CASE r # r0
    <3>1. row \in RowsOf(buf, log, r)
      BY <1>11, <2>2
    <3>2. v \in Met(buf)
      BY <1>8, <1>9, <1>11, <2>2 DEF VersionsOf
    <3> QED BY <3>1, <3>2 DEF Deduced, SameNick
  <2> QED BY <2>1, <2>2
<1>21. Deduced(e, log, up, orphans)
  BY <1>15, <1>16, <1>17, <1>18, <1>19, <1>20 DEF Deduced
<1>22. ASSUME NEW r, r # r0 PROVE RowsFollow(buf, e, log, log, r)
  <2>1. Met(e) \cap VersionsOf(log, r) = Met(buf) \cap VersionsOf(log, r)
    BY <1>8, <1>9, <1>11, <1>22 DEF VersionsOf
  <2> QED BY <1>11, <1>22, <2>1, SameRowsFollow
<1>23. ASSUME r0 \notin orphans
       PROVE  Retold(buf, e, log, r0, from, n, new, text)
  <2>1. n = buf.rows[i].id \/ n = r0
    BY <1>7, <1>14, <1>23, <1>4 DEF Matches
  <2>2. id = IF new = 0 THEN buf.rows[i].id ELSE new
    BY <1>1, <1>2 DEF IdAfter
  <2> QED BY <1>5, <1>11, <1>13, <1>23, <1>12, <2>1, <2>2 DEF Retold
<1> QED BY <1>21, <1>22, <1>23

\* An edit in place: the row differs from its version while the edit is on its way.
LEMMA SaveAhead ==
    ASSUME IInv, IInv', EchoInv, AheadInv, NEW t \in Texts, Save(t) PROVE AheadInv'
<1>1. PICK q : q = [kind |-> "edit", names |-> editing, text |-> t, from |-> nick]
  OBVIOUS
<1>2. /\ buf' = IF Editable(buf, nick, editing) THEN Edited(buf, editing, 0, t) ELSE buf
      /\ Request1(q) /\ editing # 0 /\ editing' = 0
      /\ missed' = IF online THEN missed ELSE missed \cup {log[editing].root}
      /\ UNCHANGED <<online, wire, log, gone, orphans, lost, turns>>
  BY <1>1, Zenon DEF Save, serverVars
<1>3. PICK n : n = editing
  OBVIOUS
<1>4. n \in 1..Len(log) /\ n \in Ids /\ log[n].from \in OwnNicks
  BY <1>2, <1>3, LogIs DEF IInv, Plainly, AheadInv, OwnInv
<1>5. q \in Request /\ q.kind = "edit" /\ q.names = n
  BY <1>1, <1>3, <1>4 DEF Request, IInv, NicksSound
<1>6. /\ up' = up \/ up' = Append(up, q)
      /\ online => up' = Append(up, q)
      /\ Many(up', {"post"}) = Many(up, {"post"})
  BY <1>2, <1>5, RequestLoads DEF Request1
<1>7. up \in Seq(Request) /\ OwnInv
  BY LinesTyped DEF AheadInv
<1>8. OwnInv'
  <2>1. Lacks(up', Foreign(log))
    BY <1>4, <1>5, <1>6, <1>7, ForeignAppend
  <2> QED BY <1>2, <1>7, <2>1, OwnSame
<1>9. PICK r0 : r0 = log[n].root
  OBVIOUS
<1>10. ASSUME Roomy' PROVE RowsInv'
  <2>1. RowsInv
    BY <1>2, <1>6, <1>10 DEF Roomy, Load, AheadInv
  <2>2. \A b : Lacks(up, Unshown(b, log, orphans)) => Lacks(up', Unshown(b, log, orphans))
    <3>1. \A b : q \notin Unshown(b, log, orphans)
      BY <1>5 DEF Unshown
    <3>2. \A T : Lacks(Append(up, q), T) <=> Lacks(up, T) /\ q \notin T
      BY <1>5, <1>7, LacksAppend
    <3> QED BY <1>6, <3>1, <3>2
  <2>3. \A r : EditsFollow(up, up', log, log, r)
    BY <1>5, <1>6, EditsFollowAppend
  <2>4. CASE ~Editable(buf, nick, n)
    <3>1. UNCHANGED <<buf, wire, log, gone, orphans>> /\ missed \subseteq missed'
      BY <1>2, <1>3, <2>4
    <3>2. Lacks(up', Unshown(buf, log, orphans))
      BY <2>1, <2>2 DEF RowsInv, Deduced
    <3> QED BY <2>1, <2>3, <3>1, <3>2, QuietTracks
  <2>5. CASE Editable(buf, nick, n)
    <3>1. PICK e : e = Edited(buf, n, 0, t)
      OBVIOUS
    <3>2. buf' = e
      BY <1>2, <1>3, <2>5, <3>1
    <3>3. PICK z \in 0..Len(log) : z = 0
      BY LogIs
    <3>4. Deduced(buf, log, up, orphans)
      BY <2>1 DEF RowsInv
    <3>5. e = Edited(buf, n, z, t)
      BY <3>1, <3>3
    <3>6. PICK from : from = nick
      OBVIOUS
    <3>7. Editable(buf, from, n)
      BY <2>5, <3>6
    <3>8. /\ Deduced(e, log, up, orphans)
          /\ \A r : r # r0 => RowsFollow(buf, e, log, log, r)
          /\ r0 \notin orphans => Retold(buf, e, log, r0, from, n, z, t)
      <4>1. z # 0 => log[z].root = log[n].root /\ log[z].from = from
        BY <3>3
      <4> QED BY <1>4, <1>7, <1>9, <3>4, <3>5, <3>7, <4>1, EditedRows
    <3>9. Deduced(buf', log', up', orphans')
      BY <1>2, <2>2, <3>2, <3>8 DEF Deduced
    <3>10. ASSUME NEW r \in Roots(log) \ (missed' \cup orphans)
           PROVE  Tracked(buf', wire', log', up', gone', r)
      <4>1. Tracked(buf, wire, log, up, gone, r)
        BY <1>2, <2>1 DEF RowsInv, AllTracked
      <4>2. CASE r # r0
        BY <1>2, <2>3, <3>2, <3>8, <4>1, <4>2, LinesFollowSelf, SameVersionsSelf, TrackedStep
      <4>3. CASE r = r0
        <5>1. up' = Append(up, q)
          BY <1>2, <1>3, <1>6, <1>9, <4>3
        <5>2. PICK x \in RowsOf(buf, log, r), y \in RowsOf(e, log, r) :
                /\ \A w \in RowsOf(buf, log, r) : w = x
                /\ \A w \in RowsOf(e, log, r) : w = y
                /\ ~x.deleted /\ (n = x.id \/ n = r)
                /\ y.id = x.id /\ Met(e) = Met(buf) \cup {n, x.id}
          BY <3>3, <3>8, <4>3 DEF Retold
        <5>3. r \in gone => Buried(e, wire, log, r)
          BY <4>1, <5>2 DEF Tracked, Buried
        <5>4. ASSUME r \notin gone PROVE OnItsWay(e, wire, log, up', r)
          <6>1. Path(wire, log, r, x.id) /\ Current(buf, log, up, r, x)
            BY <4>1, <5>2, <5>4 DEF Tracked, OnItsWay
          <6>2. \A v \in VersionsOf(log, r) : v <= x.id => v \in Met(e)
            BY <5>2, <6>1 DEF Current
          <6>3. Chained(e, log, r)
            <7>1. x.id \in Met(buf)
              BY RowMet
            <7> QED BY <5>2, <6>1, <7>1 DEF Current, Chained
          <6>4. Told(e, log, up', r, y)
            <7>1. q \in Rewriting(log, r)
              BY <1>5, <1>9, <4>3 DEF Rewriting
            <7>2. ~Lacks(Append(up, q), Rewriting(log, r))
              BY <1>5, <1>7, <7>1, LacksAppend
            <7> QED BY <5>1, <7>2 DEF Told
          <6> QED BY <5>2, <6>1, <6>2, <6>3, <6>4 DEF OnItsWay, Current
        <5> QED BY <1>2, <3>2, <5>2, <5>3, <5>4 DEF Tracked
      <4> QED BY <4>2, <4>3
    <3> QED BY <1>2, <3>9, <3>10 DEF RowsInv, AllTracked
  <2> QED BY <2>4, <2>5
<1> QED BY <1>8, <1>10 DEF AheadInv

\* A deletion makes a tombstone, if anything.
LEMMA DeletedRows ==
    ASSUME IInv, Deduced(buf, log, up, orphans), NEW from, NEW n,
           NEW e, e = Deleted(buf, from, n)
    PROVE  /\ Deduced(e, log, up, orphans)
           /\ \A r : RowsFollow(buf, e, log, log, r)
<1>1. buf \in Buffer
  BY LinesTyped
<1>2. /\ \A r : \A x \in RowsOf(e, log, r) : \E y \in RowsOf(buf, log, r) :
            /\ y.id = x.id /\ y.of = x.of /\ y.from = x.from /\ y.text = x.text
            /\ y.deleted => x.deleted
      /\ \A r : \A y \in RowsOf(buf, log, r) : \E x \in RowsOf(e, log, r) :
            y.deleted => x.deleted
      /\ Shown(e) = Shown(buf) /\ Met(e) = Met(buf)
  <2>1. PICK b \in Buffer : b = buf
    BY <1>1
  <2>2. PICK l : l = log
    OBVIOUS
  <2>3. ASSUME NEW r
        PROVE  /\ \A x \in RowsOf(e, l, r) : \E y \in RowsOf(b, l, r) :
                     /\ y.id = x.id /\ y.of = x.of /\ y.from = x.from /\ y.text = x.text
                     /\ y.deleted => x.deleted
               /\ \A y \in RowsOf(b, l, r) : \E x \in RowsOf(e, l, r) :
                     y.deleted => x.deleted
               /\ Shown(e) = Shown(b) /\ Met(e) = Met(b)
    <3>1. e = Deleted(b, from, n)
      BY <2>1
    <3>2. /\ \A x \in RowsOf(Deleted(b, from, n), l, r) : \E y \in RowsOf(b, l, r) :
                /\ y.id = x.id /\ y.of = x.of /\ y.from = x.from /\ y.text = x.text
                /\ y.deleted => x.deleted
          /\ \A y \in RowsOf(b, l, r) : \E x \in RowsOf(Deleted(b, from, n), l, r) :
                y.deleted => x.deleted
          /\ Shown(Deleted(b, from, n)) = Shown(b) /\ Met(Deleted(b, from, n)) = Met(b)
      BY RowsDeleted, Zenon
    <3> QED BY <3>1, <3>2, Zenon
  <2> QED BY <2>1, <2>2, <2>3
<1>3. \A r : RowsFollow(buf, e, log, log, r)
  BY <1>2 DEF RowsFollow
<1>4. MetShown(e, log)
  BY <1>2 DEF Deduced, MetShown
<1>5. Named(e, log, orphans)
  BY <1>2 DEF Deduced, Named
<1>6. Few(e)
  BY <1>2 DEF Deduced, Few
<1>7. Lacks(up, Unshown(e, log, orphans))
  <2>1. Unshown(e, log, orphans) \subseteq Unshown(buf, log, orphans)
    BY <1>2 DEF Unshown
  <2> QED BY <2>1, LacksMore DEF Deduced
<1>8. SplitShown(e, log, orphans)
  BY <1>2 DEF Deduced, SplitShown
<1>9. SameNick(e, log, orphans)
  BY <1>2 DEF Deduced, SameNick
<1> QED BY <1>3, <1>4, <1>5, <1>6, <1>7, <1>8, <1>9 DEF Deduced

\* A tombstone at once, and the line for it.
LEMMA DeleteAhead ==
    ASSUME IInv, IInv', EchoInv, AheadInv, NEW i, Delete(i) PROVE AheadInv'
<1>1. PICK n : n = IF buf.rows[i].of # 0 THEN buf.rows[i].of ELSE buf.rows[i].id
  OBVIOUS
<1>2. PICK q : q = [kind |-> "delete", names |-> n]
  OBVIOUS
<1>3. /\ Own(i) /\ buf' = Deleted(buf, nick, n) /\ Request1(q)
      /\ editing' = IF editing = n THEN 0 ELSE editing
      /\ missed' = IF online THEN missed ELSE missed \cup {log[n].root}
      /\ UNCHANGED <<online, wire, log, gone, orphans, lost, turns>>
  BY <1>1, <1>2, Zenon DEF Delete, serverVars
<1>4. PICK row : row = buf.rows[i]
  OBVIOUS
<1>5. /\ i \in 1..Len(buf.rows) /\ row.from \in OwnNicks /\ row.id # Local /\ Refers(row, log)
      /\ row.id \in 1..Len(log) /\ row.of \in 0..Len(log)
  BY <1>3, <1>4, RowOwned DEF Own, IInv, Sound, RowsRefer, NicksSound
<1>6. n \in 1..Len(log) /\ n \in Ids /\ log[n].root = log[row.id].root
      /\ (row.id = n \/ row.of = n)
  BY <1>1, <1>4, <1>5, LogIs DEF Refers, Local
<1>7. up \in Seq(Request) /\ OwnInv /\ buf \in Buffer /\ buf.rows \in Seq(Row)
      /\ LocalsPlain(buf.rows)
  BY LinesTyped DEF AheadInv
<1>8. row.from = nick
  BY <1>3, <1>4 DEF Own
<1>9. log[n].from \in OwnNicks
  BY <1>5, <1>6, <1>7 DEF OwnInv, OneAuthor, Refers, Local
<1>10. q \in Request /\ q.kind = "delete" /\ q.names = n
  BY <1>2, <1>6 DEF Request
<1>11. /\ up' = up \/ up' = Append(up, q)
       /\ Many(up', {"post"}) = Many(up, {"post"})
  BY <1>3, <1>10, RequestLoads
<1>12. OwnInv'
  <2>1. Lacks(up', Foreign(log))
    BY <1>9, <1>10, <1>11, <1>7, ForeignAppend
  <2>2. editing' # 0 => log[editing'].from \in OwnNicks
    BY <1>3, <1>7 DEF OwnInv
  <2> QED BY <1>3, <1>7, <2>1, <2>2, OwnSame
<1>13. ASSUME Roomy' PROVE RowsInv'
  <2>1. RowsInv
    BY <1>3, <1>11, <1>13 DEF Roomy, Load, AheadInv
  <2>2. Deduced(buf, log, up, orphans)
    BY <2>1 DEF RowsInv
  <2>3. /\ Deduced(buf', log, up, orphans)
        /\ \A r : RowsFollow(buf, buf', log, log, r)
    BY <1>3, <2>2, DeletedRows
  <2>4. q \notin Unshown(buf', log, orphans)
    <3> SUFFICES ASSUME log[n].root \notin orphans
                 PROVE  \E x \in RowsOf(buf', log, log[n].root) : x.deleted
      BY <1>10 DEF Unshown
    <3>1. row \in RowsOf(buf, log, log[n].root)
      <4>1. i \in Shown(buf)
        BY <1>4, <1>5 DEF Shown
      <4> QED BY <1>4, <1>6, <1>7, <4>1, RowsAre
    <3>2. RowsRefer(buf, log) /\ RowsDiffer(buf, log, orphans) /\ Len(log) \in Nat
      BY LogIs DEF IInv, Sound
    <3>3. \E x \in RowsOf(Deleted(buf, nick, n), log, log[n].root) : x.deleted
      BY <1>6, <1>7, <1>8, <3>1, <3>2, DeletedHit
    <3> QED BY <1>3, <3>3
  <2>5. Lacks(up', Unshown(buf', log, orphans))
    <3>1. \A T : Lacks(Append(up, q), T) <=> Lacks(up, T) /\ q \notin T
      BY <1>7, <1>10, LacksAppend
    <3>2. Lacks(up, Unshown(buf', log, orphans))
      BY <2>3 DEF Deduced
    <3> QED BY <1>11, <2>4, <3>1, <3>2
  <2>6. Deduced(buf', log', up', orphans')
    BY <1>3, <2>3, <2>5 DEF Deduced
  <2>7. ASSUME NEW r \in Roots(log) \ (missed' \cup orphans)
        PROVE  Tracked(buf', wire', log', up', gone', r)
    <3>1. Tracked(buf, wire, log, up, gone, r)
      BY <1>3, <2>1 DEF RowsInv, AllTracked
    <3>2. EditsFollow(up, up', log, log, r)
      BY <1>10, <1>11, EditsFollowAppend
    <3> QED BY <1>3, <2>3, <3>1, <3>2, LinesFollowSelf, SameVersionsSelf, TrackedStep
  <2> QED BY <1>3, <2>6, <2>7 DEF RowsInv, AllTracked
<1> QED BY <1>12, <1>13 DEF AheadInv

\* What the first line says, if it brings a version.
LEMMA LineSays ==
    ASSUME IInv, OwnInv, wire # <<>>, NEW m, m = wire[1], m.kind # "delete"
    PROVE  /\ m \in Entry /\ m.id \in 1..Len(log) /\ m = log[m.id] /\ m.id \in Nat
           /\ m.id # 0 /\ m.id # Local
           /\ log[m.id].root = m.root /\ m.id \in VersionsOf(log, m.root)
           /\ m.root \in Roots(log) /\ m.root <= m.id /\ m.root \in Nat
           /\ 1 \in LinesOf(wire, m.root) /\ Head(wire) = m
           /\ \A r : m \notin Removes(log, r)
           /\ \A r : m \in Brings(r) => r = m.root
           /\ RowOf(m) \in Row /\ RowOf(m).id = m.id /\ RowOf(m).of = m.names
           /\ RowOf(m).text = m.text /\ ~RowOf(m).deleted
           /\ m.from \in Nicks /\ m.text \in Texts
           /\ m.kind = "post" => m.root = m.id /\ m.names = 0
           /\ m.kind = "edit" => /\ m.names \in 1..Len(log) /\ log[m.names].root = m.root
                                 /\ m.names < m.id /\ m.root <= m.names
<1>1. m = Head(wire) /\ 1 \in 1..Len(wire)
  BY LinesTyped
<1>2. m \in Entry /\ m.id \in 1..Len(log) /\ m = log[m.id]
  BY <1>1, LineIs
<1>3. m.from \in Nicks /\ m.text \in Texts /\ m.kind \in {"post", "edit"}
  BY <1>2 DEF Entry
<1>4. m.id \in Nat /\ m.id # 0 /\ m.id # Local
  BY <1>2, LogIs DEF Local
<1>5. m.root \in Roots(log) /\ m.root <= m.id /\ m.root \in Nat
  BY <1>2, LogIs DEF OwnInv, OneAuthor, Roots
<1>6. /\ m.names \in 0..(m.id - 1) /\ (m.kind = "post" <=> m.names = 0)
      /\ m.root = IF m.names = 0 THEN m.id ELSE log[m.names].root
  BY <1>2 DEF IInv, LogSound
<1>7. m \notin Deletion
  BY <1>3 DEF Deletion
<1>8. RowOf(m) \in Row
  BY <1>2, RowOfIs
<1>9. /\ RowOf(m).id = m.id /\ RowOf(m).of = m.names
      /\ RowOf(m).text = m.text /\ ~RowOf(m).deleted
  BY DEF RowOf
<1>10. m.kind = "edit" => /\ m.names \in 1..Len(log) /\ log[m.names].root = m.root
                          /\ m.names < m.id /\ m.root <= m.names
  <2> SUFFICES ASSUME m.kind = "edit"
               PROVE  /\ m.names \in 1..Len(log) /\ log[m.names].root = m.root
                      /\ m.names < m.id /\ m.root <= m.names
    OBVIOUS
  <2>1. m.names \in 1..Len(log) /\ m.names < m.id /\ log[m.names].root = m.root
    BY <1>2, <1>4, <1>6, LogIs
  <2> QED BY <2>1 DEF OwnInv, OneAuthor
<1>11. m.id \in VersionsOf(log, m.root) /\ 1 \in LinesOf(wire, m.root)
  BY <1>1, <1>2 DEF VersionsOf, LinesOf, Brings
<1>12. \A r : m \notin Removes(log, r) /\ (m \in Brings(r) => r = m.root)
  BY <1>7 DEF Removes, Brings
<1> QED BY <1>1, <1>2, <1>3, <1>4, <1>5, <1>6, <1>8, <1>9, <1>10, <1>11, <1>12

\* The first line is about another message.
LEMMA OtherTracked ==
    ASSUME IInv, wire # <<>>, wire' = Tail(wire), UNCHANGED <<log, up, gone>>, NEW r,
           Tracked(buf, wire, log, up, gone, r), RowsFollow(buf, buf', log, log, r),
           wire[1] \notin Brings(r), wire[1] \notin Removes(log, r)
    PROVE  Tracked(buf', wire', log', up', gone', r)
<1>1. LinesFollow(wire, wire', log, log, r)
  BY LinesTyped, LinesTail
<1> QED BY <1>1, SameVersionsSelf, EditsFollowSelf, TrackedStep

\* A tombstone is there, or is made by a line behind the first.
LEMMA BuriedTail ==
    ASSUME IInv, wire # <<>>, NEW r, Buried(buf, wire, log, r), wire[1] \notin Removes(log, r),
           NEW e, (\E row \in RowsOf(buf, log, r) : row.deleted) =>
                     \E row \in RowsOf(e, log, r) : row.deleted
    PROVE  Buried(e, Tail(wire), log, r)
<1>1. PICK no \in BOOLEAN : no = FALSE
  OBVIOUS
<1>2. Head(wire) \notin Removes(log, r) /\ wire \in Seq(Entry \cup Deletion)
  BY LinesTyped
<1>3. ASSUME After(wire, Removes(log, r), Brings(r), no)
      PROVE  After(Tail(wire), Removes(log, r), Brings(r), no)
  BY <1>1, <1>2, <1>3, AfterTail
<1> QED BY <1>1, <1>3 DEF Buried

\* The line brings what was met, and an older version than the row's.
LEMMA KnownTracked ==
    ASSUME IInv, OwnInv, RowsInv, wire # <<>>, NEW m, m = wire[1], m.kind # "delete",
           m.id \in Met(buf), NEW r, r = m.root, Tracked(buf, wire, log, up, gone, r),
           r \notin gone => \A row \in RowsOf(buf, log, r) : ~row.deleted => m.id <= row.id
    PROVE  Tracked(buf, Tail(wire), log, up, gone, r)
<1>1. /\ m.id \in 1..Len(log) /\ m.id \in Nat /\ log[m.id].root = r
      /\ 1 \in LinesOf(wire, r) /\ m \notin Removes(log, r)
  BY LineSays
<1>2. RowsOf(buf, log, r) # {}
  BY <1>1 DEF RowsInv, Deduced, MetShown
<1>3. ASSUME r \in gone PROVE Buried(buf, Tail(wire), log, r)
  BY <1>1, <1>3, BuriedTail DEF Tracked
<1>4. ASSUME r \notin gone PROVE OnItsWay(buf, Tail(wire), log, up, r)
  <2> SUFFICES ASSUME NEW row \in RowsOf(buf, log, r), ~row.deleted
               PROVE  Path(Tail(wire), log, r, row.id) /\ Current(buf, log, up, r, row)
    BY <1>2 DEF OnItsWay
  <2>1. Path(wire, log, r, row.id) /\ Current(buf, log, up, r, row)
    BY <1>4 DEF Tracked, OnItsWay
  <2>2. row.id \in Nat /\ m.id <= row.id
    BY <1>4, RowsIn
  <2>3. PICK w \in Seq(Entry \cup Deletion) : w = wire
    BY LinesTyped
  <2>4. PICK l : l = log
    OBVIOUS
  <2>5. Path(Tail(w), l, r, w[1].id)
    BY <1>1, <2>1, <2>3, <2>4, PathTailHit
  <2>6. PICK z \in Seq(Entry \cup Deletion) : z = Tail(w)
    BY <2>3, LineIs DEF WireSound
  <2>7. \A k \in LinesOf(z, r) : z[k].id \in Nat
    <3>1. \A x \in Brings(r) : x.id \in Nat
      BY DEF Brings, Entry, Ids
    <3> QED BY <3>1 DEF LinesOf
  <2>8. Len(z) \in Nat /\ Len(l) \in Nat
    BY <2>4, <2>6, LogIs
  <2>9. PICK x \in Nat : x = m.id
    BY <1>1
  <2>10. Path(z, l, r, x)
    BY <2>3, <2>5, <2>6, <2>9
  <2>11. Path(z, l, r, row.id)
    BY <2>2, <2>7, <2>8, <2>9, <2>10, PathLater
  <2> QED BY <2>1, <2>3, <2>4, <2>6, <2>11
<1> QED BY <1>2, <1>3, <1>4 DEF Tracked

\* An edit that rewrites nothing, of which the buffer knows the id, is older than the row.
LEMMA KnownEdit ==
    ASSUME IInv, OwnInv, RowsInv, wire # <<>>, NEW m, m = wire[1], m.kind = "edit",
           ~Editable(buf, m.from, m.names), m.id \in Met(buf), NEW r, r = m.root,
           r \notin orphans, r \notin gone, Tracked(buf, wire, log, up, gone, r),
           NEW row \in RowsOf(buf, log, r), ~row.deleted
    PROVE  m.id <= row.id
<1>1. /\ m.id \in 1..Len(log) /\ m.id \in Nat /\ log[m.id].root = r /\ m = log[m.id]
      /\ 1 \in LinesOf(wire, r) /\ m.id \in VersionsOf(log, r) /\ r \in Roots(log)
      /\ m.names \in 1..Len(log) /\ log[m.names].root = r /\ m.names < m.id /\ r <= m.names
      /\ r \in Nat
  BY LineSays
<1>2. PICK n \in Nat : n = m.names
  BY <1>1, LogIs
<1>3. /\ row.id \in 1..Len(log) /\ row.id \in Nat /\ row.id \in VersionsOf(log, r)
      /\ row.from = log[row.id].from
  BY RowsIn
<1>4. row.from = m.from
  BY <1>1 DEF RowsInv, Deduced, SameNick
<1>5. row.id # n /\ row.of # n
  <2> SUFFICES ASSUME row.id = n \/ row.of = n PROVE FALSE
    OBVIOUS
  <2>1. PICK k \in Shown(buf) : buf.rows[k] = row /\ log[buf.rows[k].id].root = r
    BY LinesTyped, RowsAre
  <2>2. PICK i : i = FirstNamed(buf.rows, n)
    OBVIOUS
  <2>3. k \in 1..Len(buf.rows) /\ Matches(buf.rows[k], n)
    BY <1>1, <1>2, <2>1 DEF Shown, Matches
  <2>4. i \in 1..Len(buf.rows) /\ Matches(buf.rows[i], n)
    BY <2>2, <2>3, LinesTyped, FirstNamedIs
  <2>5. Refers(buf.rows[i], log)
    BY <2>4 DEF IInv, Sound, RowsRefer
  <2>6. buf.rows[i].id # 0 /\ log[buf.rows[i].id].root = r
    BY <1>1, <1>2, <2>4, <2>5 DEF Refers, Matches
  <2>7. i \in Shown(buf)
    BY <2>4, <2>6 DEF Shown, Local
  <2>8. buf.rows[i] \in RowsOf(buf, log, r)
    BY <2>6, <2>7, LinesTyped, RowsAre
  <2>9. buf.rows[i] = row
    BY <2>8, RowMet
  <2>10. i # 0
    BY <2>4, LinesTyped
  <2> QED BY <1>2, <1>4, <2>2, <2>9, <2>10 DEF Editable
<1>6. Path(wire, log, r, row.id) /\ Current(buf, log, up, r, row)
  BY DEF Tracked, OnItsWay
<1>7. n # r
  BY <1>1, <1>5 DEF RowsInv, Deduced, Named
<1>8. ~Gap(log, r, n, m.id)
  BY <1>1, <1>2, <1>6, <1>7 DEF Current, Chained
<1>9. ~Gap(log, r, row.id, m.id)
  <2>1. PICK w \in Seq(Entry \cup Deletion) : w = wire
    BY LinesTyped
  <2>2. PICK l : l = log
    OBVIOUS
  <2>3. ~Gap(l, r, row.id, w[1].id)
    BY <1>1, <1>6, <2>1, <2>2, PathTailHit
  <2> QED BY <2>1, <2>2, <2>3
<1>10. n \in VersionsOf(log, r)
  BY <1>1, <1>2 DEF VersionsOf
<1> QED BY <1>1, <1>2, <1>3, <1>5, <1>8, <1>9, <1>10 DEF Gap

\* An edit in place brings the row a version further.
LEMMA EditTracked ==
    ASSUME IInv, OwnInv, wire # <<>>, NEW m, m = wire[1], m.kind = "edit", NEW r, r = m.root,
           r \notin orphans, Tracked(buf, wire, log, up, gone, r),
           NEW e, Retold(buf, e, log, r, m.from, m.names, m.id, m.text)
    PROVE  Tracked(e, Tail(wire), log, up, gone, r)
<1>1. /\ m.id \in 1..Len(log) /\ m.id \in Nat /\ log[m.id].root = r /\ m = log[m.id]
      /\ 1 \in LinesOf(wire, r) /\ m.id \in VersionsOf(log, r) /\ m.id # 0
      /\ m \notin Removes(log, r)
  BY LineSays
<1>2. PICK n : n = m.names
  OBVIOUS
<1>3. PICK x \in RowsOf(buf, log, r), y \in RowsOf(e, log, r) :
        /\ \A z \in RowsOf(buf, log, r) : z = x
        /\ \A z \in RowsOf(e, log, r) : z = y
        /\ ~x.deleted /\ ~y.deleted /\ (n = x.id \/ n = r)
        /\ y.id = m.id /\ y.text = m.text
        /\ Met(e) = Met(buf) \cup {n, x.id, m.id}
  BY <1>1, <1>2 DEF Retold
<1>4. ASSUME r \in gone PROVE Buried(e, Tail(wire), log, r)
  BY <1>1, <1>3, <1>4, BuriedTail DEF Tracked
<1>5. ASSUME r \notin gone PROVE OnItsWay(e, Tail(wire), log, up, r)
  <2>1. Path(wire, log, r, x.id) /\ Current(buf, log, up, r, x)
    BY <1>3, <1>5 DEF Tracked, OnItsWay
  <2>2. Path(Tail(wire), log, r, m.id) /\ ~Gap(log, r, x.id, m.id)
    <3>1. PICK w \in Seq(Entry \cup Deletion) : w = wire
      BY LinesTyped
    <3>2. PICK l : l = log
      OBVIOUS
    <3>3. Path(Tail(w), l, r, w[1].id) /\ ~Gap(l, r, x.id, w[1].id)
      BY <1>1, <2>1, <3>1, <3>2, PathTailHit
    <3> QED BY <3>1, <3>2, <3>3
  <2>3. x.id \in Nat /\ x.id \in Met(buf) /\ VersionsOf(log, r) \subseteq Nat
    BY RowsIn, RowMet DEF VersionsOf
  <2>4. \A v \in VersionsOf(log, r) : v <= m.id => v \in Met(e)
    BY <1>1, <1>3, <2>1, <2>2, <2>3 DEF Current, Gap
  <2>5. Chained(e, log, r)
    <3> SUFFICES ASSUME NEW v \in VersionsOf(log, r) \cap Met(e)
                 PROVE  v = r \/ log[v].names = r \/ ~Gap(log, r, log[v].names, v)
      BY DEF Chained
    <3>1. CASE v \in Met(buf)
      BY <2>1, <3>1 DEF Current, Chained
    <3>2. CASE v = m.id
      BY <1>1, <1>2, <1>3, <2>2, <3>2
    <3> QED BY <1>3, <2>3, <3>1, <3>2
  <2>6. Told(e, log, up, r, y)
    BY <1>1, <1>3 DEF Told
  <2> QED BY <1>3, <2>2, <2>4, <2>5, <2>6 DEF OnItsWay, Current
<1> QED BY <1>3, <1>4, <1>5 DEF Tracked

\* A line the buffer has not met makes a row of its own.
LEMMA LineMakes ==
    ASSUME IInv, EchoInv, OwnInv, Roomy, Few(buf), wire # <<>>, NEW m, m = wire[1],
           m.kind # "delete", m.id \notin Met(buf), NEW e, e = Appended(buf, RowOf(m))
    PROVE  /\ Few(e) /\ Met(e) = Met(buf) \cup {m.id}
           /\ \A r : r # m.root => RowsOf(e, log, r) = RowsOf(buf, log, r)
           /\ RowsOf(e, log, m.root) = RowsOf(buf, log, m.root) \cup {RowOf(m)}
<1>1. PICK row \in Row : row = RowOf(m)
  BY LineSays
<1>2. /\ row.id = m.id /\ row.id # Local /\ log[row.id].root = m.root
      /\ m.id \in 1..Len(log) /\ m.from \in Nicks
  BY <1>1, LineSays
<1>3. Fresh(buf, row)
  BY <1>2 DEF Fresh, Met
<1>4. Len(Made(buf, row)) <= Load /\ Few(MadeBuf(buf, row))
  BY <1>1, <1>2, <1>3, LineFits
<1>5. buf \in Buffer
  BY LinesTyped
<1>6. Len(Made(buf, row)) <= MaxRows
  <2>1. Made(buf, row) \in Seq(Row)
    BY <1>5, MadeIs
  <2>2. Len(Made(buf, row)) \in Nat /\ MaxRows \in Nat
    BY <2>1, LimitsAssumption
  <2>3. Load \in Nat
    BY LogIs, LinesTyped, ManyIn DEF Load
  <2> QED BY <1>4, <2>2, <2>3 DEF Roomy
<1>7. e = MadeBuf(buf, row)
  BY <1>1, <1>3, <1>5, <1>6, AppendedRoom
<1>8. Met(e) = Met(buf) \cup {m.id}
  BY <1>2, <1>7 DEF Met, MadeBuf, Known
<1>9. ASSUME NEW r, NEW x
      PROVE  x \in RowsOf(e, log, r) <=>
                x \in RowsOf(buf, log, r) \/ (m.root = r /\ x = row)
  <2>1. PICK l : l = log
    OBVIOUS
  <2>2. \A z : z \in RowsOf(MadeBuf(buf, row), l, r) <=>
           z \in RowsOf(buf, l, r) \/ (row.id # Local /\ l[row.id].root = r /\ z = row)
    BY <1>5, RowsMade
  <2> QED BY <1>2, <1>7, <2>1, <2>2
<1>10. ASSUME NEW r, r # m.root PROVE RowsOf(e, log, r) = RowsOf(buf, log, r)
  <2>1. \A x : x \in RowsOf(e, log, r) <=> x \in RowsOf(buf, log, r)
    BY <1>9, <1>10
  <2> QED BY <2>1
<1>11. RowsOf(e, log, m.root) = RowsOf(buf, log, m.root) \cup {row}
  BY <1>9
<1> QED BY <1>1, <1>4, <1>7, <1>8, <1>10, <1>11

\* So the rows of other messages are what they were.
LEMMA MadeDeduced ==
    ASSUME IInv, OwnInv, wire # <<>>, NEW m, m = wire[1], m.kind # "delete",
           Deduced(buf, log, up, orphans), NEW e, Few(e), Met(e) = Met(buf) \cup {m.id},
           \A r : r # m.root => RowsOf(e, log, r) = RowsOf(buf, log, r),
           RowsOf(e, log, m.root) = RowsOf(buf, log, m.root) \cup {RowOf(m)},
           NEW o, o = orphans \/ o = orphans \cup {m.root},
           m.root \in o \/ (RowsOf(buf, log, m.root) = {} /\ m.kind = "post")
    PROVE  /\ Deduced(e, log, up, o)
           /\ \A r : r # m.root => RowsFollow(buf, e, log, log, r)
<1>1. /\ log[m.id].root = m.root /\ RowOf(m).id = m.id
      /\ m.kind = "post" => m.root = m.id
  BY LineSays
<1>2. MetShown(e, log)
  <2> SUFFICES ASSUME NEW v \in Met(e) PROVE RowsOf(e, log, log[v].root) # {}
    BY DEF MetShown
  <2>1. CASE v = m.id
    BY <1>1, <2>1
  <2>2. CASE v \in Met(buf)
    BY <2>2 DEF Deduced, MetShown
  <2> QED BY <2>1, <2>2
<1>3. m.names = RowOf(m).of /\ (m.kind = "post" => m.names = 0)
  BY LineSays
<1>4. Named(e, log, o)
  BY <1>1, <1>3 DEF Deduced, Named
<1>5. \A r : RowsOf(buf, log, r) \subseteq RowsOf(e, log, r)
  OBVIOUS
<1>6. Unshown(e, log, o) \subseteq Unshown(buf, log, orphans)
  BY <1>5 DEF Unshown
<1>7. Lacks(up, Unshown(e, log, o))
  BY <1>6, LacksMore DEF Deduced
<1>8. ASSUME NEW r, r # m.root PROVE RowsFollow(buf, e, log, log, r)
  <2>1. Met(e) \cap VersionsOf(log, r) = Met(buf) \cap VersionsOf(log, r)
    BY <1>1, <1>8 DEF VersionsOf
  <2> QED BY <1>8, <2>1, SameRowsFollow
<1>9. SplitShown(e, log, o)
  BY DEF Deduced, SplitShown
<1>10. SameNick(e, log, o)
  <2> SUFFICES ASSUME NEW r \in Roots(log) \ o, NEW row \in RowsOf(e, log, r),
                      NEW v \in VersionsOf(log, r) \cap Met(e)
               PROVE  log[v].from = row.from
    BY DEF SameNick
  <2>1. log[v].root = r
    BY DEF VersionsOf
  <2>2. CASE r = m.root
    <3>1. RowsOf(buf, log, r) = {} /\ row = RowOf(m)
      BY <2>2
    <3>2. v = m.id
      BY <2>1, <3>1 DEF Deduced, MetShown
    <3> QED BY <3>1, <3>2, LineSays DEF RowOf
  <2>3. CASE r # m.root
    <3>1. row \in RowsOf(buf, log, r) /\ v \in Met(buf)
      BY <1>1, <2>1, <2>3
    <3> QED BY <3>1 DEF Deduced, SameNick
  <2> QED BY <2>2, <2>3
<1> QED BY <1>2, <1>4, <1>7, <1>8, <1>9, <1>10 DEF Deduced

\* A message the buffer has not met has no row, unless an edit has split it.
LEMMA FreshPost ==
    ASSUME IInv, OwnInv, wire # <<>>, NEW m, m = wire[1], m.kind = "post",
           m.id \notin Met(buf), m.root \notin orphans
    PROVE  RowsOf(buf, log, m.root) = {}
<1>1. m.root = m.id
  BY LineSays
<1> QED BY <1>1, RowMet

\* The first row of a message.
LEMMA FreshTracked ==
    ASSUME IInv, OwnInv, wire # <<>>, NEW m, m = wire[1], m.kind = "post", NEW r, r = m.root,
           Deduced(buf, log, up, orphans), RowsOf(buf, log, r) = {},
           Tracked(buf, wire, log, up, gone, r), NEW e, Met(e) = Met(buf) \cup {m.id},
           RowsOf(e, log, r) = {RowOf(m)}
    PROVE  Tracked(e, Tail(wire), log, up, gone, r)
<1>1. /\ m.id \in 1..Len(log) /\ m.id \in Nat /\ log[m.id].root = r /\ m = log[m.id]
      /\ 1 \in LinesOf(wire, r) /\ m.id \in VersionsOf(log, r) /\ m.id # 0
      /\ m \notin Removes(log, r) /\ r = m.id
      /\ RowOf(m).id = m.id /\ RowOf(m).text = m.text /\ ~RowOf(m).deleted
  BY LineSays
<1>2. ASSUME r \in gone PROVE Buried(e, Tail(wire), log, r)
  BY <1>1, <1>2, BuriedTail DEF Tracked
<1>3. ASSUME r \notin gone PROVE OnItsWay(e, Tail(wire), log, up, r)
  <2>1. Path(wire, log, r, 0)
    BY <1>3 DEF Tracked, OnItsWay
  <2>2. Path(Tail(wire), log, r, m.id)
    <3>1. PICK w \in Seq(Entry \cup Deletion) : w = wire
      BY LinesTyped
    <3>2. PICK l : l = log
      OBVIOUS
    <3>3. PICK z : z = 0
      OBVIOUS
    <3>4. Path(w, l, r, z)
      BY <2>1, <3>1, <3>2, <3>3
    <3>5. Path(Tail(w), l, r, w[1].id)
      BY <1>1, <3>1, <3>4, PathTailHit
    <3> QED BY <3>1, <3>2, <3>5
  <2>3. \A v \in VersionsOf(log, r) : v \in Nat /\ r <= v
    BY LogIs DEF VersionsOf, OwnInv, OneAuthor
  <2>4. \A v \in VersionsOf(log, r) : v <= m.id => v \in Met(e)
    BY <1>1, <2>3
  <2>5. Chained(e, log, r)
    <3> SUFFICES ASSUME NEW v \in VersionsOf(log, r) \cap Met(e) PROVE v = r
      BY DEF Chained
    <3>1. log[v].root = r
      BY DEF VersionsOf
    <3>2. v \notin Met(buf)
      BY <3>1 DEF Deduced, MetShown
    <3> QED BY <1>1, <3>2
  <2>6. Told(e, log, up, r, RowOf(m))
    BY <1>1 DEF Told
  <2> QED BY <1>1, <2>2, <2>4, <2>5, <2>6 DEF OnItsWay, Current
<1> QED BY <1>2, <1>3 DEF Tracked

\* The row a deletion finds is one of the message it names.
LEMMA NamedRow ==
    ASSUME IInv, NEW n \in 1..Len(log), LastNamed(buf.rows, n) # 0
    PROVE  buf.rows[LastNamed(buf.rows, n)] \in RowsOf(buf, log, log[n].root)
<1>1. PICK i : i = LastNamed(buf.rows, n)
  OBVIOUS
<1>2. i \in 1..Len(buf.rows) /\ Matches(buf.rows[i], n) /\ n # 0
  BY <1>1, LinesTyped, LastNamedIs, LogIs
<1>3. Refers(buf.rows[i], log)
  BY <1>2 DEF IInv, Sound, RowsRefer
<1>4. buf.rows[i].id # Local
  BY <1>2, LinesTyped DEF Matches, LocalsPlain, Local
<1>5. log[buf.rows[i].id].root = log[n].root
  BY <1>2, <1>3, <1>4 DEF Refers, Matches, Local
<1>6. i \in Shown(buf)
  BY <1>2, <1>4 DEF Shown
<1> QED BY <1>1, <1>5, <1>6, LinesTyped, RowsAre

\* One message with a row more is excepted.
LEMMA DeducedWider ==
    ASSUME NEW b, NEW l, NEW u, NEW o, Deduced(b, l, u, o), NEW r, RowsOf(b, l, r) # {}
    PROVE  Deduced(b, l, u, o \cup {r})
<1>1. Unshown(b, l, o \cup {r}) \subseteq Unshown(b, l, o)
  BY DEF Unshown
<1>2. Lacks(u, Unshown(b, l, o \cup {r}))
  BY <1>1, LacksMore DEF Deduced
<1>3. Named(b, l, o \cup {r}) /\ SplitShown(b, l, o \cup {r}) /\ SameNick(b, l, o \cup {r})
  BY DEF Deduced, Named, SplitShown, SameNick
<1> QED BY <1>2, <1>3 DEF Deduced

\* A deletion makes the tombstone, or the line behind it that brings the message does
\* not come: the message is not there yet.
LEMMA DeleteTracked ==
    ASSUME IInv, OwnInv, wire # <<>>, NEW m, m = wire[1], m \in Deletion,
           NEW r, r = m.names, r \in Roots(log) \cap gone,
           ~Disowned(buf, m.from, m.names),
           r \notin orphans, Deduced(buf, log, up, orphans), Tracked(buf, wire, log, up, gone, r),
           NEW e, e = Deleted(buf, m.from, m.names), RowsFollow(buf, e, log, log, r)
    PROVE  Tracked(e, Tail(wire), log, up, gone, r)
<1>1. wire \in Seq(Entry \cup Deletion) /\ Head(wire) = m /\ log[r].root = r /\ r \in 1..Len(log)
  BY LinesTyped DEF Roots
<1>2. 1 \notin LinesOf(wire, r)
  BY DEF LinesOf, Brings, Entry, Deletion
<1>3. LinesOf(wire, r) # {} => LinesOf(Tail(wire), r) # {}
  <2>1. \A i \in 1..Len(wire) :
           i = 1 \/ (i - 1 \in 1..Len(Tail(wire)) /\ Tail(wire)[i - 1] = wire[i])
    BY <1>1, TailAt
  <2>2. PICK q : q = Tail(wire)
    OBVIOUS
  <2> QED BY <1>2, <2>1, <2>2 DEF LinesOf
<1>4. RowsOf(e, log, r) # {} \/ LinesOf(Tail(wire), r) # {}
  BY <1>3 DEF Tracked, RowsFollow
<1>5. CASE RowsOf(buf, log, r) # {}
  <2>1. PICK y \in RowsOf(buf, log, r) : TRUE
    BY <1>5
  <2>2. y.id = r \/ y.of = r
    BY DEF Deduced, Named
  <2>3. y.from = m.from
    <3>1. PICK k \in Shown(buf) : buf.rows[k] = y
      BY LinesTyped, RowsAre
    <3>2. k \in 1..Len(buf.rows) /\ Matches(buf.rows[k], r)
      BY <1>1, <2>2, <3>1, LogIs DEF Shown, Matches
    <3>3. PICK i \in 1..Len(buf.rows) : i = LastNamed(buf.rows, r) /\ i # 0
      BY <3>2, LinesTyped, LastNamedIs
    <3>4. buf.rows[i] \in RowsOf(buf, log, r)
      BY <1>1, <3>3, NamedRow
    <3>5. buf.rows[i] = y
      BY <3>4, RowMet
    <3> QED BY <3>3, <3>5 DEF Disowned
  <2>4. PICK l : l = log
    OBVIOUS
  <2>5. \E x \in RowsOf(Deleted(buf, m.from, r), l, l[r].root) : x.deleted
    <3>1. /\ Len(l) \in Nat /\ RowsRefer(buf, l) /\ RowsDiffer(buf, l, orphans)
          /\ r \in 1..Len(l) /\ l[r].root \notin orphans /\ y \in RowsOf(buf, l, l[r].root)
      BY <1>1, <2>4, LogIs DEF IInv, Sound
    <3> QED BY <2>2, <2>3, <3>1, LinesTyped, DeletedHit
  <2>6. Buried(e, Tail(wire), log, r)
    BY <1>1, <2>4, <2>5 DEF Buried
  <2> QED BY <1>4, <2>6 DEF Tracked
<1>6. CASE RowsOf(buf, log, r) = {}
  <2>1. After(wire, Removes(log, r), Brings(r), FALSE)
    BY <1>6 DEF Tracked, Buried
  <2>2. PICK no \in BOOLEAN : no = FALSE
    OBVIOUS
  <2>3. PICK yes \in BOOLEAN : yes = TRUE
    OBVIOUS
  <2>4. After(Tail(wire), Removes(log, r), Brings(r), yes)
    BY <1>1, <2>1, <2>2, <2>3, AfterTail
  <2>5. LinesOf(Tail(wire), r) # {}
    BY <1>3, <1>6 DEF Tracked
  <2>6. After(Tail(wire), Removes(log, r), Brings(r), FALSE)
    BY <2>4, <2>5 DEF After, LinesOf
  <2> QED BY <1>4, <2>6 DEF Tracked, Buried
<1> QED BY <1>5, <1>6

\* A line is handled: what is left to show of each message.
LEMMA ReceiveRows ==
    ASSUME IInv, EchoInv, OwnInv, Roomy, RowsInv, Receive
    PROVE  RowsInv'
<1>1. PICK m : m = wire[1]
  OBVIOUS
<1>2. /\ wire # <<>> /\ wire' = Tail(wire)
      /\ UNCHANGED <<editing, online, up, log, gone, missed, lost, turns>>
  BY DEF Receive, serverVars
<1>3. wire \in Seq(Entry \cup Deletion) /\ m = Head(wire)
  BY <1>1, <1>2, LinesTyped
<1>4. \/ /\ m.kind = "delete" /\ buf' = Deleted(buf, m.from, m.names)
         /\ orphans' = IF Disowned(buf, m.from, m.names)
                       THEN orphans \cup {log[m.names].root} ELSE orphans
      \/ /\ m.kind = "edit" /\ Editable(buf, m.from, m.names)
         /\ buf' = Edited(buf, m.names, m.id, m.text) /\ UNCHANGED orphans
      \/ /\ m.kind = "edit" /\ ~Editable(buf, m.from, m.names) /\ buf' = Appended(buf, RowOf(m))
         /\ orphans' = IF m.id \in buf.ids \cup buf.aliases THEN orphans
                       ELSE orphans \cup {m.root}
      \/ /\ m.kind = "post" /\ buf' = Appended(buf, RowOf(m)) /\ UNCHANGED orphans
  BY <1>3, Zenon DEF Receive
<1>5. Deduced(buf, log, up, orphans)
  BY DEF RowsInv
<1>6. orphans \subseteq orphans'
  BY <1>4
<1>7. \A r \in Roots(log) \ (missed' \cup orphans') : Tracked(buf, wire, log, up, gone, r)
  BY <1>2, <1>6 DEF RowsInv, AllTracked
<1>8. ASSUME Deduced(buf', log, up, orphans'),
             \A r \in Roots(log) \ (missed' \cup orphans') :
                Tracked(buf', wire', log, up, gone, r)
      PROVE  RowsInv'
  <2>1. Deduced(buf', log', up', orphans')
    BY <1>2, <1>8
  <2>2. AllTracked'
    BY <1>2, <1>8 DEF AllTracked
  <2> QED BY <2>1, <2>2 DEF RowsInv
<1>9. ASSUME NEW r \in Roots(log) \ (missed' \cup orphans'), RowsFollow(buf, buf', log, log, r),
             m \notin Brings(r), m \notin Removes(log, r)
      PROVE  Tracked(buf', wire', log, up, gone, r)
  <2>1. Tracked(buf', wire', log', up', gone', r)
    BY <1>1, <1>2, <1>7, <1>9, OtherTracked
  <2> QED BY <1>2, <2>1
<1>10. m.kind # "delete" => /\ \A r : m \notin Removes(log, r) /\ (r # m.root => m \notin Brings(r))
                            /\ RowOf(m) \in Row /\ RowOf(m).id = m.id /\ m.id # Local
  BY <1>1, <1>2, LineSays
<1>11. CASE /\ m.kind = "delete" /\ buf' = Deleted(buf, m.from, m.names)
            /\ orphans' = IF Disowned(buf, m.from, m.names)
                          THEN orphans \cup {log[m.names].root} ELSE orphans
  <2>1. m \in Deletion /\ m.names \in 1..Len(log)
    BY <1>2, <1>3, <1>11, LineIs
  <2>2. m.names \in Roots(log) \cap gone
    <3>1. m \notin Stray(log, gone)
      BY <1>2, <1>3, LacksTail DEF OwnInv
    <3> QED BY <2>1, <3>1 DEF Stray
  <2>3. /\ Deduced(buf', log, up, orphans)
        /\ \A r : RowsFollow(buf, buf', log, log, r)
    BY <1>5, <1>11, DeletedRows
  <2>4. \A r : m \notin Brings(r)
    BY <2>1 DEF Brings, Entry, Deletion
  <2>5. ASSUME NEW r \in Roots(log) \ (missed' \cup orphans')
        PROVE  Tracked(buf', wire', log, up, gone, r)
    <3>1. CASE r = m.names
      <4>1. ~Disowned(buf, m.from, m.names)
        BY <1>11, <2>5, <3>1 DEF Roots
      <4>2. r \notin orphans
        BY <1>6
      <4>3. Tracked(buf', Tail(wire), log, up, gone, r)
        BY <1>1, <1>2, <1>5, <1>7, <1>11, <2>1, <2>2, <2>3, <3>1, <4>1, <4>2, DeleteTracked
      <4> QED BY <1>2, <4>3
    <3>2. CASE r # m.names
      <4>1. m \notin Removes(log, r)
        BY <2>2, <3>2 DEF Removes, Roots
      <4> QED BY <1>9, <2>3, <2>4, <4>1
    <3> QED BY <3>1, <3>2
  <2>6. Deduced(buf', log, up, orphans')
    <3>1. CASE Disowned(buf, m.from, m.names)
      <4>1. PICK n \in 1..Len(log) : n = m.names
        BY <2>1
      <4>2. RowsOf(buf, log, log[n].root) # {}
        BY <3>1, <4>1, NamedRow DEF Disowned
      <4>3. RowsOf(buf', log, log[n].root) # {}
        BY <2>3, <4>2 DEF RowsFollow
      <4>4. PICK e : e = buf'
        OBVIOUS
      <4>5. Deduced(e, log, up, orphans \cup {log[n].root})
        BY <2>3, <4>3, <4>4, DeducedWider
      <4> QED BY <1>11, <3>1, <4>1, <4>4, <4>5
    <3>2. CASE ~Disowned(buf, m.from, m.names)
      BY <1>11, <2>3, <3>2
    <3> QED BY <3>1, <3>2
  <2> QED BY <1>8, <2>5, <2>6
<1>12. CASE /\ m.kind = "edit" /\ Editable(buf, m.from, m.names)
            /\ buf' = Edited(buf, m.names, m.id, m.text) /\ UNCHANGED orphans
  <2>1. PICK n \in 1..Len(log) : n = m.names
    BY <1>1, <1>2, <1>12, LineSays
  <2>2. PICK new \in 0..Len(log) : new = m.id /\ new # 0
    <3>1. m.id \in 1..Len(log) /\ m.id \in 0..Len(log) /\ m.id # 0
      BY <1>1, <1>2, <1>12, LineSays, LogIs
    <3> QED BY <3>1
  <2>3. /\ log[new].root = log[n].root /\ log[new].from = m.from /\ log[n].root = m.root
        /\ m.text \in Texts
    BY <1>1, <1>2, <1>12, <2>1, <2>2, LineSays
  <2>4. PICK r0 : r0 = m.root
    OBVIOUS
  <2>5. PICK e : e = buf'
    OBVIOUS
  <2>6. PICK from : from = m.from
    OBVIOUS
  <2>7. PICK text \in Texts : text = m.text
    BY <2>3
  <2>8. /\ Deduced(e, log, up, orphans)
        /\ \A r : r # r0 => RowsFollow(buf, e, log, log, r)
        /\ r0 \notin orphans => Retold(buf, e, log, r0, from, n, new, text)
    <3>1. /\ Editable(buf, from, n) /\ e = Edited(buf, n, new, text)
          /\ new # 0 => log[new].root = log[n].root /\ log[new].from = from
          /\ r0 = log[n].root
      BY <1>12, <2>1, <2>2, <2>3, <2>4, <2>5, <2>6, <2>7
    <3> QED BY <1>5, <3>1, EditedRows
  <2>9. ASSUME NEW r \in Roots(log) \ (missed' \cup orphans')
        PROVE  Tracked(buf', wire', log, up, gone, r)
    <3>1. CASE r = m.root
      <4>1. Retold(buf, e, log, r, m.from, m.names, m.id, m.text)
        BY <1>12, <2>1, <2>2, <2>4, <2>6, <2>7, <2>8, <3>1
      <4>2. Tracked(e, Tail(wire), log, up, gone, r)
        BY <1>1, <1>2, <1>7, <1>12, <3>1, <4>1, EditTracked
      <4> QED BY <1>2, <2>5, <4>2
    <3>2. CASE r # m.root
      BY <1>9, <1>10, <1>12, <2>4, <2>5, <2>8, <3>2
    <3> QED BY <3>1, <3>2
  <2> QED BY <1>8, <1>12, <2>5, <2>8, <2>9
<1>13. CASE /\ m.kind \in {"edit", "post"} /\ m.id \in Met(buf) /\ buf' = Appended(buf, RowOf(m))
            /\ UNCHANGED orphans /\ (m.kind = "edit" => ~Editable(buf, m.from, m.names))
  <2>1. buf' = buf
    <3>1. ~Fresh(buf, RowOf(m))
      BY <1>10, <1>13 DEF Fresh, Met
    <3> QED BY <1>10, <1>13, <3>1, LinesTyped, AppendedIs
  <2>2. ASSUME NEW r \in Roots(log) \ (missed' \cup orphans')
        PROVE  Tracked(buf', wire', log, up, gone, r)
    <3>1. CASE r = m.root
      <4>1. ASSUME r \notin gone, NEW row \in RowsOf(buf, log, r), ~row.deleted
            PROVE  m.id <= row.id
        <5>1. CASE m.kind = "edit"
          BY <1>1, <1>2, <1>7, <1>13, <3>1, <4>1, <5>1, KnownEdit
        <5>2. CASE m.kind = "post"
          <6>1. m.id = r
            BY <1>1, <1>2, <3>1, <5>2, LineSays
          <6>2. row.id \in 1..Len(log) /\ log[row.id].root = r
            BY RowsIn DEF VersionsOf
          <6> QED BY <6>1, <6>2 DEF OwnInv, OneAuthor
        <5> QED BY <1>13, <5>1, <5>2
      <4>2. Tracked(buf, Tail(wire), log, up, gone, r)
        BY <1>1, <1>2, <1>7, <1>13, <3>1, <4>1, KnownTracked
      <4> QED BY <1>2, <2>1, <4>2
    <3>2. CASE r # m.root
      <4>1. RowsFollow(buf, buf', log, log, r)
        BY <2>1, RowsFollowSelf
      <4> QED BY <1>9, <1>10, <1>13, <3>2, <4>1
    <3> QED BY <3>1, <3>2
  <2> QED BY <1>5, <1>8, <1>13, <2>1, <2>2
<1>14. CASE /\ m.kind \in {"edit", "post"} /\ m.id \notin Met(buf)
            /\ buf' = Appended(buf, RowOf(m))
            /\ m.kind = "edit" => orphans' = orphans \cup {m.root}
            /\ m.kind = "post" => UNCHANGED orphans
  <2>1. PICK e : e = buf'
    OBVIOUS
  <2>2. Few(buf)
    BY <1>5 DEF Deduced
  <2>3. /\ Few(e) /\ Met(e) = Met(buf) \cup {m.id}
        /\ \A r : r # m.root => RowsOf(e, log, r) = RowsOf(buf, log, r)
        /\ RowsOf(e, log, m.root) = RowsOf(buf, log, m.root) \cup {RowOf(m)}
    BY <1>1, <1>2, <1>14, <2>1, <2>2, LineMakes
  <2>4. m.root \in orphans' \/ (RowsOf(buf, log, m.root) = {} /\ m.kind = "post")
    BY <1>1, <1>2, <1>14, FreshPost
  <2>5. PICK o : o = orphans'
    OBVIOUS
  <2>6. /\ Deduced(e, log, up, o)
        /\ \A r : r # m.root => RowsFollow(buf, e, log, log, r)
    BY <1>1, <1>2, <1>5, <1>6, <1>14, <2>3, <2>4, <2>5, MadeDeduced
  <2>7. ASSUME NEW r \in Roots(log) \ (missed' \cup orphans')
        PROVE  Tracked(buf', wire', log, up, gone, r)
    <3>1. CASE r = m.root
      <4>1. m.kind = "post" /\ RowsOf(buf, log, r) = {}
        BY <2>4, <3>1
      <4>2. RowsOf(e, log, r) = {RowOf(m)}
        BY <2>3, <3>1, <4>1
      <4>3. Tracked(e, Tail(wire), log, up, gone, r)
        BY <1>1, <1>2, <1>5, <1>7, <2>3, <3>1, <4>1, <4>2, FreshTracked
      <4> QED BY <1>2, <2>1, <4>3
    <3>2. CASE r # m.root
      BY <1>9, <1>10, <1>14, <2>1, <2>6, <3>2
    <3> QED BY <3>1, <3>2
  <2> QED BY <1>8, <2>1, <2>5, <2>6, <2>7
<1> QED BY <1>4, <1>11, <1>12, <1>13, <1>14 DEF Met

\* A line is handled.
LEMMA ReceiveAhead ==
    ASSUME IInv, EchoInv, AheadInv, Receive PROVE AheadInv'
<1>1. /\ wire # <<>> /\ wire' = Tail(wire)
      /\ UNCHANGED <<editing, online, up, log, gone, missed, lost, turns>>
  BY DEF Receive, serverVars
<1>2. Lacks(wire', Stray(log, gone))
  BY <1>1, LinesTyped, LacksTail DEF AheadInv, OwnInv
<1>3. OwnInv'
  BY <1>1, <1>2 DEF AheadInv, OwnInv
<1>4. ASSUME Roomy' PROVE RowsInv'
  <2>1. Roomy
    BY <1>1, <1>4 DEF Roomy, Load
  <2> QED BY <2>1, ReceiveRows DEF AheadInv
<1> QED BY <1>3, <1>4 DEF AheadInv

\* What was about a message on its way makes it one of the missed.
LEMMA DropLoses ==
    ASSUME IInv, Drop, NEW r, r \notin missed'
    PROVE  /\ LinesOf(wire, r) = {} /\ Lacks(wire, Removes(log, r))
           /\ Lacks(up, Rewriting(log, r))
<1>1. missed' = missed \cup {RootOf(m) : m \in ToSet(wire)}
                 \cup {log[q.names].root : q \in {p \in ToSet(up) : p.kind \in {"edit", "delete"}}}
  BY Zenon DEF Drop
<1>2. \A i \in 1..Len(wire) : RootOf(wire[i]) # r
  BY <1>1 DEF ToSet
<1>3. \A m \in Entry : m.kind # "delete"
  BY DEF Entry
<1>4. LinesOf(wire, r) = {}
  BY <1>2, <1>3 DEF LinesOf, Brings, RootOf
<1>5. Lacks(wire, Removes(log, r))
  BY <1>2 DEF Lacks, Removes, Deletion, RootOf
<1>6. Lacks(up, Rewriting(log, r))
  BY <1>1 DEF ToSet, Lacks, Rewriting
<1> QED BY <1>4, <1>5, <1>6

\* A lost connection takes the lines with it: what they told is missed.
LEMMA DropAhead ==
    ASSUME IInv, IInv', AheadInv, Drop PROVE AheadInv'
<1> DEFINE own == {i \in 1..Len(wire) : wire[i].kind = "post" /\ wire[i].from \in OwnNicks}
<1>1. /\ up' = <<>> /\ wire' = <<>> /\ UNCHANGED <<buf, editing, log, gone, orphans>>
      /\ lost' = lost + Many(up, {"post"}) + Cardinality(own)
      /\ missed \subseteq missed'
  BY DEF Drop, serverVars
<1>2. IsFiniteSet(own) /\ Cardinality(own) \in Nat
  <2>1. IsFiniteSet(1..Len(wire)) /\ own \in SUBSET (1..Len(wire))
    BY LinesTyped, FS_Interval
  <2> QED BY <2>1, FS_Subset, FS_CardinalityType
<1> HIDE DEF own
<1>3. Load' >= Load /\ Load' \in Nat
  <2>1. Many(up, {"post"}) \in Nat /\ lost \in Nat /\ Len(log) \in Nat
    BY LinesTyped, LogIs, ManyIn
  <2>2. Many(up', {"post"}) = 0
    BY <1>1, NoPosts
  <2>3. Load' = Len(log) + 0 + (lost + Many(up, {"post"}) + Cardinality(own))
    BY <1>1, <2>2 DEF Load
  <2> QED BY <1>2, <2>1, <2>3 DEF Load
<1>4. \A T : Lacks(up', T) /\ Lacks(wire', T)
  BY <1>1, LacksEmpty
<1>5. OwnInv'
  BY <1>1, <1>4 DEF AheadInv, OwnInv
<1>6. ASSUME Roomy' PROVE RowsInv'
  <2>1. RowsInv
    BY <1>3, <1>6, RoomyBefore DEF AheadInv
  <2>2. Deduced(buf', log', up', orphans')
    BY <1>1, <1>4, <2>1 DEF RowsInv, Deduced
  <2>3. ASSUME NEW r \in Roots(log) \ (missed' \cup orphans)
        PROVE  Tracked(buf', wire', log', up', gone', r)
    <3>1. Tracked(buf, wire, log, up, gone, r)
      BY <1>1, <2>1 DEF RowsInv, AllTracked
    <3>2. /\ LinesOf(wire, r) = {} /\ Lacks(wire, Removes(log, r))
          /\ Lacks(up, Rewriting(log, r))
      BY DropLoses
    <3>3. LinesFollow(wire, wire', log, log, r)
      <4>1. PICK z : z = <<>>
        OBVIOUS
      <4>2. LinesOf(z, r) = {}
        BY <4>1 DEF LinesOf
      <4>3. \A x : Path(wire, log, r, x) => Path(z, log, r, x)
        BY <3>2, <4>2, PathSame
      <4>4. ~After(wire, Removes(log, r), Brings(r), FALSE)
        BY <3>2 DEF After, Lacks
      <4> QED BY <1>1, <3>2, <4>1, <4>3, <4>4 DEF LinesFollow
    <3>4. EditsFollow(up, up', log, log, r)
      BY <3>2 DEF EditsFollow
    <3> QED BY <1>1, <3>1, <3>3, <3>4, RowsFollowSelf, SameVersionsSelf, TrackedStep
  <2> QED BY <1>1, <2>2, <2>3 DEF RowsInv, AllTracked
<1> QED BY <1>5, <1>6 DEF AheadInv

---------------------------------------------------------------------------
(* A message or an edit is logged                                          *)

\* One more entry of the log: what was said before is still said.
LEMMA LogGrows ==
    ASSUME IInv, EchoInv, OwnInv, NEW m \in Entry, log' = Append(log, m), m.id = Len(log) + 1,
           UNCHANGED buf
    PROVE  /\ Len(log) \in Nat /\ Len(log') = Len(log) + 1 /\ log'[m.id] = m
           /\ \A i \in 1..Len(log) : log'[i] = log[i]
           /\ \A r : RowsOf(buf, log', r) = RowsOf(buf, log, r)
           /\ \A r : r # m.root => SameVersions(log, log', r)
           /\ \A r : \A i \in 1..Len(wire) :
                 wire[i] \in Removes(log, r) <=> wire[i] \in Removes(log', r)
           /\ \A r \in Roots(log') : r \in Roots(log) \/ (r = m.id /\ r = m.root)
           /\ \A v \in Met(buf) : v \in 1..Len(log)
<1>1. /\ Len(log) \in Nat /\ Len(log') = Len(log) + 1 /\ log'[m.id] = m
      /\ \A i \in 1..Len(log) : log'[i] = log[i]
  BY LogIs
<1>2. ASSUME NEW r PROVE RowsOf(buf, log', r) = RowsOf(buf, log, r)
  <2>1. \A row \in ToSet(buf.rows) : row.id # Local => row.id \in 1..Len(log)
    <3> SUFFICES ASSUME NEW row \in ToSet(buf.rows), row.id # Local PROVE row.id \in 1..Len(log)
      OBVIOUS
    <3>1. PICK i \in 1..Len(buf.rows) : buf.rows[i] = row
      BY LinesTyped, RowsTyped
    <3>2. Refers(row, log)
      BY <3>1 DEF IInv, Sound, RowsRefer
    <3> QED BY <1>1, <3>2 DEF Refers, Local
  <2> QED BY <1>1, <2>1 DEF RowsOf
<1>3. ASSUME NEW r, r # m.root PROVE SameVersions(log, log', r)
  <2>1. \A v : v \in VersionsOf(log', r) <=> v \in VersionsOf(log, r)
    BY <1>1, <1>3 DEF VersionsOf
  <2>2. VersionsOf(log', r) = VersionsOf(log, r)
    BY <2>1
  <2> QED BY <1>1, <2>2 DEF SameVersions, VersionsOf
<1>4. ASSUME NEW r, NEW i \in 1..Len(wire)
      PROVE  wire[i] \in Removes(log, r) <=> wire[i] \in Removes(log', r)
  <2>1. wire[i] \in Deletion => wire[i].names \in 1..Len(log)
    BY DEF IInv, WireSound, Carries, Deletion
  <2> QED BY <1>1, <2>1 DEF Removes
<1>5. \A r \in Roots(log') : r \in Roots(log) \/ (r = m.id /\ r = m.root)
  BY <1>1 DEF Roots
<1>6. \A v \in Met(buf) : v \in 1..Len(log)
  BY MetLogged
<1> QED BY <1>1, <1>2, <1>3, <1>4, <1>5, <1>6

\* Requests of the longer log that are not of the old one.
LEMMA RequestsGrow ==
    ASSUME NEW u, NEW l, UpSound(u, l), NEW k, \A i \in 1..Len(l) : k[i] = l[i], NEW b, NEW o,
           \A r : RowsOf(b, k, r) = RowsOf(b, l, r)
    PROVE  /\ Lacks(u, Foreign(l)) => Lacks(u, Foreign(k))
           /\ Lacks(u, Unshown(b, l, o)) => Lacks(u, Unshown(b, k, o))
           /\ \A r : Lacks(u, Rewriting(k, r)) => Lacks(u, Rewriting(l, r))
<1>1. \A i \in 1..Len(u) : u[i].kind \in {"edit", "delete"} => k[u[i].names] = l[u[i].names]
  BY DEF UpSound, Asks
<1>2. Lacks(u, Foreign(l)) => Lacks(u, Foreign(k))
  BY <1>1 DEF Lacks, Foreign
<1>3. Lacks(u, Unshown(b, l, o)) => Lacks(u, Unshown(b, k, o))
  BY <1>1 DEF Lacks, Unshown
<1>4. \A r : Lacks(u, Rewriting(k, r)) => Lacks(u, Rewriting(l, r))
  BY <1>1 DEF Lacks, Rewriting
<1> QED BY <1>2, <1>3, <1>4

\* The author of a message is the author of its edits.
LEMMA OwnLog ==
    ASSUME IInv, EchoInv, OwnInv, NEW m \in Entry, log' = Append(log, m), m.id = Len(log) + 1,
           UNCHANGED <<buf, editing, gone>>, wire' = wire \/ wire' = Append(wire, m),
           \/ m.root = m.id
           \/ \E n \in 1..Len(log) : m.root = log[n].root
                                 /\ (log[n].from \in OwnNicks <=> m.from \in OwnNicks),
           UpSound(up', log), Lacks(up', Foreign(log))
    PROVE  OwnInv'
<1>1. /\ Len(log) \in Nat /\ Len(log') = Len(log) + 1 /\ log'[m.id] = m
      /\ \A i \in 1..Len(log) : log'[i] = log[i]
      /\ \A r : RowsOf(buf, log', r) = RowsOf(buf, log, r)
  BY LogGrows
<1>2. \A r : r \in Roots(log) => r \in Roots(log')
  BY <1>1 DEF Roots
<1>3. OneAuthor(log')
  <2> SUFFICES ASSUME NEW i \in 1..Len(log')
               PROVE  /\ log'[i].root \in Roots(log') /\ log'[i].root <= i
                      /\ log'[log'[i].root].from \in OwnNicks <=> log'[i].from \in OwnNicks
    BY DEF OneAuthor
  <2>1. CASE i \in 1..Len(log)
    <3>1. /\ log[i].root \in Roots(log) /\ log[i].root <= i
          /\ log[log[i].root].from \in OwnNicks <=> log[i].from \in OwnNicks
      BY <2>1 DEF OwnInv, OneAuthor
    <3> QED BY <1>1, <1>2, <2>1, <3>1 DEF Roots
  <2>2. CASE i = m.id
    <3>1. CASE m.root = m.id
      BY <1>1, <2>2, <3>1 DEF Roots
    <3>2. CASE \E n \in 1..Len(log) : /\ m.root = log[n].root
                                      /\ log[n].from \in OwnNicks <=> m.from \in OwnNicks
      <4>1. PICK n \in 1..Len(log) : /\ m.root = log[n].root
                                     /\ log[n].from \in OwnNicks <=> m.from \in OwnNicks
        BY <3>2
      <4>2. /\ log[n].root \in Roots(log) /\ log[n].root <= n
            /\ log[log[n].root].from \in OwnNicks <=> log[n].from \in OwnNicks
        BY DEF OwnInv, OneAuthor
      <4>3. m.root \in 1..Len(log)
        BY <4>1, <4>2 DEF Roots
      <4> QED BY <1>1, <1>2, <2>2, <4>1, <4>2, <4>3
    <3> QED BY <3>1, <3>2
  <2>3. i \in 1..Len(log) \/ i = m.id
    BY <1>1
  <2> QED BY <2>1, <2>2, <2>3
<1>4. gone' \subseteq Roots(log')
  BY <1>2 DEF OwnInv
<1>5. Lacks(up', Foreign(log'))
  BY <1>1, RequestsGrow
<1>6. Lacks(wire', Stray(log', gone'))
  <2>1. Lacks(wire, Stray(log', gone))
    <3>1. Lacks(wire, Stray(log, gone))
      BY DEF OwnInv
    <3>2. \A i \in 1..Len(wire) : wire[i] \in Deletion => wire[i].names \in 1..Len(log)
      BY DEF IInv, WireSound, Carries, Deletion
    <3> QED BY <1>1, <1>2, <3>1, <3>2 DEF Lacks, Stray
  <2>2. m \notin Stray(log', gone)
    BY DEF Stray, Deletion, Entry
  <2>3. wire \in Seq(Entry \cup Deletion) /\ m \in Entry \cup Deletion
    BY LinesTyped
  <2>4. \A T : Lacks(Append(wire, m), T) <=> Lacks(wire, T) /\ m \notin T
    BY <2>3, LacksAppend
  <2> QED BY <2>1, <2>2, <2>4
<1>7. editing' # 0 => log'[editing'].from \in OwnNicks
  BY <1>1 DEF IInv, Plainly, OwnInv
<1> QED BY <1>3, <1>4, <1>5, <1>6, <1>7 DEF OwnInv

\* A new version of a message is the last line about it.
LEMMA VersionTracked ==
    ASSUME IInv, EchoInv, OwnInv, NEW m \in Entry, log' = Append(log, m), m.id = Len(log) + 1,
           UNCHANGED <<buf, gone>>, wire' = Append(wire, m), NEW r, r = m.root,
           \/ r = m.id
           \/ r \in 1..Len(log) /\ r \notin gone /\ Tracked(buf, wire, log, up, gone, r)
    PROVE  Tracked(buf', wire', log', up', gone', r)
<1>1. /\ Len(log) \in Nat /\ Len(log') = Len(log) + 1 /\ log'[m.id] = m
      /\ \A i \in 1..Len(log) : log'[i] = log[i]
      /\ RowsOf(buf, log', r) = RowsOf(buf, log, r)
      /\ \A v \in Met(buf) : v \in 1..Len(log)
  BY LogGrows
<1>2. PICK w \in Seq(Entry \cup Deletion) : w = wire
  BY LinesTyped
<1>3. PICK z \in Seq(Entry \cup Deletion) : z = wire' /\ z = Append(w, m)
  BY <1>2
<1>4. Len(w) \in Nat /\ Len(z) = Len(w) + 1 /\ z[Len(w) + 1] = m /\ Len(w) + 1 \in 1..Len(z)
  BY <1>2, <1>3
<1>5. LinesOf(z, r) # {}
  BY <1>4 DEF LinesOf, Brings
<1>6. \A i \in LinesOf(w, r) : w[i].id \in 1..Len(log)
  <2> SUFFICES ASSUME NEW i \in LinesOf(w, r) PROVE w[i].id \in 1..Len(log)
    OBVIOUS
  <2>1. i \in 1..Len(wire) /\ wire[i] \in Entry
    BY <1>2 DEF LinesOf, Brings
  <2>2. wire[i].kind # "delete"
    BY <2>1 DEF Entry
  <2> QED BY <1>2, <2>1, <2>2 DEF IInv, WireSound, Carries
<1>7. PICK l \in Seq(Entry) : l = log
  BY LogIs
<1>8. ASSUME NEW x \in Nat, Path(w, l, r, x) PROVE Path(z, log', r, x)
  <2>1. m.id = Len(l) + 1 /\ \A i \in LinesOf(w, m.root) : w[i].id \in 1..Len(l)
    BY <1>6, <1>7
  <2>2. Path(Append(w, m), Append(l, m), r, x)
    BY <1>8, <2>1, PathNew
  <2> QED BY <1>3, <1>7, <2>2
<1>9. \A a, b : b \in 1..Len(log) => (Gap(log', r, a, b) <=> Gap(log, r, a, b))
  BY <1>1 DEF Gap, VersionsOf
<1>10. CASE r = m.id
  <2>1. \A i \in 1..Len(log) : log[i].root # r
    BY <1>1, <1>10 DEF OwnInv, OneAuthor
  <2>2. RowsOf(buf, log, r) = {}
    <3> SUFFICES ASSUME NEW row \in RowsOf(buf, log, r) PROVE FALSE
      OBVIOUS
    <3>1. row.id \in 1..Len(log) /\ log[row.id].root = r
      BY RowsIn DEF VersionsOf
    <3> QED BY <2>1, <3>1
  <2>3. VersionsOf(l, r) = {} /\ LinesOf(w, r) = {}
    <3>1. ASSUME NEW i \in LinesOf(w, r) PROVE FALSE
      <4>1. w[i].id \in 1..Len(log) /\ i \in 1..Len(wire) /\ wire[i] \in Entry /\ w[i].root = r
        BY <1>2, <1>6 DEF LinesOf, Brings
      <4>2. wire[i].kind # "delete"
        BY <4>1 DEF Entry
      <4>3. wire[i] = log[wire[i].id]
        BY <4>1, <4>2 DEF IInv, WireSound, Carries
      <4> QED BY <1>2, <2>1, <4>1, <4>3
    <3> QED BY <1>7, <2>1, <3>1 DEF VersionsOf
  <2>4. Path(w, l, r, 0)
    BY <2>3 DEF Path, Stops, Adjacent
  <2>5. Path(z, log', r, 0)
    BY <1>8, <2>4
  <2>6. r \notin gone
    BY <1>1, <1>10 DEF OwnInv, Roots
  <2> QED BY <1>1, <1>3, <1>5, <2>2, <2>5, <2>6 DEF Tracked, OnItsWay
<1>11. CASE r \in 1..Len(log) /\ r \notin gone /\ Tracked(buf, wire, log, up, gone, r)
  <2>1. OnItsWay(buf, w, l, up, r)
    BY <1>2, <1>7, <1>11 DEF Tracked
  <2>2. RowsOf(buf, log, r) = {} => Path(z, log', r, 0)
    BY <1>7, <1>8, <2>1 DEF OnItsWay
  <2>3. ASSUME NEW row \in RowsOf(buf, log, r), ~row.deleted
        PROVE  Path(z, log', r, row.id) /\ Current(buf, log', up', r, row)
    <3>1. row.id \in 1..Len(log) /\ row.id \in Nat
      BY RowsIn
    <3>2. Path(w, l, r, row.id) /\ Current(buf, log, up, r, row)
      BY <1>7, <2>1, <2>3 DEF OnItsWay
    <3>3. \A v \in VersionsOf(log', r) : v <= row.id => v \in Met(buf)
      BY <1>1, <3>1, <3>2 DEF Current, VersionsOf
    <3>4. Chained(buf, log', r)
      <4> SUFFICES ASSUME NEW v \in VersionsOf(log', r) \cap Met(buf)
                   PROVE  v = r \/ log'[v].names = r \/ ~Gap(log', r, log'[v].names, v)
        BY DEF Chained
      <4>1. v \in 1..Len(log) /\ log'[v] = log[v] /\ v \in VersionsOf(log, r)
        BY <1>1 DEF VersionsOf
      <4> QED BY <1>9, <3>2, <4>1 DEF Current, Chained
    <3>5. Told(buf, log', up', r, row)
      <4>1. m.id \in VersionsOf(log', r) /\ m.id \notin Met(buf)
        BY <1>1 DEF VersionsOf
      <4> QED BY <4>1 DEF Told
    <3> QED BY <1>8, <3>1, <3>2, <3>3, <3>4, <3>5 DEF Current
  <2>4. OnItsWay(buf', wire', log', up', r)
    BY <1>1, <1>3, <2>2, <2>3 DEF OnItsWay
  <2> QED BY <1>3, <1>5, <1>11, <2>4 DEF Tracked
<1> QED BY <1>10, <1>11

\* The server logs a message or an edit and sends it.
LEMMA LogAhead ==
    ASSUME IInv, IInv', EchoInv, AheadInv, NEW kind \in {"post", "edit"}, NEW names,
           NEW text \in Texts,
           NEW from \in Nicks, Log(Said(kind, names, text, from)),
           \/ kind = "post" /\ names = 0
           \/ kind = "edit" /\ Accepts(names, from),
           UNCHANGED <<buf, editing, online, gone, orphans>>, lost' \in Nat, lost' >= lost,
           UpSound(up', log), Lacks(up', Foreign(log)),
           RowsInv => Lacks(up', Unshown(buf, log, orphans)),
           \A r : kind = "post" \/ r # log[names].root => EditsFollow(up, up', log, log, r),
           Many(up', {"post"}) \in Nat, Many(up, {"post"}) <= Many(up', {"post"}) + 1
    PROVE  AheadInv'
<1>1. PICK m : m = Said(kind, names, text, from)
  OBVIOUS
<1>2. /\ log' = Append(log, m)
      /\ wire' = IF online THEN Append(wire, m) ELSE wire
      /\ missed' = IF online THEN missed ELSE missed \cup {m.root}
  BY <1>1 DEF Log
<1>3. /\ m.kind = kind /\ m.id = Len(log) + 1 /\ m.from = from
      /\ m.root = IF names = 0 THEN m.id ELSE log[names].root
  BY <1>1 DEF Said
<1>4. (names = 0 /\ kind = "post") \/ (names \in 1..Len(log) /\ names # 0
                    /\ (log[names].from \in OwnNicks <=> from \in OwnNicks)
                    /\ log[names].root \notin gone /\ kind # "post")
  BY LogIs DEF Accepts
<1>5. names # 0 => m.root = log[names].root /\ m.root \in 1..Len(log) /\ m.root \in Roots(log)
  BY <1>3, <1>4 DEF AheadInv, OwnInv, OneAuthor, Roots
<1>6. m \in Entry
  <2>1. log' \in Seq(Entry)
    BY DEF IInv, LogSound
  <2>2. Len(log') = Len(log) + 1 /\ log'[Len(log) + 1] = m
    BY <1>2, LogIs
  <2> QED BY <2>1, <2>2, LogIs
<1>7. wire' = wire \/ wire' = Append(wire, m)
  BY <1>2
<1>8. OwnInv'
  <2>1. \/ m.root = m.id
        \/ \E n \in 1..Len(log) : m.root = log[n].root
                              /\ (log[n].from \in OwnNicks <=> m.from \in OwnNicks)
    BY <1>3, <1>4
  <2> QED BY <1>2, <1>3, <1>6, <1>7, <2>1, OwnLog DEF AheadInv
<1>9. /\ Len(log) \in Nat /\ Len(log') = Len(log) + 1 /\ log'[m.id] = m
      /\ \A i \in 1..Len(log) : log'[i] = log[i]
      /\ \A r : RowsOf(buf, log', r) = RowsOf(buf, log, r)
      /\ \A r : r # m.root => SameVersions(log, log', r)
      /\ \A r : \A i \in 1..Len(wire) :
            wire[i] \in Removes(log, r) <=> wire[i] \in Removes(log', r)
      /\ \A r \in Roots(log') : r \in Roots(log) \/ (r = m.id /\ r = m.root)
      /\ \A v \in Met(buf) : v \in 1..Len(log)
  BY <1>2, <1>3, <1>6, LogGrows DEF AheadInv
<1>10. Load' >= Load /\ Load' \in Nat
  <2>1. lost \in Nat /\ Many(up, {"post"}) \in Nat
    BY LinesTyped, ManyIn
  <2>2. Load' = Len(log) + 1 + Many(up', {"post"}) + lost'
    BY <1>9 DEF Load
  <2> QED BY <1>9, <2>1, <2>2 DEF Load
<1>11. ASSUME Roomy' PROVE RowsInv'
  <2>1. RowsInv
    BY <1>10, <1>11, RoomyBefore DEF AheadInv
  <2>2. /\ Lacks(up', Unshown(buf, log', orphans))
        /\ \A r : Lacks(up', Rewriting(log', r)) => Lacks(up', Rewriting(log, r))
    BY <1>9, <2>1, RequestsGrow
  <2>3. Deduced(buf, log', up', orphans)
    <3>1. MetShown(buf, log')
      BY <1>9, <2>1 DEF RowsInv, Deduced, MetShown
    <3>2. Named(buf, log', orphans)
      <4> SUFFICES ASSUME NEW r \in Roots(log') \ orphans, NEW row \in RowsOf(buf, log', r)
                   PROVE  row.of = r \/ (row.of = 0 /\ row.id = r)
        BY DEF Named
      <4>1. row \in RowsOf(buf, log, r)
        BY <1>9
      <4>2. row.id \in 1..Len(log) /\ log[row.id].root = r
        BY <4>1, RowsIn DEF VersionsOf
      <4>3. r \in Roots(log)
        BY <4>2 DEF AheadInv, OwnInv, OneAuthor
      <4> QED BY <2>1, <4>1, <4>3 DEF RowsInv, Deduced, Named
    <3>3. SplitShown(buf, log', orphans)
      BY <1>9, <2>1 DEF RowsInv, Deduced, SplitShown
    <3>4. SameNick(buf, log', orphans)
      <4> SUFFICES ASSUME NEW r \in Roots(log') \ orphans, NEW row \in RowsOf(buf, log', r),
                          NEW v \in VersionsOf(log', r) \cap Met(buf)
                   PROVE  log'[v].from = row.from
        BY DEF SameNick
      <4>1. row \in RowsOf(buf, log, r)
        BY <1>9
      <4>2. row.id \in 1..Len(log) /\ log[row.id].root = r
        BY <4>1, RowsIn DEF VersionsOf
      <4>3. r \in Roots(log)
        BY <4>2 DEF AheadInv, OwnInv, OneAuthor
      <4>4. v \in VersionsOf(log, r) \cap Met(buf) /\ log'[v] = log[v]
        BY <1>9 DEF VersionsOf
      <4> QED BY <2>1, <4>1, <4>3, <4>4 DEF RowsInv, Deduced, SameNick
    <3> QED BY <2>1, <2>2, <3>1, <3>2, <3>3, <3>4 DEF RowsInv, Deduced
  <2>4. ASSUME NEW r \in Roots(log') \ (missed' \cup orphans)
        PROVE  Tracked(buf', wire', log', up', gone', r)
    <3>1. r \in Roots(log) => Tracked(buf, wire, log, up, gone, r)
      BY <1>2, <2>1, <2>4 DEF RowsInv, AllTracked
    <3>2. CASE r = m.root
      <4>1. wire' = Append(wire, m)
        BY <1>2, <3>2
      <4>2. r = m.id \/ (r \in 1..Len(log) /\ r \notin gone /\ r \in Roots(log))
        BY <1>3, <1>4, <1>5, <3>2
      <4> QED BY <1>2, <1>3, <1>6, <3>1, <3>2, <4>1, <4>2, VersionTracked DEF AheadInv
    <3>3. CASE r # m.root
      <4>1. Tracked(buf, wire, log, up, gone, r) /\ SameVersions(log, log', r)
        BY <1>9, <3>1, <3>3
      <4>2. RowsFollow(buf, buf', log, log', r)
        BY <1>9 DEF RowsFollow
      <4>3. LinesFollow(wire, wire', log, log', r)
        <5>1. PICK w \in Seq(Entry \cup Deletion) : w = wire
          BY LinesTyped
        <5>2. m \notin Brings(r) /\ m \in Entry \cup Deletion
          BY <1>6, <3>3 DEF Brings
        <5>3. PICK k : k = log'
          OBVIOUS
        <5>4. PICK l : l = log
          OBVIOUS
        <5>5. /\ SameVersions(l, k, r)
              /\ \A i \in 1..Len(w) : w[i] \in Removes(l, r) => w[i] \in Removes(k, r)
          BY <1>9, <4>1, <5>1, <5>3, <5>4
        <5>6. LinesFollow(w, Append(w, m), l, k, r)
          BY <5>2, <5>5, LinesAppend
        <5>7. LinesFollow(w, w, l, k, r)
          BY <5>5, LinesLater
        <5> QED BY <1>7, <5>1, <5>3, <5>4, <5>6, <5>7
      <4>4. EditsFollow(up, up', log, log', r)
        <5>1. EditsFollow(up, up', log, log, r)
          BY <1>4, <1>5, <3>3
        <5> QED BY <2>2, <5>1 DEF EditsFollow
      <4> QED BY <4>1, <4>2, <4>3, <4>4, TrackedStep
    <3> QED BY <3>2, <3>3
  <2> QED BY <2>3, <2>4 DEF RowsInv, AllTracked
<1> QED BY <1>8, <1>11 DEF AheadInv

\* Somebody writes.
LEMMA OthersPostAhead ==
    ASSUME IInv, IInv', EchoInv, AheadInv, NEW t \in Texts, NEW from \in Nicks,
           OthersPost(t, from)
    PROVE  AheadInv'
<1>1. /\ Log(Said("post", 0, t, from))
      /\ UNCHANGED <<buf, editing, online, up, gone, orphans, lost, turns>>
  BY DEF OthersPost
<1>2. PICK kind \in {"post", "edit"} : kind = "post"
  OBVIOUS
<1>3. PICK names : names = 0
  OBVIOUS
<1>4. UpSound(up', log) /\ Lacks(up', Foreign(log))
  BY <1>1 DEF IInv, AheadInv, OwnInv
<1>5. RowsInv => Lacks(up', Unshown(buf, log, orphans))
  BY <1>1 DEF RowsInv, Deduced
<1>6. \A r : EditsFollow(up, up', log, log, r)
  BY <1>1, EditsFollowSelf
<1>7. /\ lost' \in Nat /\ lost' >= lost
      /\ Many(up', {"post"}) \in Nat /\ Many(up, {"post"}) <= Many(up', {"post"}) + 1
  BY <1>1, LinesTyped, ManyIn
<1> QED BY <1>1, <1>2, <1>3, <1>4, <1>5, <1>6, <1>7, LogAhead

\* Somebody edits.
LEMMA OthersEditAhead ==
    ASSUME IInv, IInv', EchoInv, AheadInv, NEW n, NEW t \in Texts, NEW from \in Nicks,
           OthersEdit(n, t, from)
    PROVE  AheadInv'
<1>1. /\ Log(Said("edit", n, t, from)) /\ Accepts(n, from)
      /\ UNCHANGED <<buf, editing, online, up, gone, orphans, lost, turns>>
  BY DEF OthersEdit
<1>2. PICK kind \in {"post", "edit"} : kind = "edit"
  OBVIOUS
<1>3. UpSound(up', log) /\ Lacks(up', Foreign(log))
  BY <1>1 DEF IInv, AheadInv, OwnInv
<1>4. RowsInv => Lacks(up', Unshown(buf, log, orphans))
  BY <1>1 DEF RowsInv, Deduced
<1>5. \A r : EditsFollow(up, up', log, log, r)
  BY <1>1, EditsFollowSelf
<1>6. /\ lost' \in Nat /\ lost' >= lost
      /\ Many(up', {"post"}) \in Nat /\ Many(up, {"post"}) <= Many(up', {"post"}) + 1
  BY <1>1, LinesTyped, ManyIn
<1> QED BY <1>1, <1>2, <1>3, <1>4, <1>5, <1>6, LogAhead

\* More messages are deleted.
LEMMA OwnGone ==
    ASSUME OwnInv, UNCHANGED <<log, editing>>, gone \subseteq gone', gone' \subseteq Roots(log),
           Lacks(up', Foreign(log)), Lacks(wire', Stray(log, gone'))
    PROVE  OwnInv'
  BY DEF OwnInv

\* Somebody deletes.
LEMMA OthersDeleteAhead ==
    ASSUME IInv, IInv', EchoInv, AheadInv, NEW n, NEW from \in Nicks, OthersDelete(n, from)
    PROVE  AheadInv'
<1>1. PICK m : m = [kind |-> "delete", names |-> n, from |-> from]
  OBVIOUS
<1>2. /\ Accepts(n, from) /\ log[n].root = n /\ gone' = gone \cup {n}
      /\ wire' = IF online THEN Append(wire, m) ELSE wire
      /\ missed' = IF online THEN missed ELSE missed \cup {n}
      /\ UNCHANGED <<buf, editing, online, up, log, orphans, lost, turns>>
  BY <1>1, Zenon DEF OthersDelete
<1>3. n \in Roots(log) /\ n \in Ids /\ from \in Nicks /\ n \notin gone
  BY <1>2, LogIs DEF Accepts, Roots
<1>4. /\ m \in Deletion /\ m \in Entry \cup Deletion /\ m.names = n /\ m.from = from
      /\ \A r : m \notin Brings(r)
  BY <1>1, <1>3 DEF Deletion, Brings, Entry
<1>5. PICK w \in Seq(Entry \cup Deletion) : w = wire
  BY LinesTyped
<1>6. wire' = w \/ wire' = Append(w, m)
  BY <1>2, <1>5
<1>7. OwnInv'
  <2>1. Lacks(w, Stray(log, gone'))
    BY <1>2, <1>5 DEF AheadInv, OwnInv, Lacks, Stray
  <2>2. m \notin Stray(log, gone')
    BY <1>2, <1>3, <1>4 DEF Stray
  <2>3. \A T : Lacks(Append(w, m), T) <=> Lacks(w, T) /\ m \notin T
    BY <1>4, LacksAppend
  <2>4. gone' \subseteq Roots(log) /\ gone \subseteq gone'
    BY <1>2, <1>3 DEF AheadInv, OwnInv
  <2>5. Lacks(up', Foreign(log))
    BY <1>2 DEF AheadInv, OwnInv
  <2> QED BY <1>2, <1>6, <2>1, <2>2, <2>3, <2>4, <2>5, OwnGone DEF AheadInv
<1>8. ASSUME Roomy' PROVE RowsInv'
  <2>1. RowsInv
    BY <1>2, <1>8 DEF Roomy, Load, AheadInv
  <2>2. Deduced(buf', log', up', orphans')
    BY <1>2, <2>1 DEF RowsInv
  <2>3. ASSUME NEW r \in Roots(log) \ (missed' \cup orphans)
        PROVE  Tracked(buf', wire', log', up', gone', r)
    <3>1. Tracked(buf, wire, log, up, gone, r)
      BY <1>2, <2>1 DEF RowsInv, AllTracked
    <3>2. LinesFollow(wire, wire', log, log, r)
      <4>1. PICK l : l = log
        OBVIOUS
      <4>2. LinesFollow(w, Append(w, m), l, l, r)
        BY <1>4, LinesAppend, SameVersionsSelf
      <4> QED BY <1>5, <1>6, <4>1, <4>2, LinesFollowSelf
    <3>3. CASE r # n
      <4>1. r \in gone <=> r \in gone'
        BY <1>2, <3>3
      <4>2. /\ SameVersions(log, log', r) /\ RowsFollow(buf, buf', log, log', r)
            /\ EditsFollow(up, up', log, log', r)
        BY <1>2, RowsFollowSelf, SameVersionsSelf, EditsFollowSelf
      <4> QED BY <1>2, <3>1, <3>2, <4>1, <4>2, TrackedStep
    <3>4. CASE r = n
      <4>1. wire' = Append(w, m)
        BY <1>2, <1>5, <3>4
      <4>2. m \in Removes(log, r)
        BY <1>2, <1>4, <3>4 DEF Removes
      <4>3. PICK no \in BOOLEAN : no = FALSE
        OBVIOUS
      <4>4. After(Append(w, m), Removes(log, r), Brings(r), no)
        BY <1>4, <4>2, AfterHit
      <4>5. Buried(buf, wire', log, r)
        BY <4>1, <4>3, <4>4 DEF Buried
      <4>6. RowsOf(buf, log, r) # {} \/ LinesOf(wire', r) # {}
        BY <3>1, <3>2 DEF Tracked, LinesFollow
      <4>7. r \in gone'
        BY <1>2, <3>4
      <4> QED BY <1>2, <4>5, <4>6, <4>7 DEF Tracked
    <3> QED BY <3>3, <3>4
  <2> QED BY <1>2, <2>2, <2>3 DEF RowsInv, AllTracked
<1> QED BY <1>7, <1>8 DEF AheadInv

---------------------------------------------------------------------------
(* The server reads a request                                              *)

\* The first request is read; the others are still sound.
LEMMA ReadTail ==
    ASSUME IInv, OwnInv, up # <<>>, up' = Tail(up), NEW q, q = Head(up)
    PROVE  /\ q \in Request /\ UpSound(up', log) /\ Lacks(up', Foreign(log))
           /\ \A T : Lacks(up, T) <=> q \notin T /\ Lacks(up', T)
           /\ Many(up', {"post"}) \in Nat
           /\ Many(up, {"post"}) = Many(up', {"post"}) + (IF q.kind = "post" THEN 1 ELSE 0)
           /\ q.kind \in {"edit", "delete"} =>
                 q.names \in 1..Len(log) /\ log[q.names].from \in OwnNicks
<1>1. up \in Seq(Request) /\ q \in Request /\ q = up[1] /\ Tail(up) \in Seq(Request)
  BY LinesTyped
<1>2. UpSound(up', log)
  BY UpTail DEF IInv
<1>3. \A T : Lacks(up, T) <=> q \notin T /\ Lacks(up', T)
  BY <1>1, LacksTail
<1>4. q \notin Foreign(log) /\ Lacks(up', Foreign(log))
  BY <1>3 DEF OwnInv
<1>5. Many(up', {"post"}) \in Nat
  BY <1>1, ManyPlaces
<1>6. Many(up, {"post"}) = Many(up', {"post"}) + (IF q.kind = "post" THEN 1 ELSE 0)
  BY <1>1, PostsTail
<1>7. q.kind \in {"edit", "delete"} => q.names \in 1..Len(log) /\ log[q.names].from \in OwnNicks
  <2> SUFFICES ASSUME q.kind \in {"edit", "delete"}
               PROVE  q.names \in 1..Len(log) /\ log[q.names].from \in OwnNicks
    OBVIOUS
  <2>1. Asks(q, log)
    <3>1. 1 \in 1..Len(up)
      BY <1>1
    <3> QED BY <1>1, <3>1 DEF IInv, UpSound
  <2>2. q.names \in 1..Len(log)
    BY <2>1 DEF Asks
  <2>3. log[q.names].from \in OwnNicks
    BY <1>1, <1>4 DEF Foreign
  <2> QED BY <2>2, <2>3
<1> QED BY <1>1, <1>2, <1>3, <1>4, <1>5, <1>6, <1>7

\* A deletion takes effect: the user's own connection gets no line, but has made the
\* tombstone before.
LEMMA ReadDeleteAhead ==
    ASSUME IInv, AheadInv, up # <<>>, up' = Tail(up), NEW q, q = Head(up), q.kind = "delete",
           gone' = gone \cup {log[q.names].root},
           UNCHANGED <<buf, editing, log, wire, missed, orphans, lost>>
    PROVE  AheadInv'
<1>1. /\ q \in Request /\ UpSound(up', log) /\ Lacks(up', Foreign(log))
      /\ \A T : Lacks(up, T) <=> q \notin T /\ Lacks(up', T)
      /\ Many(up', {"post"}) \in Nat
      /\ Many(up, {"post"}) = Many(up', {"post"}) + (IF q.kind = "post" THEN 1 ELSE 0)
      /\ q.kind \in {"edit", "delete"} =>
            q.names \in 1..Len(log) /\ log[q.names].from \in OwnNicks
  BY ReadTail DEF AheadInv
<1>2. Many(up, {"post"}) = Many(up', {"post"})
  BY <1>1
<1>3. /\ q \in Request /\ Lacks(up', Foreign(log))
      /\ \A T : Lacks(up, T) <=> q \notin T /\ Lacks(up', T)
      /\ Many(up, {"post"}) = Many(up', {"post"}) /\ Many(up', {"post"}) \in Nat
      /\ q.names \in 1..Len(log)
  BY <1>1, <1>2
<1>4. PICK r0 \in Roots(log) : r0 = log[q.names].root
  BY <1>3 DEF AheadInv, OwnInv, OneAuthor
<1>5. OwnInv'
  <2>1. gone \subseteq gone' /\ gone' \subseteq Roots(log)
    BY <1>4 DEF AheadInv, OwnInv
  <2>2. Lacks(wire, Stray(log, gone'))
    BY <2>1 DEF AheadInv, OwnInv, Lacks, Stray
  <2> QED BY <1>3, <2>1, <2>2, OwnGone DEF AheadInv
<1>6. ASSUME Roomy' PROVE RowsInv'
  <2>1. RowsInv
    BY <1>3, <1>6 DEF Roomy, Load, AheadInv
  <2>2. Lacks(up', Unshown(buf, log, orphans)) /\ q \notin Unshown(buf, log, orphans)
    BY <1>3, <2>1 DEF RowsInv, Deduced
  <2>3. Deduced(buf', log', up', orphans')
    BY <2>1, <2>2 DEF RowsInv, Deduced
  <2>4. ASSUME NEW r \in Roots(log) \ (missed \cup orphans)
        PROVE  Tracked(buf', wire', log', up', gone', r)
    <3>1. Tracked(buf, wire, log, up, gone, r)
      BY <2>1 DEF RowsInv, AllTracked
    <3>2. CASE r = r0
      <4>1. \E row \in RowsOf(buf, log, r) : row.deleted
        BY <1>3, <1>4, <2>2, <3>2 DEF Unshown
      <4>2. r \in gone'
        BY <1>4, <3>2
      <4> QED BY <3>1, <4>1, <4>2 DEF Tracked, Buried
    <3>3. CASE r # r0
      <4>1. q \notin Rewriting(log, r)
        BY DEF Rewriting
      <4>2. EditsFollow(up, up', log, log, r)
        BY <1>3, <4>1 DEF EditsFollow
      <4>3. r \in gone <=> r \in gone'
        BY <1>4, <3>3
      <4> QED BY <3>1, <4>2, <4>3, RowsFollowSelf, LinesFollowSelf, SameVersionsSelf, TrackedStep
    <3> QED BY <3>2, <3>3
  <2> QED BY <2>3, <2>4 DEF RowsInv, AllTracked
<1> QED BY <1>5, <1>6 DEF AheadInv

\* A request is refused: an edit or a deletion of a message that is gone.
LEMMA ReadNothingAhead ==
    ASSUME IInv, AheadInv, up # <<>>, up' = Tail(up), NEW q, q = Head(up),
           q.kind \in {"edit", "delete"}, ~Accepts(q.names, me),
           UNCHANGED <<buf, editing, log, wire, gone, missed, orphans, lost>>
    PROVE  AheadInv'
<1>1. /\ q \in Request /\ UpSound(up', log) /\ Lacks(up', Foreign(log))
      /\ \A T : Lacks(up, T) <=> q \notin T /\ Lacks(up', T)
      /\ Many(up', {"post"}) \in Nat
      /\ Many(up, {"post"}) = Many(up', {"post"}) + (IF q.kind = "post" THEN 1 ELSE 0)
      /\ q.kind \in {"edit", "delete"} =>
            q.names \in 1..Len(log) /\ log[q.names].from \in OwnNicks
  BY ReadTail DEF AheadInv
<1>2. Many(up, {"post"}) = Many(up', {"post"})
  BY <1>1
<1>3. /\ q \in Request /\ Lacks(up', Foreign(log))
      /\ \A T : Lacks(up, T) <=> q \notin T /\ Lacks(up', T)
      /\ Many(up, {"post"}) = Many(up', {"post"}) /\ Many(up', {"post"}) \in Nat
      /\ q.names \in 1..Len(log) /\ log[q.names].from \in OwnNicks
  BY <1>1, <1>2
<1>4. log[q.names].root \in gone
  BY <1>3 DEF Accepts, IInv, NicksSound
<1>5. OwnInv'
  BY <1>3, OwnSame DEF AheadInv, OwnInv
<1>6. ASSUME Roomy' PROVE RowsInv'
  <2>1. RowsInv
    BY <1>3, <1>6 DEF Roomy, Load, AheadInv
  <2>2. Lacks(up', Unshown(buf, log, orphans))
    BY <1>3, <2>1 DEF RowsInv, Deduced
  <2>3. ASSUME NEW r, r \notin gone PROVE EditsFollow(up, up', log, log, r)
    <3>1. q \notin Rewriting(log, r)
      BY <1>4, <2>3 DEF Rewriting
    <3> QED BY <1>3, <3>1 DEF EditsFollow
  <2> QED BY <2>1, <2>2, <2>3, QuietTracks
<1> QED BY <1>5, <1>6 DEF AheadInv

\* Messages are sent again.
LEMMA ReadHistoryAhead ==
    ASSUME IInv, AheadInv, up # <<>>, up' = Tail(up), NEW q, q = Head(up), q.kind = "history",
           wire' = wire \o Replay, missed' = missed \ Restored,
           UNCHANGED <<buf, editing, log, gone, orphans, lost>>
    PROVE  AheadInv'
<1>1. /\ q \in Request /\ UpSound(up', log) /\ Lacks(up', Foreign(log))
      /\ \A T : Lacks(up, T) <=> q \notin T /\ Lacks(up', T)
      /\ Many(up', {"post"}) \in Nat
      /\ Many(up, {"post"}) = Many(up', {"post"}) + (IF q.kind = "post" THEN 1 ELSE 0)
      /\ q.kind \in {"edit", "delete"} =>
            q.names \in 1..Len(log) /\ log[q.names].from \in OwnNicks
  BY ReadTail DEF AheadInv
<1>2. Many(up, {"post"}) = Many(up', {"post"})
  BY <1>1
<1>3. /\ q \in Request /\ Lacks(up', Foreign(log))
      /\ \A T : Lacks(up, T) <=> q \notin T /\ Lacks(up', T)
      /\ Many(up, {"post"}) = Many(up', {"post"}) /\ Many(up', {"post"}) \in Nat
  BY <1>1, <1>2
<1>4. Lacks(wire', Stray(log, gone))
  <2>1. Replay \in Seq(Entry)
    BY LogIs, ReplayIs
  <2>2. PICK p \in Seq(Entry \cup Deletion) : p = Replay
    BY <2>1
  <2>3. PICK w \in Seq(Entry \cup Deletion) : w = wire
    BY LinesTyped
  <2>4. PICK z : z = w \o p
    OBVIOUS
  <2>5. /\ \A i \in 1..Len(w) : z[i] = w[i]
        /\ \A i \in 1..Len(z) : i > Len(w) => \E j \in 1..Len(p) : z[i] = p[j]
        /\ Len(w) \in Nat
    BY <2>4, ConcatAt
  <2>6. \A j \in 1..Len(p) : p[j] \notin Stray(log, gone)
    <3> SUFFICES ASSUME NEW j \in 1..Len(p) PROVE p[j] \notin Stray(log, gone)
      OBVIOUS
    <3>1. p[j] \in Entry
      BY <2>1, <2>2
    <3> QED BY <3>1 DEF Stray, Entry, Deletion
  <2>7. Lacks(w, Stray(log, gone))
    BY <2>3 DEF AheadInv, OwnInv
  <2>8. Lacks(z, Stray(log, gone))
    <3> SUFFICES ASSUME NEW i \in 1..Len(z) PROVE z[i] \notin Stray(log, gone)
      BY DEF Lacks
    <3>1. CASE i \in 1..Len(w)
      BY <2>5, <2>7, <3>1 DEF Lacks
    <3>2. CASE i > Len(w)
      BY <2>5, <2>6, <3>2
    <3>3. i \in 1..Len(w) \/ i > Len(w)
      BY <2>5
    <3> QED BY <3>1, <3>2, <3>3
  <2> QED BY <2>2, <2>3, <2>4, <2>8
<1>5. OwnInv'
  BY <1>3, <1>4 DEF AheadInv, OwnInv
<1>6. ASSUME Roomy' PROVE RowsInv'
  <2>1. RowsInv
    BY <1>3, <1>6 DEF Roomy, Load, AheadInv
  <2>2. Deduced(buf', log', up', orphans')
    BY <1>3, <2>1 DEF RowsInv, Deduced
  <2>3. ASSUME NEW r \in Roots(log) \ (missed' \cup orphans)
        PROVE  Tracked(buf', wire', log', up', gone', r)
    <3>1. CASE r \in Restored
      <4>1. PICK u : u = up'
        OBVIOUS
      <4>2. Tracked(buf, wire \o Replay, log, u, gone, r)
        BY <3>1, RestoredTracked
      <4> QED BY <4>1, <4>2
    <3>2. CASE r \notin Restored
      <4>1. Tracked(buf, wire, log, up, gone, r)
        BY <2>1, <2>3, <3>2 DEF RowsInv, AllTracked
      <4>2. r \notin gone => Lacks(wire, Removes(log, r))
        BY DEF AheadInv, OwnInv, Lacks, Removes, Stray, Roots
      <4>3. LinesFollow(wire, wire', log, log, r)
        BY <4>2, LinesReplay
      <4>4. q \notin Rewriting(log, r)
        BY DEF Rewriting
      <4>5. EditsFollow(up, up', log, log, r)
        BY <1>3, <4>4 DEF EditsFollow
      <4> QED BY <4>1, <4>3, <4>5, RowsFollowSelf, SameVersionsSelf, TrackedStep
    <3> QED BY <3>1, <3>2
  <2> QED BY <2>2, <2>3 DEF RowsInv, AllTracked
<1> QED BY <1>5, <1>6 DEF AheadInv

\* The server reads a request of any kind.
LEMMA ServerReadsAhead ==
    ASSUME IInv, IInv', EchoInv, AheadInv, ServerReads PROVE AheadInv'
<1>1. PICK q : q = Head(up)
  OBVIOUS
<1>2. /\ up # <<>> /\ up' = Tail(up)
      /\ UNCHANGED <<buf, editing, online, orphans, turns>>
      /\ lost' = IF q.kind = "post" /\ q.from # me THEN lost + 1 ELSE lost
  BY <1>1 DEF ServerReads
<1>3. \/ /\ q.kind = "history" /\ wire' = wire \o Replay
         /\ missed' = missed \ Restored /\ UNCHANGED <<log, gone>>
      \/ q.kind = "post" /\ Log(Said("post", 0, q.text, me)) /\ UNCHANGED gone
      \/ /\ q.kind = "edit" /\ Accepts(q.names, me)
         /\ Log(Said("edit", q.names, q.text, me)) /\ UNCHANGED gone
      \/ /\ q.kind = "delete" /\ gone' = gone \cup {log[q.names].root}
         /\ UNCHANGED <<log, wire, missed>>
      \/ /\ q.kind \in {"edit", "delete"} /\ ~Accepts(q.names, me)
         /\ UNCHANGED <<log, wire, gone, missed>>
  BY <1>1, Zenon DEF ServerReads
<1>4. /\ q \in Request /\ UpSound(up', log) /\ Lacks(up', Foreign(log))
      /\ \A T : Lacks(up, T) <=> q \notin T /\ Lacks(up', T)
      /\ Many(up', {"post"}) \in Nat
      /\ Many(up, {"post"}) = Many(up', {"post"}) + (IF q.kind = "post" THEN 1 ELSE 0)
  BY <1>1, <1>2, ReadTail DEF AheadInv
<1>5. Many(up, {"post"}) <= Many(up', {"post"}) + 1
  BY <1>4
<1>6. RowsInv => Lacks(up', Unshown(buf, log, orphans))
  BY <1>4 DEF RowsInv, Deduced
<1>7. \A r : q \notin Rewriting(log, r) => EditsFollow(up, up', log, log, r)
  BY <1>4 DEF EditsFollow
<1>8. PICK from \in Nicks : from = me
  BY DEF Nicks, IInv, NicksSound
<1>9. q.kind \in {"post", "edit"} => q.text \in Texts
  BY <1>4 DEF Request
<1>10. lost' \in Nat /\ lost' >= lost /\ (q.kind # "post" => lost' = lost)
  BY <1>2, LinesTyped
<1>11. CASE q.kind = "post" /\ Log(Said("post", 0, q.text, me)) /\ UNCHANGED gone
  <2>1. PICK kind \in {"post", "edit"} : kind = "post"
    OBVIOUS
  <2>2. PICK z : z = 0
    OBVIOUS
  <2>3. \A r : EditsFollow(up, up', log, log, r)
    BY <1>7, <1>11 DEF Rewriting
  <2>4. PICK text \in Texts : text = q.text
    BY <1>9, <1>11
  <2>5. Log(Said(kind, z, text, from)) /\ kind = "post" /\ z = 0
    BY <1>8, <1>11, <2>1, <2>2, <2>4
  <2> QED BY <1>2, <1>4, <1>5, <1>6, <1>10, <1>11, <2>3, <2>5, LogAhead
<1>12. CASE /\ q.kind = "edit" /\ Accepts(q.names, me)
            /\ Log(Said("edit", q.names, q.text, me)) /\ UNCHANGED gone
  <2>1. PICK kind \in {"post", "edit"} : kind = "edit"
    OBVIOUS
  <2>2. PICK n : n = q.names
    OBVIOUS
  <2>3. \A r : r # log[n].root => EditsFollow(up, up', log, log, r)
    BY <1>7, <2>2 DEF Rewriting
  <2>4. PICK text \in Texts : text = q.text
    BY <1>9, <1>12
  <2>5. Log(Said(kind, n, text, from)) /\ kind = "edit" /\ Accepts(n, from)
    BY <1>8, <1>12, <2>1, <2>2, <2>4
  <2> QED BY <1>2, <1>4, <1>5, <1>6, <1>10, <1>12, <2>3, <2>5, LogAhead
<1> QED BY <1>1, <1>2, <1>3, <1>10, <1>11, <1>12, ReadDeleteAhead, ReadNothingAhead,
           ReadHistoryAhead

\* A room that was never opened.
LEMMA AheadInit == ASSUME Init PROVE AheadInv
<1>1. /\ buf.rows = <<>> /\ Met(buf) = {}
      /\ up = <<>> /\ wire = <<>> /\ log = <<>> /\ gone = {} /\ orphans = {} /\ editing = 0
  BY DEF Init, Met
<1>2. /\ 1..Len(log) = {} /\ Roots(log) = {} /\ Shown(buf) = {}
      /\ \A T : Lacks(up, T) /\ Lacks(wire, T)
  BY <1>1 DEF Roots, Shown, Lacks
<1>3. OwnInv
  BY <1>1, <1>2 DEF OwnInv, OneAuthor
<1>4. Few(buf)
  <2>1. Cardinality(Shown(buf)) = 0 /\ Cardinality(Met(buf)) = 0
    BY <1>1, <1>2, FS_EmptySet
  <2> QED BY <2>1 DEF Few
<1>5. Deduced(buf, log, up, orphans)
  BY <1>1, <1>2, <1>4 DEF Deduced, MetShown, Named, SplitShown, SameNick
<1> QED BY <1>2, <1>3, <1>5 DEF AheadInv, RowsInv, AllTracked

\* A step that is about the user's nicks, or nothing.
LEMMA NickAhead ==
    ASSUME IInv, IInv', AheadInv,
           UNCHANGED <<buf, editing, up, wire, log, gone, missed, orphans, lost>>
    PROVE  AheadInv'
<1>1. Lacks(up', Foreign(log)) /\ (RowsInv => Lacks(up', Unshown(buf, log, orphans)))
  BY DEF AheadInv, OwnInv, RowsInv, Deduced
<1>2. \A r : EditsFollow(up, up', log, log, r)
  BY EditsFollowSelf
<1>3. editing' # 0 => log[editing'].from \in OwnNicks
  BY DEF AheadInv, OwnInv
<1>4. Many(up', {"post"}) = Many(up, {"post"})
  OBVIOUS
<1> QED BY <1>1, <1>2, <1>3, <1>4, QuietAhead

LEMMA AheadStep ==
    ASSUME IInv, IInv', EchoInv, AheadInv, [Next]_vars PROVE AheadInv'
<1>1. CASE User
  <2>1. ASSUME NEW t \in Texts, Send(t) \/ Save(t) PROVE AheadInv'
    BY <2>1, SendAhead, SaveAhead
  <2>2. ASSUME NEW i \in 1..MaxRows, BeginEdit(i) \/ Delete(i) PROVE AheadInv'
    BY <2>2, BeginEditAhead, DeleteAhead
  <2> QED BY <1>1, <2>1, <2>2, CancelEditAhead, OpenChatAhead DEF User
<1>2. CASE Others
  <2>1. PICK t \in Texts, from \in {me} \cup OtherNicks :
           \/ OthersPost(t, from)
           \/ \E n \in Ids : OthersEdit(n, t, from) \/ OthersDelete(n, from)
    BY <1>2 DEF Others
  <2> from \in Nicks
    BY DEF Nicks, IInv, NicksSound
  <2>2. CASE OthersPost(t, from)
    BY <2>2, OthersPostAhead
  <2>3. ASSUME NEW n \in Ids, OthersEdit(n, t, from) \/ OthersDelete(n, from) PROVE AheadInv'
    BY <2>3, OthersEditAhead, OthersDeleteAhead
  <2> QED BY <2>1, <2>2, <2>3
<1>3. CASE UNCHANGED vars
  BY <1>3, NickAhead, Zenon DEF vars, serverVars, historyVars
<1>4. CASE OnNickChanged
  BY <1>4, NickAhead, Zenon DEF OnNickChanged, serverVars, historyVars
<1>5. ASSUME NEW n \in OwnNicks, Rename(n) PROVE AheadInv'
  BY <1>5, NickAhead, Zenon DEF Rename, serverVars, historyVars
<1> QED BY <1>1, <1>2, <1>3, <1>4, <1>5, ReceiveAhead, RejoinAhead, DropAhead,
           ServerReadsAhead DEF Next

\* The three invariants together are inductive.
LEMMA AlwaysAhead == Spec => [](IInv /\ EchoInv /\ AheadInv)
<1>1. Init => IInv /\ EchoInv /\ AheadInv
  BY InitSound, EchoInit, AheadInit
<1>2. IInv /\ EchoInv /\ AheadInv /\ [Next]_vars => IInv' /\ EchoInv' /\ AheadInv'
  <2> SUFFICES ASSUME IInv, EchoInv, AheadInv, [Next]_vars
               PROVE  IInv' /\ EchoInv' /\ AheadInv'
    OBVIOUS
  <2>1. IInv'
    BY NextKeeps DEF StepKeeps
  <2> QED BY <2>1, EchoStep, AheadStep
<1> QED BY <1>1, <1>2, PTL DEF Spec

\* When nothing is on its way and the buffer was never full, it has room.
LEMMA RestRows ==
    ASSUME IInv, AheadInv, AtRest, NeverFull PROVE RowsInv
<1>1. up = <<>>
  BY DEF AtRest
<1>2. {i \in 1..Len(up) : up[i].kind \in {"post"}} = {}
  BY <1>1
<1>3. Many(up, {"post"}) = 0
  BY <1>2, FS_EmptySet DEF Many
<1>4. Load = Len(log) + lost
  BY <1>3, LogIs, LinesTyped DEF Load
<1> QED BY <1>4 DEF NeverFull, Roomy, AheadInv

\* At rest, a message that was not missed has a row.
LEMMA RestMissed ==
    ASSUME IInv, AheadInv, AtRest, NeverFull, NEW r \in Roots(log), r \notin missed
    PROVE  RowsOf(buf, log, r) # {}
<1>1. RowsInv
  BY RestRows
<1>2. CASE r \in orphans
  BY <1>1, <1>2 DEF RowsInv, Deduced, SplitShown
<1>3. CASE r \notin orphans
  <2>1. Tracked(buf, wire, log, up, gone, r)
    BY <1>1, <1>3 DEF RowsInv, AllTracked
  <2>2. LinesOf(wire, r) = {}
    BY DEF AtRest, LinesOf
  <2> QED BY <2>1, <2>2 DEF Tracked
<1> QED BY <1>2, <1>3

\* Skipping what was shown or rewritten already never skips a message that was not:
\* once everything is delivered, the chat shows (or has as a tombstone) each message
\* that was sent while online or that a reply to CHATHISTORY brought (Buffer::append,
\* Buffer::apply_edit).
THEOREM NothingIsMissed == Spec => []NothingMissed
<1>1. IInv /\ AheadInv => NothingMissed
  <2> SUFFICES ASSUME IInv, AheadInv, AtRest, NeverFull, NEW m \in ToSet(log),
                      m.root \notin missed
               PROVE  \E i \in ServerRows : Root(i) = m.root
    BY DEF NothingMissed
  <2>1. PICK j \in 1..Len(log) : m = log[j]
    BY DEF ToSet
  <2>2. m.root \in Roots(log)
    BY <2>1 DEF AheadInv, OwnInv, OneAuthor
  <2>3. PICK x : x \in RowsOf(buf, log, m.root)
    BY <2>2, RestMissed
  <2>4. buf.rows \in Seq(Row)
    BY LinesTyped DEF Buffer
  <2>5. PICK k \in Shown(buf) : log[buf.rows[k].id].root = m.root
    BY <2>3, <2>4, RowsAre
  <2> QED BY <2>5 DEF Shown, ServerRows, Root
<1> QED BY <1>1, AlwaysAhead, PTL

\* When no line of a message is on its way any more, a row that is no tombstone has
\* its latest version.
LEMMA RestLatest ==
    ASSUME IInv, AheadInv, AtRest, NeverFull, NEW r \in Roots(log) \ (missed \cup orphans),
           NEW row \in RowsOf(buf, log, r)
    PROVE  /\ r \in gone => row.deleted
           /\ ~row.deleted => /\ row.text = log[row.id].text
                              /\ \A v \in VersionsOf(log, r) : v <= row.id
<1>1. RowsInv /\ wire = <<>> /\ up = <<>>
  BY RestRows DEF AtRest
<1>2. Tracked(buf, wire, log, up, gone, r)
  BY <1>1 DEF RowsInv, AllTracked
<1>3. ASSUME r \in gone PROVE row.deleted
  <2>1. ~After(wire, Removes(log, r), Brings(r), FALSE)
    BY <1>1 DEF After
  <2>2. PICK x \in RowsOf(buf, log, r) : x.deleted
    BY <1>2, <1>3, <2>1 DEF Tracked, Buried
  <2>3. buf.rows \in Seq(Row) /\ RowsDiffer(buf, log, orphans)
    BY LinesTyped DEF IInv, Sound, Buffer
  <2>4. row = x
    BY <2>2, <2>3, OnlyRow
  <2> QED BY <2>2, <2>4
<1>4. ASSUME ~row.deleted
      PROVE  row.text = log[row.id].text /\ \A v \in VersionsOf(log, r) : v <= row.id
  <2>1. Path(wire, log, r, row.id) /\ Current(buf, log, up, r, row)
    BY <1>2, <1>3, <1>4 DEF Tracked, OnItsWay
  <2>2. Stops(wire, r) = {0}
    BY <1>1 DEF Stops, LinesOf
  <2>3. \A v \in VersionsOf(log, r) : v <= row.id
    BY <2>1, <2>2 DEF Path, At
  <2>4. \A v \in VersionsOf(log, r) : v \in Met(buf)
    BY <2>1, <2>3 DEF Current
  <2>5. Lacks(up, Rewriting(log, r))
    BY <1>1, LacksEmpty
  <2> QED BY <2>1, <2>3, <2>4, <2>5 DEF Current, Told
<1> QED BY <1>3, <1>4

\* Once everything is delivered, the row of a message has its latest text, and is a
\* tombstone if the message was deleted, as long as no row had to make room: optimistic
\* edits, echoes of older edits and replays of the original end in the state of the
\* server (Buffer::append, Buffer::apply_edit, Buffer::apply_delete), unless they came
\* under another nick than the row's.
THEOREM LatestIsShown == Spec => []LatestShown
<1>1. IInv /\ AheadInv => LatestShown
  <2> SUFFICES ASSUME IInv, AheadInv, AtRest, NeverFull, NEW i \in ServerRows,
                      Root(i) \notin missed \cup orphans
               PROVE  /\ Root(i) \in gone => buf.rows[i].deleted
                      /\ ~buf.rows[i].deleted => buf.rows[i].text = Latest(Root(i)).text
    BY DEF LatestShown
  <2>1. PICK row : row = buf.rows[i]
    OBVIOUS
  <2>2. PICK r : r = Root(i)
    OBVIOUS
  <2>3. buf.rows \in Seq(Row) /\ i \in Shown(buf)
    BY LinesTyped DEF Buffer, ServerRows, Shown
  <2>4. row \in RowsOf(buf, log, r)
    BY <2>1, <2>2, <2>3, RowsAre DEF Root
  <2>5. /\ row.id \in VersionsOf(log, r) /\ row.id \in Nat /\ row.id \in 1..Len(log)
    BY <2>4, RowsIn
  <2>6. r \in Roots(log) \ (missed \cup orphans)
    BY <2>2, <2>5 DEF VersionsOf, AheadInv, OwnInv, OneAuthor
  <2>7. /\ r \in gone => row.deleted
        /\ ~row.deleted => /\ row.text = log[row.id].text
                           /\ \A v \in VersionsOf(log, r) : v <= row.id
    BY <2>4, <2>6, RestLatest
  <2>8. ASSUME ~row.deleted PROVE Latest(r) = log[row.id]
    <3>1. VersionsOf(log, r) = Versions(r) /\ Versions(r) \subseteq Nat
      BY DEF VersionsOf, Versions
    <3>2. \A v \in Versions(r) : (\A j \in Versions(r) : j <= v) => v = row.id
      BY <2>5, <2>7, <2>8, <3>1
    <3>3. (CHOOSE v \in Versions(r) : \A j \in Versions(r) : j <= v) = row.id
      BY <2>5, <2>7, <2>8, <3>1, <3>2
    <3> QED BY <3>3 DEF Latest
  <2> QED BY <2>1, <2>2, <2>7, <2>8
<1> QED BY <1>1, AlwaysAhead, PTL

=============================================================================
