----------------------------- MODULE QueueFacts -----------------------------
(***************************************************************************)
(* Facts about the FIFO queues between the threads, used by the proofs     *)
(* about the components: what a queue holds once an element is appended or *)
(* taken, and which of its elements had the last word.                     *)
(***************************************************************************)
EXTENDS Naturals, Sequences, SequencesExt, FiniteSets, SequenceTheorems,
        FiniteSetTheorems, WellFoundedInduction, TLAPS

---------------------------------------------------------------------------
(* Queues as the sets of what they hold                                    *)

LEMMA ToSetAppend ==
    ASSUME NEW S, NEW q \in Seq(S), NEW e \in S
    PROVE  ToSet(Append(q, e)) = ToSet(q) \cup {e}
<1> DEFINE r == Append(q, e)
<1>1. DOMAIN r = 1..Len(q) + 1 /\ DOMAIN q = 1..Len(q) /\ Len(q) \in Nat
  OBVIOUS
<1>2. \A i \in 1..Len(q) : r[i] = q[i]
  OBVIOUS
<1>3. r[Len(q) + 1] = e
  OBVIOUS
<1>4. ASSUME NEW x \in ToSet(r) PROVE x \in ToSet(q) \cup {e}
  <2>1. PICK i \in 1..Len(q) + 1 : r[i] = x
    BY <1>1, <1>4 DEF ToSet
  <2>2. CASE i \in 1..Len(q)
    BY <2>1, <2>2, <1>1, <1>2 DEF ToSet
  <2>3. CASE i = Len(q) + 1
    BY <2>1, <2>3, <1>3
  <2> QED BY <2>1, <2>2, <2>3, <1>1
<1>5. ASSUME NEW x \in ToSet(q) PROVE x \in ToSet(r)
  <2>1. PICK i \in 1..Len(q) : q[i] = x
    BY <1>1, <1>5 DEF ToSet
  <2> QED BY <2>1, <1>1, <1>2 DEF ToSet
<1>6. e \in ToSet(r)
  BY <1>1, <1>3 DEF ToSet
<1> QED BY <1>4, <1>5, <1>6

\* Taking the head of a queue removes nothing that differs from it.
LEMMA ToSetTail ==
    ASSUME NEW S, NEW q \in Seq(S), q # <<>>,
           NEW x \in ToSet(q), x # Head(q)
    PROVE  x \in ToSet(Tail(q))
<1>1. PICK i \in 1..Len(q) : q[i] = x
  BY DEF ToSet
<1>2. i # 1
  BY <1>1
<1>3. i - 1 \in 1..Len(Tail(q)) /\ Tail(q)[i - 1] = x
  BY <1>1, <1>2
<1>4. i - 1 \in DOMAIN Tail(q)
  BY <1>3
<1> QED BY <1>3, <1>4 DEF ToSet

\* r is q, or q with one more element of S.
Grows(q, r, S) == r = q \/ \E e \in S : r = Append(q, e)

LEMMA GrowsType ==
    ASSUME NEW S, NEW q \in Seq(S), NEW r, Grows(q, r, S) PROVE r \in Seq(S)
  BY DEF Grows

LEMMA TailType ==
    ASSUME NEW S, NEW q \in Seq(S), q # <<>> PROVE Head(q) \in S /\ Tail(q) \in Seq(S)
  OBVIOUS

LEMMA ToSetGrows ==
    ASSUME NEW S, NEW q \in Seq(S), NEW r, Grows(q, r, S), NEW x \in ToSet(q)
    PROVE  x \in ToSet(r)
<1>1. CASE r = q
  BY <1>1
<1>2. ASSUME NEW e \in S, r = Append(q, e) PROVE x \in ToSet(r)
  BY <1>2, ToSetAppend
<1> QED BY <1>1, <1>2 DEF Grows

---------------------------------------------------------------------------
(* The last element that matters                                           *)

\* Of the elements of q that matter, the last one is in hits, and none of ends
\* comes behind it; P says so of what came before q.
After(q, hits, ends, P) ==
    \/ \E i \in 1..Len(q) : q[i] \in hits /\ \A j \in (i + 1)..Len(q) : q[j] \notin ends
    \/ P /\ \A j \in 1..Len(q) : q[j] \notin ends

LEMMA AfterHit ==
    ASSUME NEW S, NEW q \in Seq(S), NEW e \in S, NEW hits, NEW ends, NEW P \in BOOLEAN,
           e \in hits
    PROVE  After(Append(q, e), hits, ends, P)
<1>1. /\ Len(q) + 1 \in 1..Len(Append(q, e)) /\ Append(q, e)[Len(q) + 1] = e
      /\ (Len(q) + 1 + 1)..Len(Append(q, e)) = {}
  OBVIOUS
<1> QED BY <1>1 DEF After

LEMMA AfterKept ==
    ASSUME NEW S, NEW q \in Seq(S), NEW e \in S, NEW hits, NEW ends, NEW P \in BOOLEAN,
           e \notin ends, After(q, hits, ends, P)
    PROVE  After(Append(q, e), hits, ends, P)
<1> DEFINE r == Append(q, e)
<1>1. /\ Len(q) \in Nat /\ Len(r) = Len(q) + 1 /\ r[Len(q) + 1] = e
      /\ \A i \in 1..Len(q) : r[i] = q[i]
  OBVIOUS
<1> HIDE DEF r
<1>2. ASSUME NEW i \in 0..Len(q), \A j \in (i + 1)..Len(q) : q[j] \notin ends
      PROVE  \A j \in (i + 1)..Len(r) : r[j] \notin ends
  <2> SUFFICES ASSUME NEW j \in (i + 1)..Len(r) PROVE r[j] \notin ends
    OBVIOUS
  <2>1. CASE j = Len(q) + 1
    BY <1>1, <2>1
  <2>2. CASE j # Len(q) + 1
    <3>1. j \in (i + 1)..Len(q) /\ j \in 1..Len(q)
      BY <1>1, <2>2
    <3> QED BY <1>1, <1>2, <3>1
  <2> QED BY <2>1, <2>2
<1>3. CASE P /\ \A j \in 1..Len(q) : q[j] \notin ends
  <2>1. 0 \in 0..Len(q) /\ 0 + 1 = 1
    BY <1>1
  <2>2. \A j \in 1..Len(r) : r[j] \notin ends
    BY <1>2, <1>3, <2>1
  <2>3. After(r, hits, ends, P)
    BY <1>3, <2>2 DEF After
  <2> QED BY <2>3 DEF r
<1>4. ASSUME NEW i \in 1..Len(q), q[i] \in hits, \A j \in (i + 1)..Len(q) : q[j] \notin ends
      PROVE  After(r, hits, ends, P)
  <2>1. i \in 0..Len(q) /\ i \in 1..Len(r) /\ r[i] \in hits
    BY <1>1, <1>4
  <2>2. \A j \in (i + 1)..Len(r) : r[j] \notin ends
    BY <1>2, <1>4, <2>1
  <2> QED BY <2>1, <2>2 DEF After
<1>5. CASE \E i \in 1..Len(q) : q[i] \in hits /\ \A j \in (i + 1)..Len(q) : q[j] \notin ends
  BY <1>4, <1>5 DEF r
<1> QED BY <1>3, <1>5 DEF After

\* Reading the head moves what it says from the queue to what came before it.
LEMMA AfterTail ==
    ASSUME NEW S, NEW q \in Seq(S), q # <<>>, NEW hits, NEW ends,
           NEW P \in BOOLEAN, NEW Q \in BOOLEAN,
           After(q, hits, ends, P),
           Head(q) \in hits => Q,
           P /\ Head(q) \notin ends => Q
    PROVE  After(Tail(q), hits, ends, Q)
<1> DEFINE r == Tail(q)
<1>1. /\ Len(q) \in Nat /\ Len(q) > 0 /\ Len(r) = Len(q) - 1 /\ Head(q) = q[1]
      /\ \A i \in 1..Len(r) : r[i] = q[i + 1]
  OBVIOUS
<1> HIDE DEF r
<1>2. ASSUME NEW i \in 0..Len(r), \A j \in (i + 2)..Len(q) : q[j] \notin ends
      PROVE  \A j \in (i + 1)..Len(r) : r[j] \notin ends
  <2> SUFFICES ASSUME NEW j \in (i + 1)..Len(r) PROVE r[j] \notin ends
    OBVIOUS
  <2>1. j \in 1..Len(r) /\ j + 1 \in (i + 2)..Len(q)
    BY <1>1
  <2> QED BY <1>1, <1>2, <2>1
<1>3. CASE P /\ \A j \in 1..Len(q) : q[j] \notin ends
  <2>1. Q
    BY <1>1, <1>3
  <2>2. 0 \in 0..Len(r) /\ \A j \in (0 + 2)..Len(q) : q[j] \notin ends
    BY <1>1, <1>3
  <2>3. \A j \in (0 + 1)..Len(r) : r[j] \notin ends
    BY <1>2, <2>2
  <2>4. After(r, hits, ends, Q)
    BY <2>1, <2>3 DEF After
  <2> QED BY <2>4 DEF r
<1>4. ASSUME NEW i \in 1..Len(q), q[i] \in hits, \A j \in (i + 1)..Len(q) : q[j] \notin ends
      PROVE  After(r, hits, ends, Q)
  <2>1. PICK k \in 0..Len(r) : i = k + 1
    BY <1>1
  <2>2. \A j \in (k + 1)..Len(r) : r[j] \notin ends
    <3>1. \A j \in (k + 2)..Len(q) : q[j] \notin ends
      BY <1>4, <2>1
    <3> QED BY <1>2, <3>1
  <2>3. CASE k = 0
    BY <1>1, <1>4, <2>1, <2>2, <2>3 DEF After
  <2>4. CASE k # 0
    <3>1. k \in 1..Len(r) /\ r[k] \in hits
      BY <1>1, <1>4, <2>1, <2>4
    <3> QED BY <2>2, <3>1 DEF After
  <2> QED BY <2>3, <2>4
<1>5. CASE \E i \in 1..Len(q) : q[i] \in hits /\ \A j \in (i + 1)..Len(q) : q[j] \notin ends
  BY <1>4, <1>5 DEF r
<1> QED BY <1>3, <1>5 DEF After

LEMMA AfterMore ==
    ASSUME NEW q, NEW hits, NEW ends, NEW P \in BOOLEAN, NEW Q \in BOOLEAN,
           After(q, hits, ends, P), P => Q
    PROVE  After(q, hits, ends, Q)
  BY DEF After

---------------------------------------------------------------------------
(* What a queue holds none of, one of, and in which order                  *)

Lacks(q, T) == \A i \in 1..Len(q) : q[i] \notin T
Single(q, T) == \A i \in 1..Len(q), j \in 1..Len(q) : q[i] \in T /\ q[j] \in T => i = j

\* No element of B comes behind one of A.
InOrder(q, A, B) == \A i \in 1..Len(q), j \in 1..Len(q) : q[i] \in A /\ q[j] \in B => j <= i

LEMMA LacksEmpty == \A T : Lacks(<<>>, T)
  BY DEF Lacks

LEMMA LacksAppend ==
    ASSUME NEW S, NEW q \in Seq(S), NEW e \in S, NEW T
    PROVE  Lacks(Append(q, e), T) <=> Lacks(q, T) /\ e \notin T
<1> DEFINE r == Append(q, e)
<1>1. /\ Len(q) \in Nat /\ Len(r) = Len(q) + 1 /\ r[Len(q) + 1] = e
      /\ \A i \in 1..Len(q) : r[i] = q[i]
  OBVIOUS
<1> HIDE DEF r
<1>2. Lacks(r, T) <=> Lacks(q, T) /\ e \notin T
  <2>1. 1..Len(r) = 1..Len(q) \cup {Len(q) + 1}
    BY <1>1
  <2> QED BY <1>1, <2>1 DEF Lacks
<1> QED BY <1>2 DEF r

LEMMA TailAt ==
    ASSUME NEW S, NEW q \in Seq(S), q # <<>>
    PROVE  /\ Len(q) \in Nat /\ Len(q) > 0 /\ Len(Tail(q)) = Len(q) - 1
           /\ Head(q) = q[1] /\ \A i \in 1..Len(Tail(q)) : Tail(q)[i] = q[i + 1]
           /\ \A i \in 1..Len(q) : i = 1 \/ (i - 1 \in 1..Len(Tail(q)) /\ Tail(q)[i - 1] = q[i])
  OBVIOUS

LEMMA LacksTail ==
    ASSUME NEW S, NEW q \in Seq(S), q # <<>>, NEW T
    PROVE  Lacks(q, T) <=> Head(q) \notin T /\ Lacks(Tail(q), T)
<1> DEFINE r == Tail(q)
<1>1. /\ Len(q) \in Nat /\ Len(q) > 0 /\ Len(r) = Len(q) - 1
      /\ Head(q) = q[1] /\ \A i \in 1..Len(r) : r[i] = q[i + 1]
      /\ \A i \in 1..Len(q) : i = 1 \/ (i - 1 \in 1..Len(r) /\ r[i - 1] = q[i])
  BY TailAt
<1> HIDE DEF r
<1>2. ASSUME Lacks(q, T) PROVE Head(q) \notin T /\ Lacks(r, T)
  <2>1. 1 \in 1..Len(q) /\ \A i \in 1..Len(r) : i + 1 \in 1..Len(q)
    BY <1>1
  <2> QED BY <1>1, <1>2, <2>1 DEF Lacks
<1>3. ASSUME Head(q) \notin T, Lacks(r, T) PROVE Lacks(q, T)
  BY <1>1, <1>3 DEF Lacks
<1> QED BY <1>2, <1>3 DEF r

LEMMA LacksMore ==
    ASSUME NEW q, NEW T, NEW U, Lacks(q, U), T \subseteq U
    PROVE  Lacks(q, T)
  BY DEF Lacks

LEMMA SingleAppend ==
    ASSUME NEW S, NEW q \in Seq(S), NEW e \in S, NEW T, Single(q, T), e \in T => Lacks(q, T)
    PROVE  Single(Append(q, e), T)
<1> DEFINE r == Append(q, e)
<1>1. /\ Len(q) \in Nat /\ Len(r) = Len(q) + 1 /\ r[Len(q) + 1] = e
      /\ \A i \in 1..Len(q) : r[i] = q[i]
  OBVIOUS
<1> HIDE DEF r
<1>2. 1..Len(r) = 1..Len(q) \cup {Len(q) + 1}
  BY <1>1
<1>3. Single(r, T)
  BY <1>1, <1>2 DEF Single, Lacks
<1> QED BY <1>3 DEF r

LEMMA SingleTail ==
    ASSUME NEW S, NEW q \in Seq(S), q # <<>>, NEW T, Single(q, T)
    PROVE  Single(Tail(q), T) /\ (Head(q) \in T => Lacks(Tail(q), T))
<1> DEFINE r == Tail(q)
<1>1. /\ Len(q) \in Nat /\ Len(q) > 0 /\ Len(r) = Len(q) - 1
      /\ Head(q) = q[1] /\ \A i \in 1..Len(r) : r[i] = q[i + 1]
  BY TailAt
<1> HIDE DEF r
<1>2. 1 \in 1..Len(q) /\ \A i \in 1..Len(r) : i + 1 \in 1..Len(q) /\ i + 1 # 1
  BY <1>1
<1>3. Single(r, T)
  <2> SUFFICES ASSUME NEW i \in 1..Len(r), NEW j \in 1..Len(r), r[i] \in T, r[j] \in T
               PROVE  i = j
    BY DEF Single
  <2>1. i + 1 = j + 1
    BY <1>1, <1>2 DEF Single
  <2> QED BY <2>1
<1>4. Head(q) \in T => Lacks(r, T)
  BY <1>1, <1>2 DEF Single, Lacks
<1> QED BY <1>3, <1>4 DEF r

LEMMA SingleLacks == \A q, T : Lacks(q, T) => Single(q, T)
  BY DEF Lacks, Single

LEMMA InOrderAppend ==
    ASSUME NEW S, NEW q \in Seq(S), NEW e \in S, NEW A, NEW B,
           InOrder(q, A, B), e \in B => Lacks(q, A)
    PROVE  InOrder(Append(q, e), A, B)
<1> DEFINE r == Append(q, e)
<1>1. /\ Len(q) \in Nat /\ Len(r) = Len(q) + 1 /\ r[Len(q) + 1] = e
      /\ \A i \in 1..Len(q) : r[i] = q[i]
  OBVIOUS
<1> HIDE DEF r
<1>2. 1..Len(r) = 1..Len(q) \cup {Len(q) + 1}
  BY <1>1
<1>3. InOrder(r, A, B)
  <2> SUFFICES ASSUME NEW i \in 1..Len(r), NEW j \in 1..Len(r), r[i] \in A, r[j] \in B
               PROVE  j <= i
    BY DEF InOrder
  <2>1. CASE i = Len(q) + 1
    BY <1>1, <2>1
  <2>2. CASE i \in 1..Len(q) /\ j \in 1..Len(q)
    BY <1>1, <2>2 DEF InOrder
  <2>3. CASE i \in 1..Len(q) /\ j = Len(q) + 1
    BY <1>1, <2>3 DEF Lacks
  <2> QED BY <1>2, <2>1, <2>2, <2>3
<1> QED BY <1>3 DEF r

LEMMA InOrderTail ==
    ASSUME NEW S, NEW q \in Seq(S), q # <<>>, NEW A, NEW B, InOrder(q, A, B)
    PROVE  InOrder(Tail(q), A, B) /\ (Head(q) \in A => Lacks(Tail(q), B))
<1> DEFINE r == Tail(q)
<1>1. /\ Len(q) \in Nat /\ Len(q) > 0 /\ Len(r) = Len(q) - 1
      /\ Head(q) = q[1] /\ \A i \in 1..Len(r) : r[i] = q[i + 1]
  BY TailAt
<1> HIDE DEF r
<1>2. 1 \in 1..Len(q) /\ \A i \in 1..Len(r) : i + 1 \in 1..Len(q) /\ i + 1 > 1
  BY <1>1
<1>3. InOrder(r, A, B)
  <2> SUFFICES ASSUME NEW i \in 1..Len(r), NEW j \in 1..Len(r), r[i] \in A, r[j] \in B
               PROVE  j <= i
    BY DEF InOrder
  <2>1. j + 1 <= i + 1
    BY <1>1, <1>2 DEF InOrder
  <2> QED BY <2>1
<1>4. Head(q) \in A => Lacks(r, B)
  <2> SUFFICES ASSUME Head(q) \in A, NEW i \in 1..Len(r), r[i] \in B PROVE FALSE
    BY DEF Lacks
  <2>1. i + 1 <= 1
    BY <1>1, <1>2 DEF InOrder
  <2> QED BY <1>2, <2>1
<1> QED BY <1>3, <1>4 DEF r

LEMMA InOrderLacks == \A q, A, B : Lacks(q, A) \/ Lacks(q, B) => InOrder(q, A, B)
  BY DEF Lacks, InOrder

---------------------------------------------------------------------------
(* Up to two more elements of E                                            *)

Grown(q, r, E) == \/ r = q
                  \/ \E a \in E : r = Append(q, a)
                  \/ \E a \in E, b \in E : r = Append(Append(q, a), b)

LEMMA GrownType ==
    ASSUME NEW S, NEW q \in Seq(S), NEW E \in SUBSET S, NEW r, Grown(q, r, E)
    PROVE  r \in Seq(S)
  BY AppendProperties DEF Grown

LEMMA LacksGrown ==
    ASSUME NEW S, NEW q \in Seq(S), NEW E \in SUBSET S, NEW r, Grown(q, r, E), NEW T,
           T \cap E = {}
    PROVE  Lacks(r, T) <=> Lacks(q, T)
<1>1. ASSUME NEW p \in Seq(S), NEW a \in E
      PROVE  Append(p, a) \in Seq(S) /\ (Lacks(Append(p, a), T) <=> Lacks(p, T))
  BY LacksAppend, AppendProperties
<1>2. ASSUME NEW a \in E, r = Append(q, a) PROVE Lacks(r, T) <=> Lacks(q, T)
  BY <1>1, <1>2
<1>3. ASSUME NEW a \in E, NEW b \in E, r = Append(Append(q, a), b) PROVE Lacks(r, T) <=> Lacks(q, T)
  <2>1. PICK p \in Seq(S) : p = Append(q, a)
    BY <1>1
  <2> QED BY <1>1, <1>3, <2>1
<1> QED BY <1>2, <1>3 DEF Grown

LEMMA SingleGrown ==
    ASSUME NEW S, NEW q \in Seq(S), NEW E \in SUBSET S, NEW r, Grown(q, r, E), NEW T,
           T \cap E = {}, Single(q, T)
    PROVE  Single(r, T)
<1>1. ASSUME NEW p \in Seq(S), NEW a \in E, Single(p, T)
      PROVE  Append(p, a) \in Seq(S) /\ Single(Append(p, a), T)
  BY <1>1, SingleAppend, AppendProperties
<1>2. ASSUME NEW a \in E, r = Append(q, a) PROVE Single(r, T)
  BY <1>1, <1>2
<1>3. ASSUME NEW a \in E, NEW b \in E, r = Append(Append(q, a), b) PROVE Single(r, T)
  <2>1. PICK p \in Seq(S) : p = Append(q, a)
    BY <1>1
  <2> QED BY <1>1, <1>3, <2>1
<1> QED BY <1>2, <1>3 DEF Grown

LEMMA InOrderGrown ==
    ASSUME NEW S, NEW q \in Seq(S), NEW E \in SUBSET S, NEW r, Grown(q, r, E),
           NEW A, NEW B, B \cap E = {}, InOrder(q, A, B)
    PROVE  InOrder(r, A, B)
<1>1. ASSUME NEW p \in Seq(S), NEW a \in E, InOrder(p, A, B)
      PROVE  Append(p, a) \in Seq(S) /\ InOrder(Append(p, a), A, B)
  BY <1>1, InOrderAppend, AppendProperties
<1>2. ASSUME NEW a \in E, r = Append(q, a) PROVE InOrder(r, A, B)
  BY <1>1, <1>2
<1>3. ASSUME NEW a \in E, NEW b \in E, r = Append(Append(q, a), b) PROVE InOrder(r, A, B)
  <2>1. PICK p \in Seq(S) : p = Append(q, a)
    BY <1>1
  <2> QED BY <1>1, <1>3, <2>1
<1> QED BY <1>2, <1>3 DEF Grown

LEMMA AfterGrown ==
    ASSUME NEW S, NEW q \in Seq(S), NEW E \in SUBSET S, NEW r, Grown(q, r, E),
           NEW hits, NEW ends, NEW P \in BOOLEAN, ends \cap E = {}, After(q, hits, ends, P)
    PROVE  After(r, hits, ends, P)
<1>1. ASSUME NEW p \in Seq(S), NEW a \in E, After(p, hits, ends, P)
      PROVE  Append(p, a) \in Seq(S) /\ After(Append(p, a), hits, ends, P)
  BY <1>1, AfterKept, AppendProperties
<1>2. ASSUME NEW a \in E, r = Append(q, a) PROVE After(r, hits, ends, P)
  BY <1>1, <1>2
<1>3. ASSUME NEW a \in E, NEW b \in E, r = Append(Append(q, a), b) PROVE After(r, hits, ends, P)
  <2>1. PICK p \in Seq(S) : p = Append(q, a)
    BY <1>1
  <2> QED BY <1>1, <1>3, <2>1
<1> QED BY <1>2, <1>3 DEF Grown

LEMMA AfterLacks ==
    ASSUME NEW q, NEW hits, NEW ends, NEW P \in BOOLEAN, Lacks(q, ends), P
    PROVE  After(q, hits, ends, P)
  BY DEF After, Lacks

LEMMA AfterSome ==
    ASSUME NEW q, NEW hits, NEW ends, NEW P \in BOOLEAN, After(q, hits, ends, P)
    PROVE  (Lacks(q, hits) => P) /\ (Lacks(q, hits) => Lacks(q, ends))
  BY DEF After, Lacks

---------------------------------------------------------------------------
(* How many elements of a queue are of some kind                           *)

Places(q, S) == {i \in 1..Len(q) : q[i] \in S}

LEMMA PlacesFinite ==
    ASSUME NEW T, NEW q \in Seq(T), NEW S
    PROVE  IsFiniteSet(Places(q, S)) /\ Cardinality(Places(q, S)) \in Nat
<1>1. IsFiniteSet(1..Len(q)) /\ Places(q, S) \in SUBSET (1..Len(q))
  BY FS_Interval DEF Places
<1>2. IsFiniteSet(Places(q, S))
  BY <1>1, FS_Subset
<1> QED BY <1>2, FS_CardinalityType

LEMMA PlacesAppend ==
    ASSUME NEW T, NEW q \in Seq(T), NEW e \in T, NEW S
    PROVE  Cardinality(Places(Append(q, e), S)) =
              Cardinality(Places(q, S)) + (IF e \in S THEN 1 ELSE 0)
<1> DEFINE r == Append(q, e)
<1>1. /\ Len(q) \in Nat /\ Len(r) = Len(q) + 1 /\ r[Len(q) + 1] = e
      /\ \A i \in 1..Len(q) : r[i] = q[i]
  OBVIOUS
<1> HIDE DEF r
<1>2. IsFiniteSet(Places(q, S)) /\ Cardinality(Places(q, S)) \in Nat
  BY PlacesFinite
<1>3. CASE e \in S
  <2>1. Places(r, S) = Places(q, S) \cup {Len(q) + 1} /\ Len(q) + 1 \notin Places(q, S)
    BY <1>1, <1>3 DEF Places
  <2>2. Cardinality(Places(r, S)) = Cardinality(Places(q, S)) + 1
    BY <1>2, <2>1, FS_AddElement
  <2> QED BY <1>3, <2>2 DEF r
<1>4. CASE e \notin S
  <2>1. Places(r, S) = Places(q, S)
    BY <1>1, <1>4 DEF Places
  <2> QED BY <1>2, <1>4, <2>1 DEF r
<1> QED BY <1>3, <1>4

LEMMA PlacesTail ==
    ASSUME NEW T, NEW q \in Seq(T), q # <<>>, NEW S
    PROVE  Cardinality(Places(Tail(q), S)) + (IF Head(q) \in S THEN 1 ELSE 0)
              = Cardinality(Places(q, S))
<1> DEFINE r == Tail(q)
           s == Places(q, S) \ {1}
           f == [i \in s |-> i - 1]
<1>1. /\ Len(q) \in Nat /\ Len(q) > 0 /\ Len(r) = Len(q) - 1 /\ Head(q) = q[1]
      /\ \A i \in 1..Len(r) : r[i] = q[i + 1]
  OBVIOUS
<1>2. r \in Seq(T)
  OBVIOUS
<1> HIDE DEF r
<1>3. IsFiniteSet(Places(q, S)) /\ Cardinality(Places(q, S)) \in Nat
  BY PlacesFinite
<1>4. /\ IsFiniteSet(s)
      /\ Cardinality(s) = Cardinality(Places(q, S)) - (IF q[1] \in S THEN 1 ELSE 0)
  <2>1. 1 \in Places(q, S) <=> q[1] \in S
    BY <1>1 DEF Places
  <2> QED BY <1>3, <2>1, FS_RemoveElement
<1>5. f \in Surjection(s, Places(r, S))
  <2>1. \A i \in s : i - 1 \in Places(r, S)
    <3> SUFFICES ASSUME NEW i \in s PROVE i - 1 \in Places(r, S)
      OBVIOUS
    <3>1. i \in 1..Len(q) /\ i # 1 /\ q[i] \in S
      BY DEF Places
    <3>2. i - 1 \in 1..Len(r) /\ r[i - 1] = q[i]
      BY <1>1, <3>1
    <3> QED BY <3>1, <3>2 DEF Places
  <2>2. \A j \in Places(r, S) : j + 1 \in s /\ f[j + 1] = j
    <3> SUFFICES ASSUME NEW j \in Places(r, S) PROVE j + 1 \in s /\ f[j + 1] = j
      OBVIOUS
    <3>1. j \in 1..Len(r) /\ r[j] \in S
      BY DEF Places
    <3>2. j + 1 \in 1..Len(q) /\ q[j + 1] \in S /\ j + 1 # 1
      BY <1>1, <3>1
    <3>3. j + 1 \in s
      BY <3>2 DEF Places
    <3>4. (j + 1) - 1 = j
      BY <3>1
    <3> QED BY <3>3, <3>4
  <2>3. f \in [s -> Places(r, S)]
    BY <2>1
  <2> QED BY <2>2, <2>3 DEF Surjection
<1>6. Cardinality(Places(r, S)) = Cardinality(s)
  <2>1. f \in Injection(s, Places(r, S))
    <3>1. \A i, j \in s : f[i] = f[j] => i = j
      <4>1. \A i \in s : i \in Nat /\ f[i] = i - 1
        BY DEF Places
      <4> QED BY <4>1
    <3> QED BY <1>5, <3>1 DEF Surjection, Injection, IsInjective
  <2> QED BY <1>4, <1>5, <2>1, FS_Surjection
<1>7. Cardinality(Places(r, S)) \in Nat
  BY <1>2, PlacesFinite
<1> HIDE DEF s
<1>8. Cardinality(s) \in Nat
  BY <1>4, FS_CardinalityType
<1> QED BY <1>1, <1>3, <1>4, <1>6, <1>7, <1>8 DEF r

---------------------------------------------------------------------------
(* The first and the last place of something                               *)

LEMMA Least ==
    ASSUME NEW T \in SUBSET Nat, T # {}
    PROVE  \E x \in T : \A y \in T : x <= y
<1> DEFINE R == {ss \in Nat \X Nat : ss[1] < ss[2]}
<1>1. IsWellFoundedOn(R, Nat)
  BY NatLessThanWellFounded DEF OpToRel
<1>2. PICK x \in T : \A y \in T : ~ (<<y, x>> \in R)
  BY <1>1, WFMin
<1>3. \A y \in T : ~ (y < x)
  <2> SUFFICES ASSUME NEW y \in T, y < x PROVE FALSE
    OBVIOUS
  <2>1. <<y, x>> \in Nat \X Nat /\ <<y, x>>[1] = y /\ <<y, x>>[2] = x
    OBVIOUS
  <2>2. <<y, x>> \in R
    BY <2>1
  <2> QED BY <1>2, <2>2
<1> HIDE DEF R
<1>4. \A y \in T : x <= y
  BY <1>3
<1> QED BY <1>4

LEMMA MinIs ==
    ASSUME NEW I \in SUBSET Nat, I # {}
    PROVE  Min(I) \in I /\ \A y \in I : Min(I) <= y
  BY Least DEF Min

LEMMA MaxIs ==
    ASSUME NEW n \in Nat, NEW I \in SUBSET (1..n), I # {}
    PROVE  Max(I) \in I /\ \A y \in I : y <= Max(I)
<1> DEFINE J == {n - i : i \in I}
<1>1. J \in SUBSET Nat /\ J # {}
  OBVIOUS
<1>2. PICK j \in J : \A y \in J : j <= y
  BY <1>1, Least
<1>3. PICK m \in I : j = n - m
  BY <1>2
<1>4. \A y \in I : m >= y
  <2> SUFFICES ASSUME NEW y \in I PROVE m >= y
    OBVIOUS
  <2>1. n - y \in J /\ y \in 1..n /\ m \in 1..n
    OBVIOUS
  <2>2. n - m <= n - y
    BY <1>2, <1>3, <2>1
  <2> QED BY <2>1, <2>2
<1>5. /\ Max(I) \in I /\ \A y \in I : Max(I) >= y
  BY <1>4 DEF Max
<1> HIDE DEF J
<1> QED BY <1>5
=============================================================================
