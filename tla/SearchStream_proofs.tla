------------------------- MODULE SearchStream_proofs -------------------------
(***************************************************************************)
(* Proofs about a streaming search, for any number of sources and offers.  *)
(*                                                                         *)
(* What a source's task has told its client is in two pieces: l, what was  *)
(* yielded, and q, the queue, in which it lies among what other sources    *)
(* tell.  The invariant relates both to the place the task is at.          *)
(***************************************************************************)
EXTENDS SearchStream, FiniteSetTheorems, SequenceTheorems, TLAPS

\* An event about source s.
Of(e, s) ==
  e.kind \in {"source_started", "offer", "source_finished"} /\ e.source = s

Told(l, q, s) == l # <<>> \/ \E j \in DOMAIN q : Of(q[j], s)

Final(l, q, s) ==
  \/ \E i \in DOMAIN l : l[i].kind = "source_finished"
  \/ \E j \in DOMAIN q : Of(q[j], s) /\ q[j].kind = "source_finished"

\* The first event of s is that it started, and the last, if there is one,
\* that it is finished.
Ordered(l, q, s) ==
  /\ \A i \in DOMAIN l : (l[i].kind = "source_started" <=> i = 1)
  /\ \A i \in DOMAIN l : l[i].kind = "source_finished" =>
       i = Len(l) /\ \A j \in DOMAIN q : ~Of(q[j], s)
  /\ \A j \in DOMAIN q : Of(q[j], s) =>
       (q[j].kind = "source_started" <=>
          l = <<>> /\ \A k \in DOMAIN q : k < j => ~Of(q[k], s))
  /\ \A j \in DOMAIN q : Of(q[j], s) /\ q[j].kind = "source_finished" =>
       \A k \in DOMAIN q : j < k => ~Of(q[k], s)

\* The offers that s has reported.
OutOf(l, q, s) ==
  {l[i].offer : i \in {i \in DOMAIN l : l[i].kind = "offer"}}
    \cup {q[j].offer : j \in {j \in DOMAIN q : Of(q[j], s) /\ q[j].kind = "offer"}}

OffersIn(ev) == {ev[j].offer : j \in {j \in DOMAIN ev : ev[j].kind = "offer"}}

\* What a source is finished with.
FinalIs(l, q, s, res) ==
  /\ \A i \in DOMAIN l : l[i].kind = "source_finished" =>
       l[i].count = Len(res.offers) /\ l[i].error = res.error
  /\ \A j \in DOMAIN q : Of(q[j], s) /\ q[j].kind = "source_finished" =>
       q[j].count = Len(res.offers) /\ q[j].error = res.error

-----------------------------------------------------------------------------

\* What a longer queue holds.
LEMMA Joined ==
  ASSUME NEW q \in Seq(Event), NEW ev \in Seq(Event)
  PROVE  /\ q \o ev \in Seq(Event)
         /\ Len(q) \in Nat /\ Len(ev) \in Nat /\ Len(q \o ev) = Len(q) + Len(ev)
         /\ DOMAIN q = 1 .. Len(q) /\ DOMAIN ev = 1 .. Len(ev)
         /\ DOMAIN (q \o ev) = 1 .. Len(q) + Len(ev)
         /\ \A j \in DOMAIN q : (q \o ev)[j] = q[j]
         /\ \A j \in DOMAIN ev : Len(q) + j \in DOMAIN (q \o ev) /\ (q \o ev)[Len(q) + j] = ev[j]
         /\ \A j \in DOMAIN (q \o ev) :
              \/ j \in DOMAIN q
              \/ \E k \in DOMAIN ev : j = Len(q) + k
<1>1. /\ q \o ev \in Seq(Event) /\ Len(q \o ev) = Len(q) + Len(ev)
      /\ \A i \in 1 .. Len(q) + Len(ev) :
           (q \o ev)[i] = IF i <= Len(q) THEN q[i] ELSE ev[i - Len(q)]
  BY ConcatProperties
<1>2. /\ DOMAIN q = 1 .. Len(q) /\ DOMAIN ev = 1 .. Len(ev)
      /\ Len(q) \in Nat /\ Len(ev) \in Nat
      /\ DOMAIN (q \o ev) = 1 .. Len(q) + Len(ev)
  BY <1>1, LenProperties
<1>3. \A j \in DOMAIN q : (q \o ev)[j] = q[j]
  BY <1>1, <1>2
<1>4. \A j \in DOMAIN ev : Len(q) + j \in DOMAIN (q \o ev) /\ (q \o ev)[Len(q) + j] = ev[j]
  BY <1>1, <1>2
<1>5. ASSUME NEW j \in DOMAIN (q \o ev), j \notin DOMAIN q
      PROVE  \E k \in DOMAIN ev : j = Len(q) + k
  <2>1. j - Len(q) \in DOMAIN ev /\ j = Len(q) + (j - Len(q))
    BY <1>2, <1>5
  <2>2. QED
    BY <2>1
<1>6. QED
  BY <1>1, <1>2, <1>3, <1>4, <1>5

\* Events of others are put.
LEMMA PutOthers ==
  ASSUME NEW s, NEW l, NEW q \in Seq(Event), NEW ev \in Seq(Event),
         \A j \in DOMAIN ev : ~Of(ev[j], s)
  PROVE  /\ Ordered(l, q, s) => Ordered(l, q \o ev, s)
         /\ Told(l, q \o ev, s) <=> Told(l, q, s)
         /\ Final(l, q \o ev, s) <=> Final(l, q, s)
         /\ OutOf(l, q \o ev, s) = OutOf(l, q, s)
         /\ \A res : FinalIs(l, q, s, res) => FinalIs(l, q \o ev, s, res)
<1> DEFINE p == q \o ev
<1>1. /\ DOMAIN q \subseteq DOMAIN p /\ DOMAIN q \subseteq Nat /\ DOMAIN p \subseteq Nat
      /\ \A j \in DOMAIN q : p[j] = q[j]
      /\ \A j \in DOMAIN p : Of(p[j], s) => j \in DOMAIN q
  <2>1. \A j \in DOMAIN p : j \in DOMAIN q \/ \E k \in DOMAIN ev : j = Len(q) + k
    BY Joined
  <2>2. \A k \in DOMAIN ev : p[Len(q) + k] = ev[k]
    BY Joined
  <2>3. \A j \in DOMAIN p : Of(p[j], s) => j \in DOMAIN q
    BY <2>1, <2>2
  <2>4. QED
    BY <2>3, Joined
<1> HIDE DEF p
<1>2. Ordered(l, q, s) => Ordered(l, p, s)
  BY <1>1 DEF Ordered
<1>3. Told(l, p, s) <=> Told(l, q, s)
  BY <1>1 DEF Told
<1>4. Final(l, p, s) <=> Final(l, q, s)
  BY <1>1 DEF Final
<1>5. OutOf(l, p, s) = OutOf(l, q, s)
  <2>1. {j \in DOMAIN p : Of(p[j], s) /\ p[j].kind = "offer"}
          = {j \in DOMAIN q : Of(q[j], s) /\ q[j].kind = "offer"}
    BY <1>1
  <2>2. QED
    BY <1>1, <2>1 DEF OutOf
<1>6. \A res : FinalIs(l, q, s, res) => FinalIs(l, p, s, res)
  BY <1>1 DEF FinalIs
<1>7. QED
  BY <1>2, <1>3, <1>4, <1>5, <1>6 DEF p

\* Events of s itself are put: the first says that it started, if nothing was
\* told before, and only the last may say that it is finished.
LEMMA PutOwn ==
  ASSUME NEW s, NEW l, NEW q \in Seq(Event), NEW ev \in Seq(Event),
         Ordered(l, q, s), ~Final(l, q, s), ev # <<>>,
         \A j \in DOMAIN ev : Of(ev[j], s),
         \A j \in DOMAIN ev : ev[j].kind = "source_started" <=> j = 1 /\ ~Told(l, q, s),
         \A j \in DOMAIN ev : ev[j].kind = "source_finished" => j = Len(ev)
  PROVE  /\ Ordered(l, q \o ev, s)
         /\ Told(l, q \o ev, s)
         /\ Final(l, q \o ev, s) <=> ev[Len(ev)].kind = "source_finished"
         /\ OutOf(l, q \o ev, s)
              = OutOf(l, q, s) \cup OffersIn(ev)
         /\ \A res : (ev[Len(ev)].kind = "source_finished"
                        => ev[Len(ev)].count = Len(res.offers) /\ ev[Len(ev)].error = res.error)
                     => FinalIs(l, q \o ev, s, res)
<1> DEFINE p == q \o ev
           n == Len(q)
           m == Len(ev)
<1>1. /\ n \in Nat /\ m \in Nat /\ DOMAIN q = 1 .. n /\ DOMAIN ev = 1 .. m
      /\ DOMAIN p = 1 .. n + m
      /\ \A j \in DOMAIN q : p[j] = q[j]
      /\ \A j \in DOMAIN ev : n + j \in DOMAIN p /\ p[n + j] = ev[j]
      /\ \A j \in DOMAIN p : j \in DOMAIN q \/ \E k \in DOMAIN ev : j = n + k
  BY Joined
<1>2. m >= 1 /\ 1 \in DOMAIN ev /\ m \in DOMAIN ev
  <2>1. m # 0
    BY <1>1
  <2>2. QED
    BY <1>1, <2>1
<1> HIDE DEF p, n, m
<1>3. /\ \A i \in DOMAIN l : l[i].kind # "source_finished"
      /\ \A j \in DOMAIN q : Of(q[j], s) => q[j].kind # "source_finished"
  BY DEF Final
<1>4. Told(l, p, s)
  BY <1>1, <1>2 DEF Told
<1>5. Ordered(l, p, s)
  <2>1. \A i \in DOMAIN l : l[i].kind = "source_started" <=> i = 1
    BY DEF Ordered
  <2>2. ASSUME NEW j \in DOMAIN p, Of(p[j], s)
        PROVE  p[j].kind = "source_started" <=>
                 l = <<>> /\ \A k \in DOMAIN p : k < j => ~Of(p[k], s)
    <3>1. CASE j \in DOMAIN q
      <4>1. \A k \in DOMAIN p : k < j => k \in DOMAIN q
        BY <1>1, <3>1
      <4>2. \A k \in DOMAIN q : k \in DOMAIN p
        BY <1>1
      <4>3. q[j].kind = "source_started" <=>
              l = <<>> /\ \A k \in DOMAIN q : k < j => ~Of(q[k], s)
        BY <1>1, <2>2, <3>1 DEF Ordered
      <4>4. QED
        BY <1>1, <3>1, <4>1, <4>2, <4>3
    <3>2. ASSUME NEW k \in DOMAIN ev, j = n + k
          PROVE  p[j].kind = "source_started" <=>
                   l = <<>> /\ \A i \in DOMAIN p : i < j => ~Of(p[i], s)
      <4>1. p[j] = ev[k]
        BY <1>1, <3>2
      <4>2. CASE k = 1
        <5>1. \A i \in DOMAIN p : i < j <=> i \in DOMAIN q
          BY <1>1, <3>2, <4>2
        <5>2. (l = <<>> /\ \A i \in DOMAIN p : i < j => ~Of(p[i], s)) <=> ~Told(l, q, s)
          BY <1>1, <5>1 DEF Told
        <5>3. QED
          BY <4>1, <4>2, <5>2
      <4>3. CASE k # 1
        <5>1. n + 1 \in DOMAIN p /\ n + 1 < j /\ Of(p[n + 1], s)
          BY <1>1, <1>2, <3>2, <4>3
        <5>2. QED
          BY <4>1, <4>3, <5>1
      <4>4. QED
        BY <4>2, <4>3
    <3>3. QED
      BY <1>1, <3>1, <3>2
  <2>3. ASSUME NEW j \in DOMAIN p, Of(p[j], s), p[j].kind = "source_finished"
        PROVE  \A k \in DOMAIN p : j < k => ~Of(p[k], s)
    <3>1. j \notin DOMAIN q
      BY <1>1, <1>3, <2>3
    <3>2. PICK k \in DOMAIN ev : j = n + k
      BY <1>1, <3>1
    <3>3. k = m
      BY <1>1, <2>3, <3>2 DEF m
    <3>4. QED
      BY <1>1, <3>2, <3>3
  <2>4. QED
    BY <1>3, <2>1, <2>2, <2>3 DEF Ordered
<1>6. Final(l, p, s) <=> ev[m].kind = "source_finished"
  <2>1. ASSUME Final(l, p, s)
        PROVE  ev[m].kind = "source_finished"
    <3>1. PICK j \in DOMAIN p : Of(p[j], s) /\ p[j].kind = "source_finished"
      BY <1>3, <2>1 DEF Final
    <3>2. j \notin DOMAIN q
      BY <1>1, <1>3, <3>1
    <3>3. PICK k \in DOMAIN ev : j = n + k
      BY <1>1, <3>2
    <3>4. QED
      BY <1>1, <3>1, <3>3 DEF m
  <2>2. ASSUME ev[m].kind = "source_finished"
        PROVE  Final(l, p, s)
    <3>1. n + m \in DOMAIN p /\ p[n + m] = ev[m] /\ Of(ev[m], s)
      BY <1>1, <1>2
    <3>2. QED
      BY <2>2, <3>1 DEF Final
  <2>3. QED
    BY <2>1, <2>2
<1>7. OutOf(l, p, s)
        = OutOf(l, q, s) \cup OffersIn(ev)
  <2> DEFINE A == {p[j].offer : j \in {j \in DOMAIN p : Of(p[j], s) /\ p[j].kind = "offer"}}
             B == {q[j].offer : j \in {j \in DOMAIN q : Of(q[j], s) /\ q[j].kind = "offer"}}
             C == {ev[j].offer : j \in {j \in DOMAIN ev : ev[j].kind = "offer"}}
  <2>1. A \subseteq B \cup C
    BY <1>1
  <2>2. B \subseteq A
    <3>1. DOMAIN q \subseteq DOMAIN p
      BY <1>1
    <3>2. QED
      BY <1>1, <3>1
  <2>3. C \subseteq A
    <3> SUFFICES ASSUME NEW j \in DOMAIN ev, ev[j].kind = "offer"
                 PROVE  ev[j].offer \in A
      OBVIOUS
    <3>1. n + j \in DOMAIN p /\ p[n + j] = ev[j] /\ Of(ev[j], s)
      BY <1>1
    <3>2. QED
      BY <3>1
  <2> HIDE DEF A, B, C
  <2>4. A = B \cup C
    BY <2>1, <2>2, <2>3
  <2>5. QED
    BY <2>4 DEF OutOf, OffersIn, A, B, C
<1>8. ASSUME NEW res,
             ev[m].kind = "source_finished" =>
               ev[m].count = Len(res.offers) /\ ev[m].error = res.error
      PROVE  FinalIs(l, p, s, res)
  <2>1. ASSUME NEW j \in DOMAIN p, Of(p[j], s), p[j].kind = "source_finished"
        PROVE  p[j] = ev[m]
    <3>1. j \notin DOMAIN q
      BY <1>1, <1>3, <2>1
    <3>2. PICK k \in DOMAIN ev : j = n + k
      BY <1>1, <3>1
    <3>3. QED
      BY <1>1, <2>1, <3>2 DEF m
  <2>2. QED
    BY <1>3, <1>8, <2>1 DEF FinalIs
<1>9. QED
  BY <1>4, <1>5, <1>6, <1>7, <1>8 DEF p, m

\* What is left of the queue when its first item is taken.
LEMMA Rest ==
  ASSUME NEW q \in Seq(Event), q # <<>>
  PROVE  /\ Tail(q) \in Seq(Event) /\ Head(q) \in Event /\ Head(q) = q[1]
         /\ Len(q) \in Nat \ {0} /\ Len(Tail(q)) = Len(q) - 1
         /\ DOMAIN q = 1 .. Len(q) /\ DOMAIN Tail(q) = 1 .. Len(q) - 1 /\ 1 \in DOMAIN q
         /\ \A j \in DOMAIN Tail(q) : j + 1 \in DOMAIN q /\ Tail(q)[j] = q[j + 1]
         /\ \A j \in DOMAIN q : j # 1 => j - 1 \in DOMAIN Tail(q) /\ q[j] = Tail(q)[j - 1]
<1>1. /\ Len(q) \in Nat /\ DOMAIN q = 1 .. Len(q) /\ Len(q) # 0
  BY LenProperties, EmptySeq
<1>2. /\ Head(q) \in Event /\ Tail(q) \in Seq(Event) /\ Len(Tail(q)) = Len(q) - 1
      /\ Head(q) = q[1]
      /\ \A i \in 1 .. Len(Tail(q)) : Tail(q)[i] = q[i + 1]
  BY HeadTailProperties
<1>3. DOMAIN Tail(q) = 1 .. Len(q) - 1
  BY <1>2, LenProperties
<1>4. QED
  BY <1>1, <1>2, <1>3

\* The event is another source's, or none of a source.
LEMMA RelayOthers ==
  ASSUME NEW s, NEW l, NEW q \in Seq(Event), q # <<>>, ~Of(Head(q), s)
  PROVE  /\ Ordered(l, q, s) => Ordered(l, Tail(q), s)
         /\ Told(l, Tail(q), s) <=> Told(l, q, s)
         /\ Final(l, Tail(q), s) <=> Final(l, q, s)
         /\ OutOf(l, Tail(q), s) = OutOf(l, q, s)
         /\ \A res : FinalIs(l, q, s, res) => FinalIs(l, Tail(q), s, res)
<1> DEFINE t == Tail(q)
<1>1. /\ DOMAIN q \subseteq Nat /\ DOMAIN t \subseteq Nat
      /\ \A j \in DOMAIN t : j + 1 \in DOMAIN q /\ t[j] = q[j + 1]
      /\ \A j \in DOMAIN q : Of(q[j], s) => j - 1 \in DOMAIN t /\ q[j] = t[j - 1]
  BY Rest
<1> HIDE DEF t
<1>2. ASSUME Ordered(l, q, s)
      PROVE  Ordered(l, t, s)
  <2>1. \A i \in DOMAIN l : (l[i].kind = "source_started" <=> i = 1)
    BY <1>2 DEF Ordered
  <2>2. \A i \in DOMAIN l : l[i].kind = "source_finished" =>
          i = Len(l) /\ \A j \in DOMAIN t : ~Of(t[j], s)
    BY <1>1, <1>2 DEF Ordered
  <2>3. ASSUME NEW j \in DOMAIN t, Of(t[j], s)
        PROVE  t[j].kind = "source_started" <=>
                 l = <<>> /\ \A k \in DOMAIN t : k < j => ~Of(t[k], s)
    <3>1. j + 1 \in DOMAIN q /\ t[j] = q[j + 1]
      BY <1>1
    <3>2. (\A k \in DOMAIN q : k < j + 1 => ~Of(q[k], s))
            <=> \A k \in DOMAIN t : k < j => ~Of(t[k], s)
      <4>1. ASSUME \A k \in DOMAIN q : k < j + 1 => ~Of(q[k], s),
                   NEW k \in DOMAIN t, k < j
            PROVE  ~Of(t[k], s)
        <5>1. k + 1 \in DOMAIN q /\ k + 1 < j + 1 /\ t[k] = q[k + 1]
          BY <1>1, <4>1
        <5>2. QED
          BY <4>1, <5>1
      <4>2. ASSUME \A k \in DOMAIN t : k < j => ~Of(t[k], s),
                   NEW k \in DOMAIN q, k < j + 1
            PROVE  ~Of(q[k], s)
        <5>1. Of(q[k], s) => k - 1 \in DOMAIN t /\ k - 1 < j /\ q[k] = t[k - 1]
          BY <1>1, <4>2
        <5>2. QED
          BY <4>2, <5>1
      <4>3. QED
        BY <4>1, <4>2
    <3>3. QED
      BY <1>2, <2>3, <3>1, <3>2 DEF Ordered
  <2>4. ASSUME NEW j \in DOMAIN t, Of(t[j], s), t[j].kind = "source_finished",
               NEW k \in DOMAIN t, j < k
        PROVE  ~Of(t[k], s)
    <3>1. /\ j + 1 \in DOMAIN q /\ t[j] = q[j + 1]
          /\ k + 1 \in DOMAIN q /\ t[k] = q[k + 1] /\ j + 1 < k + 1
      BY <1>1, <2>4
    <3>2. QED
      BY <1>2, <2>4, <3>1 DEF Ordered
  <2>5. QED
    BY <2>1, <2>2, <2>3, <2>4 DEF Ordered
<1>3. Told(l, t, s) <=> Told(l, q, s)
  BY <1>1 DEF Told
<1>4. Final(l, t, s) <=> Final(l, q, s)
  BY <1>1 DEF Final
<1>5. OutOf(l, t, s) = OutOf(l, q, s)
  <2> DEFINE A == {t[j].offer : j \in {j \in DOMAIN t : Of(t[j], s) /\ t[j].kind = "offer"}}
             B == {q[j].offer : j \in {j \in DOMAIN q : Of(q[j], s) /\ q[j].kind = "offer"}}
  <2>1. A \subseteq B
    BY <1>1
  <2>2. B \subseteq A
    BY <1>1
  <2> HIDE DEF A, B
  <2>3. A = B
    BY <2>1, <2>2
  <2>4. QED
    BY <2>3 DEF OutOf, A, B
<1>6. \A res : FinalIs(l, q, s, res) => FinalIs(l, t, s, res)
  BY <1>1 DEF FinalIs
<1>7. QED
  BY <1>2, <1>3, <1>4, <1>5, <1>6 DEF t

\* It is s's own, and is yielded.
LEMMA RelayOwn ==
  ASSUME NEW s, NEW l \in Seq(Event), NEW q \in Seq(Event), q # <<>>, Of(Head(q), s),
         Ordered(l, q, s)
  PROVE  /\ Append(l, Head(q)) \in Seq(Event)
         /\ Ordered(Append(l, Head(q)), Tail(q), s)
         /\ Told(Append(l, Head(q)), Tail(q), s) /\ Told(l, q, s)
         /\ Final(Append(l, Head(q)), Tail(q), s) <=> Final(l, q, s)
         /\ OutOf(Append(l, Head(q)), Tail(q), s) = OutOf(l, q, s)
         /\ \A res : FinalIs(l, q, s, res) => FinalIs(Append(l, Head(q)), Tail(q), s, res)
<1> DEFINE t == Tail(q)
           e == Head(q)
           m == Append(l, e)
           n == Len(l)
<1>1. /\ DOMAIN q \subseteq Nat /\ DOMAIN t \subseteq Nat /\ 1 \in DOMAIN q /\ e = q[1]
      /\ \A j \in DOMAIN q : j >= 1
      /\ \A j \in DOMAIN t : j >= 1 /\ j + 1 \in DOMAIN q /\ t[j] = q[j + 1]
      /\ \A j \in DOMAIN q : j # 1 => j - 1 \in DOMAIN t /\ q[j] = t[j - 1]
  BY Rest
<1>2. e \in Event
  BY Rest
<1>3. /\ m \in Seq(Event) /\ n \in Nat /\ DOMAIN l = 1 .. n /\ Len(m) = n + 1
      /\ DOMAIN m = 1 .. n + 1 /\ m[n + 1] = e /\ \A i \in DOMAIN l : m[i] = l[i]
  BY <1>2, AppendProperties, LenProperties
<1>4. m # <<>> /\ (l = <<>> <=> n = 0)
  BY <1>3, EmptySeq
<1> HIDE DEF t, e, m, n
<1>5. Told(m, t, s) /\ Told(l, q, s)
  BY <1>1, <1>4 DEF Told, e
<1>6. e.kind = "source_started" <=> n = 0
  <2>1. \A k \in DOMAIN q : ~(k < 1)
    BY <1>1
  <2>2. QED
    BY <1>1, <1>4, <2>1 DEF Ordered, e
<1>7. e.kind = "source_finished" => \A j \in DOMAIN t : ~Of(t[j], s)
  <2>1. e.kind = "source_finished" => \A k \in DOMAIN q : 1 < k => ~Of(q[k], s)
    BY <1>1 DEF Ordered, e
  <2>2. \A j \in DOMAIN t : j + 1 \in DOMAIN q /\ 1 < j + 1 /\ t[j] = q[j + 1]
    BY <1>1
  <2>3. QED
    BY <2>1, <2>2
<1>8. \A i \in DOMAIN l : l[i].kind # "source_finished"
  BY <1>1 DEF Ordered, e
<1>9. Ordered(m, t, s)
  <2>1. \A i \in DOMAIN m : (m[i].kind = "source_started" <=> i = 1)
    BY <1>3, <1>6 DEF Ordered
  <2>2. \A i \in DOMAIN m : m[i].kind = "source_finished" =>
          i = Len(m) /\ \A j \in DOMAIN t : ~Of(t[j], s)
    BY <1>3, <1>7, <1>8
  <2>3. ASSUME NEW j \in DOMAIN t, Of(t[j], s)
        PROVE  t[j].kind # "source_started"
    <3>1. j + 1 \in DOMAIN q /\ t[j] = q[j + 1] /\ 1 < j + 1
      BY <1>1
    <3>2. Of(q[1], s)
      BY <1>1 DEF e
    <3>3. QED
      BY <1>1, <2>3, <3>1, <3>2 DEF Ordered
  <2>4. ASSUME NEW j \in DOMAIN t, Of(t[j], s), t[j].kind = "source_finished",
               NEW k \in DOMAIN t, j < k
        PROVE  ~Of(t[k], s)
    <3>1. /\ j + 1 \in DOMAIN q /\ t[j] = q[j + 1]
          /\ k + 1 \in DOMAIN q /\ t[k] = q[k + 1] /\ j + 1 < k + 1
      BY <1>1, <2>4
    <3>2. QED
      BY <2>4, <3>1 DEF Ordered
  <2>5. QED
    BY <1>4, <2>1, <2>2, <2>3, <2>4 DEF Ordered
<1>10. Final(m, t, s) <=> Final(l, q, s)
  <2>1. ASSUME Final(l, q, s)
        PROVE  Final(m, t, s)
    <3>1. PICK j \in DOMAIN q : Of(q[j], s) /\ q[j].kind = "source_finished"
      BY <1>8, <2>1 DEF Final
    <3>2. CASE j = 1
      BY <1>1, <1>3, <3>1, <3>2 DEF Final
    <3>3. CASE j # 1
      BY <1>1, <3>1, <3>3 DEF Final
    <3>4. QED
      BY <3>2, <3>3
  <2>2. ASSUME Final(m, t, s)
        PROVE  Final(l, q, s)
    <3>1. CASE \E i \in DOMAIN m : m[i].kind = "source_finished"
      <4>1. e.kind = "source_finished"
        BY <1>3, <1>8, <3>1
      <4>2. QED
        BY <1>1, <4>1 DEF Final, e
    <3>2. CASE \E j \in DOMAIN t : Of(t[j], s) /\ t[j].kind = "source_finished"
      BY <1>1, <3>2 DEF Final
    <3>3. QED
      BY <2>2, <3>1, <3>2 DEF Final
  <2>3. QED
    BY <2>1, <2>2
<1>11. OutOf(m, t, s) = OutOf(l, q, s)
  <2> DEFINE A == {m[i].offer : i \in {i \in DOMAIN m : m[i].kind = "offer"}}
             B == {t[j].offer : j \in {j \in DOMAIN t : Of(t[j], s) /\ t[j].kind = "offer"}}
             C == {l[i].offer : i \in {i \in DOMAIN l : l[i].kind = "offer"}}
             D == {q[j].offer : j \in {j \in DOMAIN q : Of(q[j], s) /\ q[j].kind = "offer"}}
  <2>1. A \subseteq C \cup D
    <3> SUFFICES ASSUME NEW i \in DOMAIN m, m[i].kind = "offer"
                 PROVE  m[i].offer \in C \cup D
      OBVIOUS
    <3>1. CASE i \in DOMAIN l
      BY <1>3, <3>1
    <3>2. CASE i = n + 1
      <4>1. m[i] = q[1] /\ Of(q[1], s)
        BY <1>1, <1>3, <3>2 DEF e
      <4>2. QED
        BY <1>1, <4>1
    <3>3. QED
      BY <1>3, <3>1, <3>2
  <2>2. B \subseteq D
    BY <1>1
  <2>3. C \subseteq A
    BY <1>3
  <2>4. D \subseteq A \cup B
    <3> SUFFICES ASSUME NEW j \in DOMAIN q, Of(q[j], s), q[j].kind = "offer"
                 PROVE  q[j].offer \in A \cup B
      OBVIOUS
    <3>1. CASE j = 1
      <4>1. n + 1 \in DOMAIN m /\ m[n + 1] = q[j]
        BY <1>1, <1>3, <3>1
      <4>2. QED
        BY <4>1
    <3>2. CASE j # 1
      BY <1>1, <3>2
    <3>3. QED
      BY <3>1, <3>2
  <2> HIDE DEF A, B, C, D
  <2>5. A \cup B = C \cup D
    BY <2>1, <2>2, <2>3, <2>4
  <2>6. QED
    BY <2>5 DEF OutOf, A, B, C, D
<1>12. ASSUME NEW res, FinalIs(l, q, s, res)
       PROVE  FinalIs(m, t, s, res)
  <2>1. \A i \in DOMAIN m : m[i].kind = "source_finished" =>
          m[i].count = Len(res.offers) /\ m[i].error = res.error
    <3>1. e.kind = "source_finished" => e.count = Len(res.offers) /\ e.error = res.error
      BY <1>1, <1>12 DEF FinalIs, e
    <3>2. QED
      BY <1>3, <1>8, <3>1
  <2>2. QED
    BY <1>1, <1>12, <2>1 DEF FinalIs
<1>13. QED
  BY <1>3, <1>5, <1>9, <1>10, <1>11, <1>12 DEF t, e, m

-----------------------------------------------------------------------------
(***************************************************************************)
(* Offers.  In a region with a adjustments (none or one) every list that   *)
(* is cached or returned holds offers 1 .. n, adjusted so and scored.      *)
(***************************************************************************)

Region == IF req.regional THEN 1 ELSE 0

Sold(k, a) == [n |-> k, adj |-> a, scored |-> TRUE]

Upto(n, a) == {Sold(k, a) : k \in 1 .. n}

Good(offers, a) ==
  offers \in Seq(Offer) /\ \A k \in DOMAIN offers : offers[k] = Sold(k, a)

LEMMA SoldIsOffer ==
  ASSUME NEW k \in Nat \ {0}, NEW a \in 0 .. 1
  PROVE  Sold(k, a) \in Offer
BY DEF Sold, Offer

LEMMA GoodNone == \A a : Good(<<>>, a)
BY DEF Good

LEMMA GoodScored ==
  ASSUME NEW offers, NEW a, Good(offers, a)
  PROVE  Map(Score, offers) = offers
<1>1. \A k \in DOMAIN offers : Score(offers[k]) = offers[k]
  BY DEF Good, Score, Sold
<1>2. offers = [k \in DOMAIN offers |-> offers[k]]
  BY DEF Good
<1>3. QED
  BY <1>1, <1>2 DEF Map

\* An offer is adjusted for the region, once, and scored.
LEMMA OnOfferSold ==
  ASSUME NEW k, req.regional \in BOOLEAN
  PROVE  OnOffer(Scraped(k)) = Sold(k, Region)
<1>1. Adjust(Scraped(k)) = [n |-> k, adj |-> Region, scored |-> FALSE]
  <2>1. CASE req.regional
    <3>1. Adjust(Scraped(k)) = [Scraped(k) EXCEPT !.adj = Scraped(k).adj + 1]
      BY <2>1 DEF Adjust
    <3>2. Scraped(k).adj = 0
      BY DEF Scraped
    <3>3. Adjust(Scraped(k)) = [[n |-> k, adj |-> 0, scored |-> FALSE] EXCEPT !.adj = 1]
      <4>1. 0 + 1 = 1
        OBVIOUS
      <4>2. QED
        BY <3>1, <3>2, <4>1, Zenon DEF Scraped
    <3>4. Region = 1
      BY <2>1 DEF Region
    <3>5. QED
      BY <3>3, <3>4
  <2>2. CASE ~req.regional
    BY <2>2 DEF Adjust, Scraped, Region
  <2>3. QED
    BY <2>1, <2>2
<1> DEFINE r == [n |-> k, adj |-> Region, scored |-> FALSE]
           T == [n : {k}, adj : {Region}, scored : BOOLEAN]
<1>2. Score(r) = Sold(k, Region)
  <2>1. r \in T
    OBVIOUS
  <2> HIDE DEF r
  <2>2. [r EXCEPT !.scored = TRUE] \in T /\ [r EXCEPT !.scored = TRUE].scored = TRUE
    BY <2>1
  <2>3. \A t \in T : t.scored = TRUE => t = Sold(k, Region)
    BY DEF Sold
  <2>4. QED
    BY <2>2, <2>3 DEF Score
<1>3. QED
  BY <1>1, <1>2 DEF OnOffer

LEMMA Finalised ==
  ASSUME NEW n \in Nat, req.regional \in BOOLEAN
  PROVE  Good(Finalise(n), Region) /\ Len(Finalise(n)) = n
<1> DEFINE f == [k \in 1 .. n |-> Sold(k, Region)]
<1>1. \A k \in 1 .. n : Score(Adjust(Scraped(k))) = Sold(k, Region)
  BY OnOfferSold DEF OnOffer
<1>2. Finalise(n) = f
  <2>1. Map(Adjust, ScrapedUpTo(n)) = [k \in 1 .. n |-> Adjust(Scraped(k))]
    BY DEF Map, ScrapedUpTo
  <2>2. Finalise(n) = [k \in 1 .. n |-> Score([i \in 1 .. n |-> Adjust(Scraped(i))][k])]
    BY <2>1 DEF Map, Finalise
  <2>3. QED
    BY <1>1, <2>2
<1>3. \A k \in 1 .. n : Sold(k, Region) \in Offer
  BY SoldIsOffer DEF Region
<1>4. f \in Seq(Offer) /\ Len(f) = n /\ DOMAIN f = 1 .. n
  BY <1>3
<1>5. QED
  BY <1>2, <1>4 DEF Good

LEMMA GoodRange ==
  ASSUME NEW offers, NEW a, Good(offers, a)
  PROVE  /\ {offers[k] : k \in DOMAIN offers} = Upto(Len(offers), a)
         /\ Len(offers) \in Nat /\ DOMAIN offers = 1 .. Len(offers)
BY LenProperties DEF Good, Upto

LEMMA UptoSize ==
  ASSUME NEW n \in Nat, NEW a
  PROVE  Cardinality(Upto(n, a)) = n
<1> DEFINE f == [k \in 1 .. n |-> Sold(k, a)]
<1>1. IsFiniteSet(1 .. n) /\ Cardinality(1 .. n) = n
  BY FS_Interval
<1>2. \A k \in 1 .. n : Sold(k, a).n = k
  BY DEF Sold
<1>3. f \in Surjection(1 .. n, Upto(n, a))
  BY DEF Upto, Surjection
<1>4. f \in Injection(1 .. n, Upto(n, a))
  <2>1. f \in [1 .. n -> Upto(n, a)]
    BY DEF Upto
  <2>2. \A j, k \in 1 .. n : f[j] = f[k] => j = k
    BY <1>2
  <2>3. QED
    BY <2>1, <2>2 DEF Injection, IsInjective
<1>5. Cardinality(Upto(n, a)) = Cardinality(1 .. n)
  BY <1>1, <1>3, <1>4, FS_Surjection
<1>6. QED
  BY <1>1, <1>5

LEMMA UptoGrows ==
  ASSUME NEW n \in Nat, NEW a
  PROVE  Upto(n, a) \cup {Sold(n + 1, a)} = Upto(n + 1, a)
BY DEF Upto

LEMMA UptoNone == \A a : Upto(0, a) = {}
BY DEF Upto

-----------------------------------------------------------------------------
(***************************************************************************)
(* The events that are put.                                                *)
(***************************************************************************)

LEMMA EventsOf ==
  ASSUME NEW s \in Sources, NEW offers \in Seq(Offer)
  PROVE  /\ OfferEvents(s, offers) \in Seq(Event)
         /\ Len(OfferEvents(s, offers)) = Len(offers)
         /\ DOMAIN OfferEvents(s, offers) = DOMAIN offers
         /\ \A k \in DOMAIN offers :
              /\ OfferEvents(s, offers)[k].kind = "offer"
              /\ OfferEvents(s, offers)[k].source = s
              /\ OfferEvents(s, offers)[k].offer = offers[k]
<1>1. Len(offers) \in Nat /\ DOMAIN offers = 1 .. Len(offers)
      /\ \A k \in DOMAIN offers : offers[k] \in Offer
  BY LenProperties
<1>2. \A k \in DOMAIN offers : OfferEvent(s, offers[k]) \in Event
  BY <1>1 DEF OfferEvent, Event
<1>3. OfferEvents(s, offers) = [k \in 1 .. Len(offers) |-> OfferEvent(s, offers[k])]
  BY <1>1 DEF OfferEvents
<1>4. QED
  BY <1>1, <1>2, <1>3 DEF OfferEvent

LEMMA FinishedIs ==
  ASSUME NEW s \in Sources, NEW res, Len(res.offers) \in Nat, res.error \in BOOLEAN,
         res.cached \in BOOLEAN
  PROVE  /\ FinishedEvent(s, res) \in Event
         /\ FinishedEvent(s, res).kind = "source_finished"
         /\ FinishedEvent(s, res).source = s
         /\ FinishedEvent(s, res).count = Len(res.offers)
         /\ FinishedEvent(s, res).error = res.error
BY DEF FinishedEvent, Event

-----------------------------------------------------------------------------
(***************************************************************************)
(* The inductive invariant.                                                *)
(***************************************************************************)

\* What source s has reported, at each place of its task.
Content(d, out, a) ==
  /\ d.pc \in {"start", "lookup", "limit"} => d.emitted = 0 /\ out = {} /\ ~d.retried
  /\ d.pc = "search" => out = Upto(d.emitted, a) /\ ~d.retried
  /\ d.pc = "retry" => d.retried
  /\ d.pc = "serve" => out = {} /\ ~d.retried /\ d.result = Failed
  /\ d.pc \in {"set", "setstale"} =>
       d.result.offers # <<>> /\ ~d.result.error /\ ~d.result.cached
  /\ d.pc \in {"set", "setstale"} /\ ~d.retried => out = Upto(Len(d.result.offers), a)
  /\ d.pc = "finished" /\ ~d.retried /\ ~d.result.error =>
       out = Upto(Len(d.result.offers), a)

Task(d, l, q, s, a) ==
  /\ d \in Drive
  /\ Good(d.result.offers, a)
  /\ Ordered(l, q, s)
  /\ d.pc = "start" => ~Told(l, q, s)
  /\ d.pc \in Active \ {"start"} => Told(l, q, s)
  /\ Final(l, q, s) <=> d.pc = "finished"
  /\ FinalIs(l, q, s, d.result)
  /\ Content(d, OutOf(l, q, s), a)

Tasks == \A s \in Sources : Task(drive[s], sent[s], queue, s, Region)

Stores == \A s \in Sources : Good(cache[s].offers, Region) /\ Good(stale[s].offers, Region)

\* Where a scrape is that swallowed its cancellation.
Left == {"serve", "finished", "raised"}

\* Who still runs when the drainer or the client has come to its end.
Flow ==
  /\ drainer = "absent" => \A s \in Sources : drive[s].pc = "start"
  /\ drainer = "absent" => client \in {"normalize", "clarify", "gone"}
  /\ client \in {"normalize", "clarify"} => drainer = "absent"
  /\ client \in {"closing", "gone"} => drainer # "gather"
  /\ drainer = "failed" => \E s \in Sources : drive[s].pc = "raised"
  /\ drainer = "done" => \A s \in Sources : drive[s].pc = "finished"
  /\ \A s \in Sources : drive[s].deaf =>
       drainer = "cancelled" /\ s = WB /\ drive[s].pc \in Left

Last == {"top_deals", "sentinel"}

\* How the ranking and the sentinel leave the queue.
Ending ==
  /\ client = "done" <=> Len(closing) = 2
  /\ drainer # "done" => closing = <<>> /\ \A j \in DOMAIN queue : queue[j].kind \notin Last
  /\ drainer = "done" =>
       \/ /\ closing = <<>>
          /\ Len(queue) >= 2
          /\ queue[Len(queue)].kind = "sentinel"
          /\ queue[Len(queue) - 1].kind = "top_deals"
          /\ \A j \in DOMAIN queue : j < Len(queue) - 1 => queue[j].kind \notin Last
       \/ closing = <<"top_deals">> /\ Len(queue) = 1 /\ queue[1].kind = "sentinel"
       \/ closing = <<"top_deals", "done">> /\ queue = <<>>

IInv == TypeOK /\ Tasks /\ Stores /\ Flow /\ Ending

-----------------------------------------------------------------------------
(***************************************************************************)
(* A task goes on, without a word or with some.                            *)
(***************************************************************************)

LEMMA NotFinal ==
  ASSUME NEW l, NEW q, NEW s, NEW res, ~Final(l, q, s)
  PROVE  FinalIs(l, q, s, res)
BY DEF Final, FinalIs

LEMMA TaskQuiet ==
  ASSUME NEW d, NEW l, NEW q, NEW s, NEW a, NEW r \in Drive,
         Task(d, l, q, s, a), d.pc \in Active, r.pc \notin {"start", "finished"},
         d.pc = "start" => r.pc \notin Active,
         Good(r.result.offers, a), Content(r, OutOf(l, q, s), a)
  PROVE  Task(r, l, q, s, a)
<1>1. ~Final(l, q, s)
  BY DEF Task, Active
<1>2. QED
  BY <1>1, NotFinal DEF Task

LEMMA TaskTells ==
  ASSUME NEW d, NEW l, NEW q \in Seq(Event), NEW s, NEW a, NEW r \in Drive,
         NEW ev \in Seq(Event), ev # <<>>,
         Task(d, l, q, s, a), d.pc \in Active, r.pc \in Active \ {"start"},
         \A j \in DOMAIN ev : Of(ev[j], s),
         \A j \in DOMAIN ev : ev[j].kind = "source_started" <=> j = 1 /\ d.pc = "start",
         \A j \in DOMAIN ev : ev[j].kind # "source_finished",
         Good(r.result.offers, a),
         Content(r, OutOf(l, q, s) \cup OffersIn(ev), a)
  PROVE  Task(r, l, q \o ev, s, a)
<1>1. ~Final(l, q, s) /\ Ordered(l, q, s) /\ (Told(l, q, s) <=> d.pc # "start")
  BY DEF Task, Active
<1>2. Len(ev) \in DOMAIN ev
  BY Joined, EmptySeq
<1>3. /\ Ordered(l, q \o ev, s) /\ Told(l, q \o ev, s) /\ ~Final(l, q \o ev, s)
      /\ OutOf(l, q \o ev, s)
           = OutOf(l, q, s) \cup OffersIn(ev)
  BY <1>1, <1>2, PutOwn
<1>4. FinalIs(l, q \o ev, s, r.result)
  BY <1>3, NotFinal
<1>5. r.pc \notin {"start", "finished"}
  BY DEF Active
<1>6. QED
  BY <1>3, <1>4, <1>5 DEF Task

\* It reports more offers, none or all that are in ev, and is finished.
LEMMA TaskEnds ==
  ASSUME NEW d, NEW l, NEW q \in Seq(Event), NEW s \in Sources, NEW a, NEW r \in Drive,
         NEW ev \in Seq(Event),
         Task(d, l, q, s, a), d.pc \in Active \ {"start"}, r.pc = "finished",
         \A j \in DOMAIN ev : Of(ev[j], s) /\ ev[j].kind = "offer",
         Good(r.result.offers, a),
         r.retried \/ r.result.error
           \/ OutOf(l, q, s) \cup {ev[j].offer : j \in DOMAIN ev} = Upto(Len(r.result.offers), a)
  PROVE  /\ ev \o <<FinishedEvent(s, r.result)>> \in Seq(Event)
         /\ \A j \in DOMAIN (ev \o <<FinishedEvent(s, r.result)>>) :
              Of((ev \o <<FinishedEvent(s, r.result)>>)[j], s)
         /\ Task(r, l, q \o (ev \o <<FinishedEvent(s, r.result)>>), s, a)
<1> DEFINE fin == FinishedEvent(s, r.result)
           all == ev \o <<fin>>
<1>1. /\ fin \in Event /\ fin.kind = "source_finished" /\ fin.source = s
      /\ fin.count = Len(r.result.offers) /\ fin.error = r.result.error
  <2>1. Len(r.result.offers) \in Nat
    BY GoodRange
  <2>2. r.result.error \in BOOLEAN /\ r.result.cached \in BOOLEAN
    BY DEF Drive, Result
  <2>3. QED
    BY <2>1, <2>2, FinishedIs
<1> HIDE DEF fin
<1>2. /\ all \in Seq(Event) /\ Len(all) = Len(ev) + 1 /\ Len(ev) \in Nat
      /\ DOMAIN all = 1 .. Len(ev) + 1 /\ DOMAIN ev = 1 .. Len(ev)
      /\ all[Len(ev) + 1] = fin
      /\ \A j \in DOMAIN ev : all[j] = ev[j]
  <2>1. <<fin>> \in Seq(Event) /\ Len(<<fin>>) = 1 /\ <<fin>>[1] = fin
    BY <1>1
  <2>2. /\ all \in Seq(Event) /\ Len(all) = Len(ev) + Len(<<fin>>)
        /\ \A i \in 1 .. Len(ev) + Len(<<fin>>) :
             all[i] = IF i <= Len(ev) THEN ev[i] ELSE <<fin>>[i - Len(ev)]
    BY <2>1, ConcatProperties
  <2>3. Len(ev) \in Nat /\ DOMAIN ev = 1 .. Len(ev) /\ DOMAIN all = 1 .. Len(all)
    BY <2>2, LenProperties
  <2>4. QED
    BY <2>1, <2>2, <2>3
<1> HIDE DEF all
<1>3. \A j \in DOMAIN all : Of(all[j], s)
  BY <1>1, <1>2 DEF Of
<1>4. \A j \in DOMAIN all : all[j].kind # "source_started"
  BY <1>1, <1>2
<1>5. \A j \in DOMAIN all : all[j].kind = "source_finished" => j = Len(all)
  BY <1>1, <1>2
<1>6. all # <<>> /\ all[Len(all)] = fin
  BY <1>2
<1>7. ~Final(l, q, s) /\ Ordered(l, q, s) /\ Told(l, q, s)
  BY DEF Task, Active
<1>8. /\ Ordered(l, q \o all, s) /\ Told(l, q \o all, s) /\ Final(l, q \o all, s)
      /\ OutOf(l, q \o all, s) = OutOf(l, q, s) \cup OffersIn(all)
      /\ FinalIs(l, q \o all, s, r.result)
  <2>1. \A j \in DOMAIN all : all[j].kind = "source_started" <=> j = 1 /\ ~Told(l, q, s)
    BY <1>4, <1>7
  <2>2. /\ Ordered(l, q \o all, s) /\ Told(l, q \o all, s)
        /\ Final(l, q \o all, s) <=> all[Len(all)].kind = "source_finished"
    BY <1>2, <1>3, <1>5, <1>6, <1>7, <2>1, PutOwn
  <2>3. OutOf(l, q \o all, s) = OutOf(l, q, s) \cup OffersIn(all)
    <3>1. all \in Seq(Event)
      BY <1>2
    <3>2. QED
      BY <1>3, <1>5, <1>6, <1>7, <2>1, <3>1, PutOwn, ZenonT(30)
  <2>5. /\ all[Len(all)].kind = "source_finished"
        /\ all[Len(all)].count = Len(r.result.offers)
        /\ all[Len(all)].error = r.result.error
    BY <1>1, <1>6
  <2>6. FinalIs(l, q \o all, s, r.result)
    BY <1>2, <1>3, <1>5, <1>6, <1>7, <2>1, <2>5, PutOwn
  <2>4. QED
    BY <2>2, <2>3, <2>5, <2>6
<1>9. OffersIn(all) = {ev[j].offer : j \in DOMAIN ev}
  <2>1. {j \in DOMAIN all : all[j].kind = "offer"} = DOMAIN ev
    BY <1>1, <1>2
  <2>2. QED
    BY <1>2, <2>1 DEF OffersIn
<1>10. Content(r, OutOf(l, q \o all, s), a)
  BY <1>8, <1>9 DEF Content
<1>11. QED
  BY <1>2, <1>3, <1>8, <1>10 DEF Task, Active, all, fin

-----------------------------------------------------------------------------
(***************************************************************************)
(* A task as a record, and what the actions make of it.                    *)
(***************************************************************************)

Pc == Active \cup {"finished", "raised", "cancelled"}

As(p, e, t, f, res) ==
  [pc |-> p, emitted |-> e, retried |-> t, deaf |-> f, result |-> res]

LEMMA DriveFields ==
  ASSUME NEW d \in Drive
  PROVE  /\ d.pc \in Pc /\ d.emitted \in Nat /\ d.retried \in BOOLEAN
         /\ d.deaf \in BOOLEAN /\ d.result \in Result
         /\ d = As(d.pc, d.emitted, d.retried, d.deaf, d.result)
BY DEF As, Drive, Pc

LEMMA AsIsDrive ==
  ASSUME NEW d \in Drive, NEW p \in Pc, NEW f \in BOOLEAN, NEW res \in Result,
         NEW r, r = As(p, d.emitted, d.retried, f, res)
  PROVE  /\ r \in Drive /\ r.pc = p /\ r.emitted = d.emitted /\ r.retried = d.retried
         /\ r.deaf = f /\ r.result = res
<1>1. d.emitted \in Nat /\ d.retried \in BOOLEAN
  BY DriveFields
<1>2. QED
  BY <1>1 DEF As, Drive, Pc

\* Goto, as an assignment of a record.
LEMMA GotoIs ==
  ASSUME NEW s \in Sources, drive \in [Sources -> Drive], NEW d, d = drive[s],
         NEW p \in Pc, Goto(s, p)
  PROVE  drive' = [drive EXCEPT ![s] = As(p, d.emitted, d.retried, d.deaf, d.result)]
<1> DEFINE x == [d EXCEPT !.pc = p]
<1>1. d \in Drive /\ "finished" \in Pc /\ "serve" \in Pc /\ "set" \in Pc /\ "retry" \in Pc
  BY DEF Pc, Active
<1>2. x \in Drive /\ x.pc = p /\ x.emitted = d.emitted /\ x.retried = d.retried
        /\ x.deaf = d.deaf /\ x.result = d.result
  BY <1>1 DEF Drive, Pc
<1>3. drive' = [drive EXCEPT ![s] = x]
  BY DEF Goto
<1> HIDE DEF x
<1>4. x = As(x.pc, x.emitted, x.retried, x.deaf, x.result)
  BY <1>2, DriveFields
<1>5. x = As(p, d.emitted, d.retried, d.deaf, d.result)
  BY <1>2, <1>4
<1>6. QED
  BY <1>3, <1>5

\* Finish.
LEMMA FinishIs ==
  ASSUME NEW s \in Sources, drive \in [Sources -> Drive], NEW d, d = drive[s],
         NEW res \in Result, NEW ev, Finish(s, res, ev)
  PROVE  /\ drive' = [drive EXCEPT ![s] = As("finished", d.emitted, d.retried, d.deaf, res)]
         /\ queue' = queue \o (ev \o <<FinishedEvent(s, res)>>)
<1> DEFINE x == [d EXCEPT !.pc = "finished", !.result = res]
<1>1. d \in Drive /\ "finished" \in Pc /\ "serve" \in Pc /\ "set" \in Pc /\ "retry" \in Pc
  BY DEF Pc, Active
<1>2. x \in Drive /\ x.pc = "finished" /\ x.emitted = d.emitted /\ x.retried = d.retried
        /\ x.deaf = d.deaf /\ x.result = res
  BY <1>1 DEF Drive, Pc
<1>3. drive' = [drive EXCEPT ![s] = x]
  BY DEF Finish
<1> HIDE DEF x
<1>4. x = As(x.pc, x.emitted, x.retried, x.deaf, x.result)
  BY <1>2, DriveFields
<1>5. x = As("finished", d.emitted, d.retried, d.deaf, res)
  BY <1>2, <1>4
<1>6. QED
  BY <1>3, <1>5 DEF Finish, Put

\* Settle, where it does not finish.
LEMMA SettleIs ==
  ASSUME NEW s \in Sources, drive \in [Sources -> Drive], NEW d, d = drive[s],
         NEW res \in Result, Settle(s, res), ~Finish(s, res, <<>>),
         NEW p, p = IF res.error THEN "serve" ELSE "set",
         NEW f, f = (drainer = "cancelled")
  PROVE  /\ drive' = [drive EXCEPT ![s] = As(p, d.emitted, d.retried, f, res)]
         /\ UNCHANGED queue
         /\ res.error => s = WB
         /\ ~res.error => res.offers # <<>>
<1> DEFINE x == [d EXCEPT !.pc = p, !.deaf = f, !.result = res]
<1>1. d \in Drive /\ "finished" \in Pc /\ "serve" \in Pc /\ "set" \in Pc /\ "retry" \in Pc
  BY DEF Pc, Active
<1>2. x \in Drive /\ x.pc = p /\ x.emitted = d.emitted /\ x.retried = d.retried
        /\ x.deaf = f /\ x.result = res
  BY <1>1 DEF Drive, Pc
<1>3. drive' = [drive EXCEPT ![s] = x] /\ UNCHANGED queue
        /\ (res.error => s = WB) /\ (~res.error => res.offers # <<>>)
  BY DEF Settle
<1> HIDE DEF x
<1>4. x = As(x.pc, x.emitted, x.retried, x.deaf, x.result)
  BY <1>2, DriveFields
<1>5. x = As(p, d.emitted, d.retried, f, res)
  BY <1>2, <1>4
<1>6. QED
  BY <1>3, <1>5

\* The empty answer is searched again.
LEMMA RetryIs ==
  ASSUME NEW s \in Sources, drive \in [Sources -> Drive], NEW d, d = drive[s],
         drive' = [drive EXCEPT ![s].pc = "retry", ![s].retried = TRUE]
  PROVE  drive' = [drive EXCEPT ![s] = As("retry", d.emitted, TRUE, d.deaf, d.result)]
<1> DEFINE x == [d EXCEPT !.pc = "retry", !.retried = TRUE]
<1>1. d \in Drive /\ "finished" \in Pc /\ "serve" \in Pc /\ "set" \in Pc /\ "retry" \in Pc
  BY DEF Pc, Active
<1>2. x \in Drive /\ x.pc = "retry" /\ x.emitted = d.emitted /\ x.retried = TRUE
        /\ x.deaf = d.deaf /\ x.result = d.result
  BY <1>1 DEF Drive, Pc
<1>3. drive' = [drive EXCEPT ![s] = x]
  OBVIOUS
<1> HIDE DEF x
<1>4. x = As(x.pc, x.emitted, x.retried, x.deaf, x.result)
  BY <1>2, DriveFields
<1>5. x = As("retry", d.emitted, TRUE, d.deaf, d.result)
  BY <1>2, <1>4
<1>6. QED
  BY <1>3, <1>5

\* An offer is reported.
LEMMA EmitIs ==
  ASSUME NEW s \in Sources, drive \in [Sources -> Drive], NEW d, d = drive[s],
         drive' = [drive EXCEPT ![s].emitted = @ + 1]
  PROVE  drive' = [drive EXCEPT ![s] = As(d.pc, d.emitted + 1, d.retried, d.deaf, d.result)]
<1> DEFINE x == [d EXCEPT !.emitted = d.emitted + 1]
<1>1. d \in Drive /\ "finished" \in Pc /\ "serve" \in Pc /\ "set" \in Pc /\ "retry" \in Pc
  BY DEF Pc, Active
<1>2. x \in Drive /\ x.pc = d.pc /\ x.emitted = d.emitted + 1 /\ x.retried = d.retried
        /\ x.deaf = d.deaf /\ x.result = d.result
  BY <1>1 DEF Drive, Pc
<1>3. drive' = [drive EXCEPT ![s] = x]
  OBVIOUS
<1> HIDE DEF x
<1>4. x = As(x.pc, x.emitted, x.retried, x.deaf, x.result)
  BY <1>2, DriveFields
<1>5. x = As(d.pc, d.emitted + 1, d.retried, d.deaf, d.result)
  BY <1>2, <1>4
<1>6. QED
  BY <1>3, <1>5

-----------------------------------------------------------------------------
(***************************************************************************)
(* A step of one task keeps the invariant.                                 *)
(***************************************************************************)

\* Where the drainer is while a task takes a step.
Live == {"gather", "failed", "cancelled"}

StoresKept ==
  /\ cache' \in [Sources -> Entry] /\ stale' \in [Sources -> Entry]
  /\ \A t \in Sources : Good(cache'[t].offers, Region) /\ Good(stale'[t].offers, Region)

LEMMA StoresSame ==
  ASSUME IInv, UNCHANGED redisVars
  PROVE  StoresKept
BY DEF IInv, TypeOK, Stores, StoresKept, redisVars

\* Only WB's ever does, and it looks for the stale copy then.
LEMMA DeafServes ==
  ASSUME IInv, NEW s \in Sources, drive[s].pc \in Active, drive[s].deaf
  PROVE  drainer = "cancelled" /\ s = WB /\ drive[s].pc = "serve"
BY DEF IInv, Flow, Left, Active

\* A task that runs elsewhere was not cancelled.
LEMMA Uncancelled ==
  ASSUME IInv, NEW s \in Sources, NEW pc \in Active \ {"serve"}, Runs(s, pc)
  PROVE  drainer # "cancelled" /\ ~drive[s].deaf
BY DeafServes DEF Runs

LEMMA Move ==
  ASSUME IInv, NEW s \in Sources, NEW r, NEW ev \in Seq(Event),
         drive[s].pc \in Active, drainer \in Live,
         Task(r, sent[s], queue \o ev, s, Region),
         \A j \in DOMAIN ev : Of(ev[j], s),
         r.deaf => drainer = "cancelled" /\ s = WB /\ r.pc \in Left,
         drive' = [drive EXCEPT ![s] = r], queue' = queue \o ev,
         UNCHANGED <<req, outVars>>, StoresKept,
         \/ drainer' = drainer
         \/ drainer = "gather" /\ drainer' = "failed" /\ r.pc = "raised"
  PROVE  IInv'
<1>1. /\ TypeOK /\ queue \in Seq(Event) /\ drive \in [Sources -> Drive]
      /\ r \in Drive /\ drainer' \in Live
  <2>1. TypeOK /\ queue \in Seq(Event) /\ drive \in [Sources -> Drive]
    BY DEF IInv, TypeOK
  <2>2. r \in Drive
    BY DEF Task
  <2>3. drainer' \in Live
    BY DEF Live
  <2>4. QED
    BY <2>1, <2>2, <2>3
<1>2. Region' = Region
  BY DEF Region
<1>3. TypeOK'
  <2>1. queue' \in Seq(Event)
    BY <1>1, Joined
  <2>2. drive' \in [Sources -> Drive]
    BY <1>1
  <2>3. drainer' \in {"absent", "gather", "done", "failed", "cancelled"}
    BY <1>1 DEF Live
  <2>4. QED
    BY <1>1, <2>1, <2>2, <2>3 DEF TypeOK, outVars, StoresKept
<1>4. Tasks'
  <2>1. ASSUME NEW t \in Sources
        PROVE  Task(drive'[t], sent'[t], queue', t, Region)
    <3>1. CASE t = s
      <4>1. drive'[t] = r /\ sent'[t] = sent[s]
        BY <1>1, <3>1 DEF outVars
      <4>2. QED
        BY <3>1, <4>1
    <3>2. CASE t # s
      <4>1. drive'[t] = drive[t] /\ sent'[t] = sent[t]
        BY <1>1, <3>2 DEF outVars
      <4>2. \A j \in DOMAIN ev : ~Of(ev[j], t)
        BY <3>2 DEF Of
      <4>3. Task(drive[t], sent[t], queue, t, Region)
        BY DEF IInv, Tasks
      <4>4. Task(drive[t], sent[t], queue \o ev, t, Region)
        <5> DEFINE d == drive[t]
                   l == sent[t]
        <5> HIDE DEF d, l
        <5>1. Task(d, l, queue, t, Region)
          BY <4>3 DEF d, l
        <5>2. /\ Ordered(l, queue, t) => Ordered(l, queue \o ev, t)
              /\ Told(l, queue \o ev, t) <=> Told(l, queue, t)
              /\ Final(l, queue \o ev, t) <=> Final(l, queue, t)
              /\ OutOf(l, queue \o ev, t) = OutOf(l, queue, t)
              /\ FinalIs(l, queue, t, d.result) => FinalIs(l, queue \o ev, t, d.result)
          BY <1>1, <4>2, PutOthers
        <5>3. Task(d, l, queue \o ev, t, Region)
          BY <5>1, <5>2 DEF Task
        <5>4. QED
          BY <5>3 DEF d, l
      <4>5. QED
        BY <4>1, <4>4
    <3>3. QED
      BY <3>1, <3>2
  <2>2. QED
    BY <1>2, <2>1 DEF Tasks
<1>5. Stores'
  BY <1>2 DEF Stores, StoresKept
<1>6. Flow'
  <2>1. \A t \in Sources : drive'[t] = IF t = s THEN r ELSE drive[t]
    BY <1>1
  <2>2. drainer' \notin {"absent", "done"} /\ drainer \notin {"absent", "done"}
    BY <1>1 DEF Live
  <2>3. client' \notin {"normalize", "clarify"} /\ client' = client
    BY <2>2 DEF IInv, Flow, outVars
  <2>4. client' \in {"closing", "gone"} => drainer' # "gather"
    BY <2>3 DEF IInv, Flow
  <2>6. drainer' = "failed" => \E t \in Sources : drive'[t].pc = "raised"
    <3>1. CASE drainer = "failed"
      <4>1. PICK t \in Sources : drive[t].pc = "raised"
        BY <3>1 DEF IInv, Flow
      <4>2. t # s
        BY <4>1 DEF Active
      <4>3. QED
        BY <2>1, <4>1, <4>2
    <3>2. CASE drainer # "failed" /\ drainer' = "failed"
      BY <2>1, <3>2
    <3>3. QED
      BY <3>1, <3>2
  <2>7. \A t \in Sources : drive'[t].deaf =>
          drainer' = "cancelled" /\ t = WB /\ drive'[t].pc \in Left
    <3>1. \A t \in Sources : drive[t].deaf =>
            drainer = "cancelled" /\ t = WB /\ drive[t].pc \in Left
      BY DEF IInv, Flow
    <3>2. \A t \in Sources : drive'[t].deaf =>
            drainer = "cancelled" /\ t = WB /\ drive'[t].pc \in Left
      BY <2>1, <3>1
    <3>3. QED
      BY <3>2
  <2>8. QED
    BY <2>2, <2>3, <2>4, <2>6, <2>7 DEF Flow
<1>7. Ending'
  <2>1. drainer # "done" /\ drainer' # "done"
    BY <1>1 DEF Live
  <2>2. /\ closing = <<>> /\ (client = "done" <=> Len(closing) = 2)
        /\ \A j \in DOMAIN queue : queue[j].kind \notin Last
    BY <2>1 DEF IInv, Ending
  <2>3. \A j \in DOMAIN ev : ev[j].kind \notin Last
    BY DEF Of, Last
  <2>4. \A j \in DOMAIN queue' : queue'[j].kind \notin Last
    BY <1>1, <2>2, <2>3, Joined
  <2>5. QED
    BY <2>1, <2>2, <2>4 DEF Ending, outVars
<1>8. QED
  BY <1>3, <1>4, <1>5, <1>6, <1>7 DEF IInv

\* The task goes on at p, or is cancelled or raises, and puts nothing.
LEMMA GoesOn ==
  ASSUME IInv, NEW s \in Sources, NEW d, d = drive[s], d.pc \in Active, drainer \in Live,
         NEW p \in Pc, Goto(s, p), p \notin {"start", "finished"},
         d.pc = "start" => p \notin Active,
         d.deaf => p \in Left,
         UNCHANGED <<req, queue, outVars>>, StoresKept,
         \/ drainer' = drainer
         \/ drainer = "gather" /\ drainer' = "failed" /\ p = "raised",
         Content(As(p, d.emitted, d.retried, d.deaf, d.result),
                 OutOf(sent[s], queue, s), Region)
  PROVE  IInv'
<1> DEFINE r == As(p, d.emitted, d.retried, d.deaf, d.result)
<1>1. /\ drive \in [Sources -> Drive] /\ queue \in Seq(Event) /\ d \in Drive
      /\ Task(d, sent[s], queue, s, Region)
  BY DEF IInv, TypeOK, Tasks
<1>2. drive' = [drive EXCEPT ![s] = r]
  BY <1>1, GotoIs
<1>3. r \in Drive /\ r.pc = p /\ r.deaf = d.deaf /\ r.result = d.result
  <2> HIDE DEF r
  <2>1. d.deaf \in BOOLEAN /\ d.result \in Result
    BY <1>1, DriveFields
  <2>2. r = As(p, d.emitted, d.retried, d.deaf, d.result)
    BY DEF r
  <2>3. QED
    BY <1>1, <2>1, <2>2, AsIsDrive
<1>4. Content(r, OutOf(sent[s], queue, s), Region)
  OBVIOUS
<1> HIDE DEF r
<1>5. Good(r.result.offers, Region)
  BY <1>1, <1>3 DEF Task
<1>6. Task(r, sent[s], queue, s, Region)
  BY <1>1, <1>3, <1>4, <1>5, TaskQuiet
<1>7. queue = queue \o <<>> /\ <<>> \in Seq(Event)
  BY <1>1
<1>8. Task(r, sent[s], queue \o <<>>, s, Region) /\ queue' = queue \o <<>>
  BY <1>6, <1>7
<1>9. \A j \in DOMAIN <<>> : Of(<<>>[j], s)
  OBVIOUS
<1>10. /\ drive[s].pc \in Active
       /\ r.deaf => drainer = "cancelled" /\ s = WB /\ r.pc \in Left
       /\ \/ drainer' = drainer
          \/ drainer = "gather" /\ drainer' = "failed" /\ r.pc = "raised"
  BY <1>3, DeafServes
<1>11. QED
  BY <1>2, <1>7, <1>8, <1>9, <1>10, Move

\* The task is finished with res, having reported the offers of ev.
LEMMA Ends ==
  ASSUME IInv, NEW s \in Sources, NEW d, d = drive[s], d.pc \in Active \ {"start"},
         drainer \in Live, NEW res \in Result, NEW ev \in Seq(Event), Finish(s, res, ev),
         \A j \in DOMAIN ev : Of(ev[j], s) /\ ev[j].kind = "offer",
         UNCHANGED <<req, drainer, outVars>>, StoresKept,
         Good(res.offers, Region),
         d.retried \/ res.error
           \/ OutOf(sent[s], queue, s) \cup {ev[j].offer : j \in DOMAIN ev}
                = Upto(Len(res.offers), Region)
  PROVE  IInv'
<1> DEFINE r == As("finished", d.emitted, d.retried, d.deaf, res)
           all == ev \o <<FinishedEvent(s, res)>>
<1>1. /\ drive \in [Sources -> Drive] /\ queue \in Seq(Event) /\ d \in Drive
      /\ Task(d, sent[s], queue, s, Region)
  BY DEF IInv, TypeOK, Tasks
<1>2. drive' = [drive EXCEPT ![s] = r] /\ queue' = queue \o all
  BY <1>1, FinishIs
<1>3. r \in Drive /\ r.pc = "finished" /\ r.deaf = d.deaf /\ r.retried = d.retried
      /\ r.result = res
  <2>1. "finished" \in Pc
    BY DEF Pc
  <2> HIDE DEF r
  <2>2. d.deaf \in BOOLEAN /\ r = As("finished", d.emitted, d.retried, d.deaf, res)
    BY <1>1, DriveFields DEF r
  <2>3. QED
    BY <1>1, <2>1, <2>2, AsIsDrive
<1> HIDE DEF r
<1>4. /\ all \in Seq(Event) /\ \A j \in DOMAIN all : Of(all[j], s)
      /\ Task(r, sent[s], queue \o all, s, Region)
  <2> DEFINE l == sent[s]
  <2>1. Task(d, l, queue, s, Region)
    BY <1>1
  <2>2. r.retried \/ r.result.error
          \/ OutOf(l, queue, s) \cup {ev[j].offer : j \in DOMAIN ev}
               = Upto(Len(r.result.offers), Region)
    BY <1>3
  <2>3. Good(r.result.offers, Region)
    BY <1>3
  <2> HIDE DEF l
  <2>4. /\ ev \o <<FinishedEvent(s, r.result)>> \in Seq(Event)
        /\ \A j \in DOMAIN (ev \o <<FinishedEvent(s, r.result)>>) :
             Of((ev \o <<FinishedEvent(s, r.result)>>)[j], s)
        /\ Task(r, l, queue \o (ev \o <<FinishedEvent(s, r.result)>>), s, Region)
    BY <1>1, <1>3, <2>1, <2>2, <2>3, TaskEnds
  <2>5. QED
    BY <1>3, <2>4 DEF l
<1> HIDE DEF all
<1>5. /\ d.pc \in Active
      /\ r.deaf => drainer = "cancelled" /\ s = WB /\ r.pc \in Left
  BY <1>3, DeafServes DEF Left
<1>6. QED
  BY <1>2, <1>3, <1>4, <1>5, Move

\* The result of the fetch is settled.
LEMMA Settles ==
  ASSUME IInv, NEW s \in Sources, NEW d, d = drive[s], d.pc \in {"search", "retry"},
         drainer \in Live, NEW res \in Result, Settle(s, res),
         UNCHANGED <<req, redisVars, drainer, outVars>>,
         Good(res.offers, Region), ~res.cached,
         res.error => res = Failed,
         res.error /\ s = WB => d.pc = "search" /\ d.emitted = 0,
         drainer = "cancelled" => s = WB /\ (res.error \/ res.offers = <<>>),
         d.retried \/ res.error \/ OutOf(sent[s], queue, s) = Upto(Len(res.offers), Region)
  PROVE  IInv'
<1>1. /\ drive \in [Sources -> Drive] /\ queue \in Seq(Event) /\ d \in Drive
      /\ Task(d, sent[s], queue, s, Region) /\ d.pc \in Active \ {"start"}
  BY DEF IInv, TypeOK, Tasks, Active
<1>2. StoresKept
  BY StoresSame
<1>3. CASE Finish(s, res, <<>>)
  <2>1. <<>> \in Seq(Event) /\ \A j \in DOMAIN <<>> : FALSE
    OBVIOUS
  <2>2. OutOf(sent[s], queue, s) \cup {<<>>[j].offer : j \in DOMAIN <<>>}
          = OutOf(sent[s], queue, s)
    BY <2>1
  <2>3. QED
    BY <1>1, <1>2, <1>3, <2>1, <2>2, Ends
<1>4. CASE ~Finish(s, res, <<>>)
  <2> DEFINE p == IF res.error THEN "serve" ELSE "set"
             f == (drainer = "cancelled")
             r == As(p, d.emitted, d.retried, f, res)
  <2>1. /\ drive' = [drive EXCEPT ![s] = r] /\ UNCHANGED queue
        /\ res.error => s = WB
        /\ ~res.error => res.offers # <<>>
    BY <1>1, <1>4, SettleIs
  <2>2. /\ r \in Drive /\ r.pc = p /\ r.emitted = d.emitted /\ r.retried = d.retried
        /\ r.deaf = f /\ r.result = res
    <3>1. p \in Pc /\ f \in BOOLEAN
      BY DEF Pc, Active
    <3> HIDE DEF p, f, r
    <3>2. r = As(p, d.emitted, d.retried, f, res)
      BY DEF r
    <3>3. QED
      BY <1>1, <3>1, <3>2, AsIsDrive
  <2> HIDE DEF r
  <2>3. Content(r, OutOf(sent[s], queue, s), Region)
    <3>1. CASE res.error
      <4>1. OutOf(sent[s], queue, s) = Upto(0, Region) /\ ~d.retried
        BY <1>1, <2>1, <3>1 DEF Task, Content
      <4>2. QED
        BY <2>2, <3>1, <4>1, UptoNone DEF Content
    <3>2. CASE ~res.error
      BY <2>1, <2>2, <3>2 DEF Content
    <3>3. QED
      BY <3>1, <3>2
  <2>4. p \in Active \ {"start"} /\ p # "finished"
    BY DEF Active
  <2>5. Task(r, sent[s], queue, s, Region)
    <3>1. r.pc \notin {"start", "finished"} /\ Good(r.result.offers, Region)
      BY <2>2, <2>4
    <3>2. d.pc \in Active /\ d.pc # "start"
      BY <1>1
    <3>3. QED
      BY <1>1, <2>2, <2>3, <3>1, <3>2, TaskQuiet
  <2>6. queue = queue \o <<>> /\ <<>> \in Seq(Event)
    BY <1>1
  <2>7. Task(r, sent[s], queue \o <<>>, s, Region) /\ queue' = queue \o <<>>
    BY <2>1, <2>5, <2>6
  <2>8. /\ drive[s].pc \in Active
        /\ r.deaf => drainer = "cancelled" /\ s = WB /\ r.pc \in Left
        /\ UNCHANGED <<req, outVars>> /\ drainer' = drainer
    BY <1>1, <2>1, <2>2 DEF Left
  <2>9. \A j \in DOMAIN <<>> : Of(<<>>[j], s)
    OBVIOUS
  <2>10. QED
    BY <1>2, <2>1, <2>6, <2>7, <2>8, <2>9, Move
<1>5. QED
  BY <1>3, <1>4

-----------------------------------------------------------------------------
(***************************************************************************)
(* The actions of a task, one by one.                                      *)
(***************************************************************************)

LEMMA Running ==
  ASSUME IInv, NEW s \in Sources, NEW pc, Runs(s, pc) \/ Swallows(s, pc)
  PROVE  drainer \in Live /\ drive[s].pc = pc
BY DEF IInv, Flow, Runs, Swallows, Live

LEMMA Known ==
  ASSUME IInv, NEW s \in Sources
  PROVE  /\ drive \in [Sources -> Drive] /\ drive[s] \in Drive /\ queue \in Seq(Event)
         /\ Task(drive[s], sent[s], queue, s, Region)
         /\ Content(drive[s], OutOf(sent[s], queue, s), Region)
         /\ Good(drive[s].result.offers, Region) /\ drive[s].result \in Result
         /\ cache[s] \in Entry /\ Good(cache[s].offers, Region)
         /\ stale[s] \in Entry /\ Good(stale[s].offers, Region)
         /\ Region \in 0 .. 1 /\ req.regional \in BOOLEAN
<1>1. /\ drive \in [Sources -> Drive] /\ drive[s] \in Drive /\ queue \in Seq(Event)
      /\ cache[s] \in Entry /\ stale[s] \in Entry /\ req.regional \in BOOLEAN
  BY DEF IInv, TypeOK
<1>2. Task(drive[s], sent[s], queue, s, Region)
  BY DEF IInv, Tasks
<1>3. /\ Content(drive[s], OutOf(sent[s], queue, s), Region)
      /\ Good(drive[s].result.offers, Region)
  BY <1>2 DEF Task
<1>4. Good(cache[s].offers, Region) /\ Good(stale[s].offers, Region)
  BY DEF IInv, Stores
<1>5. drive[s].result \in Result /\ Region \in 0 .. 1
  BY <1>1, DriveFields DEF Region
<1>6. QED
  BY <1>1, <1>2, <1>3, <1>4, <1>5

\* A list of offers that is emitted as it is.
LEMMA Emitted ==
  ASSUME NEW s \in Sources, NEW offers, NEW a, Good(offers, a)
  PROVE  /\ OfferEvents(s, offers) \in Seq(Event)
         /\ \A j \in DOMAIN OfferEvents(s, offers) :
              Of(OfferEvents(s, offers)[j], s) /\ OfferEvents(s, offers)[j].kind = "offer"
         /\ {OfferEvents(s, offers)[j].offer : j \in DOMAIN OfferEvents(s, offers)}
              = Upto(Len(offers), a)
<1> DEFINE ev == OfferEvents(s, offers)
<1>1. /\ ev \in Seq(Event) /\ DOMAIN ev = DOMAIN offers
      /\ \A k \in DOMAIN offers :
           ev[k].kind = "offer" /\ ev[k].source = s /\ ev[k].offer = offers[k]
  BY EventsOf DEF Good
<1> HIDE DEF ev
<1>2. {ev[j].offer : j \in DOMAIN ev} = {offers[k] : k \in DOMAIN offers}
  BY <1>1
<1>3. {offers[k] : k \in DOMAIN offers} = Upto(Len(offers), a)
  BY GoodRange
<1>4. \A j \in DOMAIN ev : Of(ev[j], s) /\ ev[j].kind = "offer"
  BY <1>1 DEF Of
<1>5. QED
  BY <1>1, <1>2, <1>3, <1>4 DEF ev

LEMMA Nothing ==
  ASSUME NEW s
  PROVE  /\ <<>> \in Seq(Event)
         /\ \A j \in DOMAIN <<>> : Of(<<>>[j], s) /\ <<>>[j].kind = "offer"
         /\ {<<>>[j].offer : j \in DOMAIN <<>>} = {}
<1>1. DOMAIN <<>> = {}
  OBVIOUS
<1>2. QED
  BY <1>1

LEMMA StartKeeps ==
  ASSUME IInv, NEW s \in Sources, Start(s)
  PROVE  IInv'
<1> DEFINE d == drive[s]
           p == IF req.cache THEN "lookup" ELSE "limit"
           r == As(p, d.emitted, d.retried, d.deaf, d.result)
           e == [kind |-> "source_started", source |-> s]
           ev == <<e>>
<1>1. drainer \in Live /\ d.pc = "start"
  BY Running DEF Start
<1>2. /\ drive \in [Sources -> Drive] /\ d \in Drive /\ queue \in Seq(Event)
      /\ Task(d, sent[s], queue, s, Region)
      /\ Content(d, OutOf(sent[s], queue, s), Region)
      /\ Good(d.result.offers, Region)
  BY Known
<1>3. d.pc \in Active /\ p \in Active \ {"start"} /\ p \in Pc /\ p \in {"lookup", "limit"}
  BY <1>1 DEF Active, Pc
<1>4. drive' = [drive EXCEPT ![s] = r]
  BY <1>2, <1>3, GotoIs DEF Start
<1>5. /\ r \in Drive /\ r.pc = p /\ r.emitted = d.emitted /\ r.retried = d.retried
      /\ r.deaf = d.deaf /\ r.result = d.result
  <2> HIDE DEF r
  <2>1. d.deaf \in BOOLEAN /\ d.result \in Result
        /\ r = As(p, d.emitted, d.retried, d.deaf, d.result)
    BY <1>2, DriveFields DEF r
  <2>2. QED
    BY <1>2, <1>3, <2>1, AsIsDrive
<1> HIDE DEF r
<1>6. e \in Event /\ e.kind = "source_started" /\ e.source = s
  BY DEF Event
<1> HIDE DEF e
<1>7. /\ ev \in Seq(Event) /\ ev # <<>> /\ DOMAIN ev = {1} /\ ev[1] = e
  BY <1>6
<1> HIDE DEF ev
<1>8. /\ \A j \in DOMAIN ev : Of(ev[j], s)
      /\ \A j \in DOMAIN ev : ev[j].kind = "source_started" <=> j = 1 /\ d.pc = "start"
      /\ \A j \in DOMAIN ev : ev[j].kind # "source_finished"
      /\ OffersIn(ev) = {}
  BY <1>1, <1>6, <1>7 DEF Of, OffersIn
<1>9. Content(r, OutOf(sent[s], queue, s) \cup OffersIn(ev), Region)
  <2>1. /\ d.emitted = 0 /\ OutOf(sent[s], queue, s) = {} /\ ~d.retried
    BY <1>1, <1>2 DEF Content
  <2>2. QED
    BY <1>3, <1>5, <1>8, <2>1 DEF Content
<1>10. Good(r.result.offers, Region)
  BY <1>2, <1>5
<1> HIDE DEF d
<1>11. Task(r, sent[s], queue \o ev, s, Region)
  BY <1>2, <1>3, <1>5, <1>7, <1>8, <1>9, <1>10, TaskTells
<1>12. /\ queue' = queue \o ev /\ UNCHANGED <<req, redisVars, drainer, outVars>>
  BY DEF Start, Put, ev, e
<1>13. StoresKept
  BY <1>12, StoresSame
<1>14. /\ drive[s].pc \in Active /\ ~r.deaf
       /\ UNCHANGED <<req, outVars>> /\ drainer' = drainer
  BY <1>1, <1>3, <1>5, <1>12, DeafServes DEF d
<1>15. QED
  BY <1>1, <1>4, <1>7, <1>8, <1>11, <1>12, <1>13, <1>14, Move

LEMMA EmitsKeeps ==
  ASSUME IInv, NEW s \in Sources, AdapterEmits(s)
  PROVE  IInv'
<1> DEFINE d == drive[s]
           n == d.emitted
           r == As(d.pc, n + 1, d.retried, d.deaf, d.result)
<1>1. PICK pc \in {"search", "retry"} :
        /\ Runs(s, pc)
        /\ Put(<<OfferEvent(s, IF pc = "search" THEN OnOffer(Scraped(n + 1))
                               ELSE OnOfferOfRetry(Scraped(n + 1)))>>)
  BY DEF AdapterEmits
<1> DEFINE o == IF pc = "search" THEN OnOffer(Scraped(n + 1)) ELSE OnOfferOfRetry(Scraped(n + 1))
           e == OfferEvent(s, o)
           ev == <<e>>
<1>2. drainer \in Live /\ d.pc = pc
  BY <1>1, Running
<1>3. /\ drive \in [Sources -> Drive] /\ d \in Drive /\ queue \in Seq(Event)
      /\ Task(d, sent[s], queue, s, Region)
      /\ Content(d, OutOf(sent[s], queue, s), Region)
      /\ Good(d.result.offers, Region)
      /\ Region \in 0 .. 1 /\ req.regional \in BOOLEAN
  BY Known
<1>4. d.pc \in Active \ {"start"} /\ n \in Nat
  BY <1>2, <1>3, DriveFields DEF Active
<1>5. drive' = [drive EXCEPT ![s] = r]
  BY <1>3, EmitIs DEF AdapterEmits
<1>6. /\ r \in Drive /\ r.pc = d.pc /\ r.emitted = n + 1 /\ r.retried = d.retried
      /\ r.deaf = d.deaf /\ r.result = d.result
  <2>1. d.pc \in Pc /\ d.retried \in BOOLEAN /\ d.deaf \in BOOLEAN /\ d.result \in Result
        /\ n + 1 \in Nat
    BY <1>3, <1>4, DriveFields
  <2> HIDE DEF d, n
  <2>2. QED
    BY <2>1 DEF As, Drive, Pc
<1> HIDE DEF r
<1>7. pc = "search" => o = Sold(n + 1, Region)
  BY <1>3, OnOfferSold
<1>8. o \in Offer
  <2>1. CASE pc = "search"
    <3>1. n + 1 \in Nat \ {0}
      BY <1>4
    <3>2. Sold(n + 1, Region) \in Offer
      BY <1>3, <3>1, SoldIsOffer
    <3>3. QED
      BY <1>7, <2>1, <3>2
  <2>2. CASE pc = "retry"
    <3>1. n + 1 \in Nat \ {0}
      BY <1>4
    <3> HIDE DEF n
    <3>2. Scraped(n + 1) \in Offer
      BY <3>1 DEF Scraped, Offer
    <3>3. [Scraped(n + 1) EXCEPT !.scored = TRUE] \in Offer
      BY <3>2 DEF Offer
    <3>4. o = [Scraped(n + 1) EXCEPT !.scored = TRUE]
      BY <2>2 DEF OnOfferOfRetry, Score
    <3>5. QED
      BY <3>3, <3>4
  <2>3. QED
    BY <2>1, <2>2
<1> HIDE DEF o
<1>9. e \in Event /\ e.kind = "offer" /\ e.source = s /\ e.offer = o
  BY <1>8 DEF Event, OfferEvent
<1> HIDE DEF e
<1>10. /\ ev \in Seq(Event) /\ ev # <<>> /\ DOMAIN ev = {1} /\ ev[1] = e
  BY <1>9
<1> HIDE DEF ev
<1>11. /\ \A j \in DOMAIN ev : Of(ev[j], s)
       /\ \A j \in DOMAIN ev : ev[j].kind = "source_started" <=> j = 1 /\ d.pc = "start"
       /\ \A j \in DOMAIN ev : ev[j].kind # "source_finished"
  BY <1>4, <1>9, <1>10 DEF Of
<1>12. OffersIn(ev) = {o}
  <2>1. {j \in DOMAIN ev : ev[j].kind = "offer"} = {1}
    BY <1>9, <1>10
  <2>2. QED
    BY <1>9, <1>10, <2>1 DEF OffersIn
<1>13. Content(r, OutOf(sent[s], queue, s) \cup OffersIn(ev), Region)
  <2>1. CASE pc = "search"
    <3>1. OutOf(sent[s], queue, s) = Upto(n, Region) /\ ~d.retried
      BY <1>2, <1>3, <2>1 DEF Content
    <3>2. OutOf(sent[s], queue, s) \cup OffersIn(ev) = Upto(n + 1, Region)
      <4>1. Upto(n, Region) \cup {Sold(n + 1, Region)} = Upto(n + 1, Region)
        BY <1>4, UptoGrows
      <4>2. QED
        BY <1>7, <1>12, <2>1, <3>1, <4>1
    <3>3. QED
      BY <1>2, <1>6, <2>1, <3>1, <3>2 DEF Content
  <2>2. CASE pc = "retry"
    <3>1. d.retried
      BY <1>2, <1>3, <2>2 DEF Content
    <3>2. QED
      BY <1>2, <1>6, <2>2, <3>1 DEF Content
  <2>3. QED
    BY <2>1, <2>2
<1>14. Good(r.result.offers, Region) /\ r.pc \in Active \ {"start"} /\ d.pc \in Active
  BY <1>3, <1>4, <1>6
<1> HIDE DEF d, n
<1>15. Task(r, sent[s], queue \o ev, s, Region)
  BY <1>3, <1>6, <1>10, <1>11, <1>13, <1>14, TaskTells
<1>16. queue' = queue \o ev
  BY <1>1 DEF Put, ev, e, o
<1>17. UNCHANGED <<req, redisVars, drainer, outVars>>
  BY DEF AdapterEmits
<1>18. StoresKept
  BY <1>17, StoresSame
<1>19. /\ drive[s].pc \in Active /\ ~r.deaf
       /\ UNCHANGED <<req, outVars>> /\ drainer' = drainer
  BY <1>2, <1>14, <1>6, <1>17, DeafServes DEF d
<1>20. QED
  BY <1>2, <1>5, <1>10, <1>11, <1>15, <1>16, <1>18, <1>19, Move

\* What an adapter returns, finalised.
LEMMA ReturnIs ==
  ASSUME NEW n \in Nat, NEW res, res = [NoResult EXCEPT !.offers = Finalise(n)],
         req.regional \in BOOLEAN
  PROVE  /\ res \in Result /\ ~res.error /\ ~res.cached
         /\ Good(res.offers, Region) /\ Len(res.offers) = n
<1>1. Good(Finalise(n), Region) /\ Len(Finalise(n)) = n
  BY Finalised
<1>2. Finalise(n) \in Offers
  BY <1>1 DEF Good, Offers
<1> DEFINE f == Finalise(n)
<1>3. res = [offers |-> f, error |-> FALSE, cached |-> FALSE]
  <2> HIDE DEF f
  <2>1. res = [[offers |-> <<>>, error |-> FALSE, cached |-> FALSE] EXCEPT !.offers = f]
    BY DEF NoResult, f
  <2>2. QED
    BY <2>1
<1>4. QED
  <2>1. f \in Offers /\ Good(f, Region) /\ Len(f) = n
    BY <1>1, <1>2
  <2> HIDE DEF f
  <2>2. [offers |-> f, error |-> FALSE, cached |-> FALSE] \in Result
    BY <2>1 DEF Result
  <2>3. res.offers = f /\ ~res.error /\ ~res.cached
    BY <1>3
  <2>4. res \in Result
    BY <1>3, <2>2, Zenon
  <2>5. QED
    BY <2>1, <2>3, <2>4

LEMMA FixedResults ==
  /\ Failed \in Result /\ Failed.error /\ ~Failed.cached /\ Failed.offers = <<>>
  /\ NoResult \in Result /\ ~NoResult.error /\ ~NoResult.cached /\ NoResult.offers = <<>>
  /\ \A a : Good(Failed.offers, a) /\ Good(NoResult.offers, a)
<1>1. <<>> \in Offers
  BY DEF Offers
<1>2. Failed \in Result /\ NoResult \in Result
  BY <1>1 DEF Failed, NoResult, Result
<1>3. /\ Failed.error /\ ~Failed.cached /\ Failed.offers = <<>>
      /\ ~NoResult.error /\ ~NoResult.cached /\ NoResult.offers = <<>>
  BY DEF Failed, NoResult
<1>4. QED
  BY <1>2, <1>3, GoodNone

LEMMA ReturnsKeeps ==
  ASSUME IInv, NEW s \in Sources, AdapterReturns(s)
  PROVE  IInv'
<1> DEFINE d == drive[s]
           r == As("retry", d.emitted, TRUE, d.deaf, d.result)
           res == [NoResult EXCEPT !.offers = Finalise(d.emitted)]
<1>1. drainer \in Live /\ d.pc = "search" /\ UNCHANGED <<req, redisVars, drainer, outVars>>
  BY Running DEF AdapterReturns
<1>2. /\ drive \in [Sources -> Drive] /\ d \in Drive /\ queue \in Seq(Event)
      /\ Task(d, sent[s], queue, s, Region)
      /\ Content(d, OutOf(sent[s], queue, s), Region)
      /\ Good(d.result.offers, Region) /\ req.regional \in BOOLEAN
  BY Known
<1>3. d.pc \in Active /\ d.pc # "start" /\ d.emitted \in Nat
  BY <1>1, <1>2, DriveFields DEF Active
<1>4. CASE /\ drive' = [drive EXCEPT ![s].pc = "retry", ![s].retried = TRUE]
           /\ UNCHANGED queue
  <2>1. drive' = [drive EXCEPT ![s] = r]
    BY <1>2, <1>4, RetryIs
  <2>2. /\ r \in Drive /\ r.pc = "retry" /\ r.retried /\ r.deaf = d.deaf
        /\ r.result = d.result
    <3>1. "retry" \in Pc /\ d.deaf \in BOOLEAN /\ d.result \in Result
      BY <1>2, DriveFields DEF Pc, Active
    <3> HIDE DEF d
    <3>2. QED
      BY <1>3, <3>1 DEF As, Drive, Pc
  <2> HIDE DEF r
  <2>3. Content(r, OutOf(sent[s], queue, s), Region)
    BY <2>2 DEF Content
  <2>4. r.pc \notin {"start", "finished"} /\ Good(r.result.offers, Region)
    BY <1>2, <2>2
  <2> HIDE DEF d
  <2>5. Task(r, sent[s], queue, s, Region)
    BY <1>2, <1>3, <2>2, <2>3, <2>4, TaskQuiet
  <2>6. queue = queue \o <<>> /\ queue' = queue \o <<>>
    BY <1>2, <1>4
  <2>7. Task(r, sent[s], queue \o <<>>, s, Region)
    BY <2>5, <2>6
  <2>8. <<>> \in Seq(Event) /\ \A j \in DOMAIN <<>> : Of(<<>>[j], s)
    BY Nothing
  <2>9. StoresKept
    BY <1>1, StoresSame
  <2>10. /\ drive[s].pc \in Active /\ ~r.deaf
         /\ UNCHANGED <<req, outVars>> /\ drainer' = drainer
    BY <1>1, <1>3, <2>2, DeafServes DEF d
  <2>11. QED
    BY <1>1, <2>1, <2>6, <2>7, <2>8, <2>9, <2>10, Move
<1>5. CASE Settle(s, res)
  <2>1. /\ res \in Result /\ ~res.error /\ ~res.cached
        /\ Good(res.offers, Region) /\ Len(res.offers) = d.emitted
    BY <1>2, <1>3, ReturnIs
  <2>2. OutOf(sent[s], queue, s) = Upto(d.emitted, Region)
    BY <1>1, <1>2 DEF Content
  <2> HIDE DEF res
  <2>3. OutOf(sent[s], queue, s) = Upto(Len(res.offers), Region)
    BY <2>1, <2>2
  <2>4. d.pc \in {"search", "retry"} /\ drainer # "cancelled"
    BY <1>1, Uncancelled DEF AdapterReturns, Active
  <2>5. QED
    BY <1>1, <1>5, <2>1, <2>3, <2>4, Settles
<1>6. QED
  BY <1>4, <1>5 DEF AdapterReturns

LEMMA FailsKeeps ==
  ASSUME IInv, NEW s \in Sources, AdapterFails(s)
  PROVE  IInv'
<1>1. drainer \in Live /\ drive[s].pc = "search"
  BY Running DEF AdapterFails
<1>2. /\ Settle(s, Failed) /\ UNCHANGED <<req, redisVars, drainer, outVars>>
      /\ s = WB => drive[s].emitted = 0
  BY DEF AdapterFails
<1>3. Failed \in Result /\ Good(Failed.offers, Region) /\ ~Failed.cached /\ Failed.error
  BY FixedResults
<1>4. drainer = "cancelled" => s = WB
  BY Uncancelled DEF AdapterFails, Swallows, Active
<1>5. QED
  BY <1>1, <1>2, <1>3, <1>4, Settles

LEMMA RetryReturnsKeeps ==
  ASSUME IInv, NEW s \in Sources, RetryReturns(s)
  PROVE  IInv'
<1> DEFINE n == drive[s].emitted
           res == [NoResult EXCEPT !.offers = Finalise(n)]
<1>1. drainer \in Live /\ drive[s].pc = "retry"
  BY Running DEF RetryReturns
<1>2. Settle(s, res) /\ UNCHANGED <<req, redisVars, drainer, outVars>>
  BY DEF RetryReturns
<1>3. n \in Nat /\ req.regional \in BOOLEAN
  BY Known, DriveFields
<1>4. res \in Result /\ ~res.error /\ ~res.cached /\ Good(res.offers, Region)
  BY <1>3, ReturnIs
<1>5. drive[s].retried /\ drainer # "cancelled"
  BY <1>1, Known, Uncancelled DEF Content, RetryReturns, Active
<1> HIDE DEF res
<1>6. QED
  BY <1>1, <1>2, <1>4, <1>5, Settles

LEMMA RetryFailsKeeps ==
  ASSUME IInv, NEW s \in Sources, RetryFails(s)
  PROVE  IInv'
<1>1. drainer \in Live /\ drive[s].pc = "retry"
  BY Running DEF RetryFails
<1>2. Settle(s, NoResult) /\ UNCHANGED <<req, redisVars, drainer, outVars>>
  BY DEF RetryFails
<1>3. NoResult \in Result /\ Good(NoResult.offers, Region) /\ ~NoResult.cached /\ ~NoResult.error
  BY FixedResults
<1>4. drive[s].retried /\ (drainer = "cancelled" => s = WB)
  BY <1>1, Known, Uncancelled DEF Content, RetryFails, Swallows, Active
<1>5. NoResult.offers = <<>>
  BY FixedResults
<1>6. QED
  BY <1>1, <1>2, <1>3, <1>4, <1>5, Settles

\* A list found in Redis is emitted and returned.
LEMMA ServedKeeps ==
  ASSUME IInv, NEW s \in Sources, drive[s].pc \in {"lookup", "serve"}, drainer \in Live,
         NEW offers, Good(offers, Region),
         Finish(s, [offers |-> offers, error |-> FALSE, cached |-> TRUE], OfferEvents(s, offers)),
         UNCHANGED <<req, redisVars, drainer, outVars>>
  PROVE  IInv'
<1> DEFINE res == [offers |-> offers, error |-> FALSE, cached |-> TRUE]
           ev == OfferEvents(s, offers)
<1>1. res \in Result /\ res.offers = offers
  <2>1. offers \in Offers
    BY DEF Good, Offers
  <2>2. QED
    BY <2>1 DEF Result
<1> HIDE DEF res
<1>2. /\ ev \in Seq(Event)
      /\ \A j \in DOMAIN ev : Of(ev[j], s) /\ ev[j].kind = "offer"
      /\ {ev[j].offer : j \in DOMAIN ev} = Upto(Len(offers), Region)
  BY Emitted
<1> HIDE DEF ev
<1>3. OutOf(sent[s], queue, s) = {}
  BY Known DEF Content
<1>4. OutOf(sent[s], queue, s) \cup {ev[j].offer : j \in DOMAIN ev}
        = Upto(Len(res.offers), Region)
  BY <1>1, <1>2, <1>3
<1>5. drive[s].pc \in Active \ {"start"} /\ Good(res.offers, Region)
  BY <1>1 DEF Active
<1>6. Finish(s, res, ev) /\ StoresKept
  BY StoresSame DEF res, ev
<1>7. QED
  BY <1>1, <1>2, <1>4, <1>5, <1>6, Ends

LEMMA HitKeeps ==
  ASSUME IInv, NEW s \in Sources, LookupHit(s) \/ StaleHit(s)
  PROVE  IInv'
<1>1. CASE LookupHit(s)
  <2> DEFINE offers == Map(Score, cache[s].offers)
  <2>1. drainer \in Live /\ drive[s].pc \in {"lookup", "serve"}
    BY <1>1, Running DEF LookupHit
  <2>2. Good(cache[s].offers, Region)
    BY Known
  <2>3. Good(offers, Region)
    BY <2>2, GoodScored
  <2>4. /\ Finish(s, [offers |-> offers, error |-> FALSE, cached |-> TRUE],
                  OfferEvents(s, offers))
        /\ UNCHANGED <<req, redisVars, drainer, outVars>>
    BY <1>1 DEF LookupHit
  <2> HIDE DEF offers
  <2>5. QED
    BY <2>1, <2>3, <2>4, ServedKeeps
<1>2. CASE StaleHit(s)
  <2>1. drainer \in Live /\ drive[s].pc \in {"lookup", "serve"}
    BY <1>2, Running DEF StaleHit
  <2>2. Good(stale[s].offers, Region)
    BY Known
  <2>3. /\ Finish(s, [offers |-> stale[s].offers, error |-> FALSE, cached |-> TRUE],
                  OfferEvents(s, stale[s].offers))
        /\ UNCHANGED <<req, redisVars, drainer, outVars>>
    BY <1>2 DEF StaleHit
  <2>4. QED
    BY <2>1, <2>2, <2>3, ServedKeeps
<1>3. QED
  BY <1>1, <1>2

\* A result is returned with nothing more reported.
LEMMA ReturnedKeeps ==
  ASSUME IInv, NEW s \in Sources, drive[s].pc \in {"serve", "set", "setstale"},
         drainer \in Live, Finish(s, drive[s].result, <<>>),
         UNCHANGED <<req, drainer, outVars>>, StoresKept
  PROVE  IInv'
<1>1. /\ drive[s].result \in Result /\ Good(drive[s].result.offers, Region)
      /\ Content(drive[s], OutOf(sent[s], queue, s), Region)
  BY Known
<1>2. drive[s].pc \in Active \ {"start"}
  BY DEF Active
<1>3. drive[s].retried \/ drive[s].result.error
        \/ OutOf(sent[s], queue, s) = Upto(Len(drive[s].result.offers), Region)
  BY <1>1, FixedResults DEF Content
<1>4. /\ <<>> \in Seq(Event)
      /\ \A j \in DOMAIN <<>> : Of(<<>>[j], s) /\ <<>>[j].kind = "offer"
  BY Nothing
<1>5. OutOf(sent[s], queue, s) \cup {<<>>[j].offer : j \in DOMAIN <<>>}
        = OutOf(sent[s], queue, s)
  BY Nothing
<1>6. drive[s].retried \/ drive[s].result.error
        \/ OutOf(sent[s], queue, s) \cup {<<>>[j].offer : j \in DOMAIN <<>>}
             = Upto(Len(drive[s].result.offers), Region)
  BY <1>3, <1>5
<1>7. QED
  BY <1>1, <1>2, <1>4, <1>6, Ends

LEMMA QuietKeeps ==
  ASSUME IInv, NEW s \in Sources,
         LookupMiss(s) \/ LookupOld(s) \/ Granted(s) \/ StaleOld(s)
  PROVE  IInv'
<1> DEFINE d == drive[s]
           Goes(p) == As(p, d.emitted, d.retried, d.deaf, d.result)
<1>1. d \in Drive /\ Content(d, OutOf(sent[s], queue, s), Region)
  BY Known
<1>2. \A p : Goes(p).pc = p /\ Goes(p).emitted = d.emitted /\ Goes(p).retried = d.retried
  <2>1. d.retried \in BOOLEAN
    BY <1>1, DriveFields
  <2>2. QED
    BY <2>1 DEF As
<1>3. Content(Goes("raised"), OutOf(sent[s], queue, s), Region)
  BY <1>2 DEF Content
<1>4. d.pc \in {"lookup", "limit"} => ~d.deaf
  BY DeafServes DEF Active
<1>5. d.pc = "lookup" => Content(Goes("limit"), OutOf(sent[s], queue, s), Region)
  BY <1>1, <1>2 DEF Content
<1>6. d.pc = "limit" => Content(Goes("search"), OutOf(sent[s], queue, s), Region)
  BY <1>1, <1>2, UptoNone DEF Content
<1> HIDE DEF Goes
<1>7. /\ UNCHANGED <<req, queue, outVars>> /\ StoresKept
  BY StoresSame DEF LookupMiss, LookupOld, Granted, StaleOld, Raise
<1>8. {"limit", "search", "raised"} \subseteq Pc /\ "raised" \in Left
  BY DEF Pc, Active, Left
<1>9. {"lookup", "limit", "serve"} \subseteq Active /\ "raised" \notin Active
  BY DEF Active
<1>10. CASE LookupMiss(s)
  <2>1. drainer \in Live /\ d.pc = "lookup" /\ Goto(s, "limit") /\ drainer' = drainer
    BY <1>10, Running DEF LookupMiss
  <2>2. QED
    BY <1>4, <1>5, <1>7, <1>8, <1>9, <2>1, GoesOn DEF Goes
<1>11. CASE Granted(s)
  <2>1. drainer \in Live /\ d.pc = "limit" /\ Goto(s, "search") /\ drainer' = drainer
    BY <1>11, Running DEF Granted
  <2>2. QED
    BY <1>4, <1>6, <1>7, <1>8, <1>9, <2>1, GoesOn DEF Goes
<1>12. CASE LookupOld(s) \/ StaleOld(s)
  <2>1. /\ drainer \in Live /\ d.pc \in Active /\ Goto(s, "raised")
        /\ drainer' = IF drainer = "gather" THEN "failed" ELSE drainer
    BY <1>9, <1>12, Running DEF LookupOld, StaleOld, Raise
  <2>2. QED
    BY <1>3, <1>7, <1>8, <1>9, <2>1, GoesOn DEF Goes
<1>13. QED
  BY <1>10, <1>11, <1>12

LEMMA WritesKeeps ==
  ASSUME IInv, NEW s \in Sources,
         StaleMiss(s) \/ SetCache(s) \/ SetStale(s) \/ SetFails(s) \/ Cancelled(s)
  PROVE  IInv'
<1> DEFINE d == drive[s]
           entry == Payload(d.result.offers)
<1>1. d \in Drive /\ Content(d, OutOf(sent[s], queue, s), Region)
        /\ d.result \in Result /\ Good(d.result.offers, Region)
  BY Known
<1>2. /\ cache \in [Sources -> Entry] /\ stale \in [Sources -> Entry]
      /\ \A t \in Sources : Good(cache[t].offers, Region) /\ Good(stale[t].offers, Region)
  BY DEF IInv, TypeOK, Stores
<1>3. entry \in Entry /\ entry.offers = d.result.offers
  <2>1. d.result.offers \in Offers
    BY <1>1 DEF Result
  <2>2. QED
    BY <2>1 DEF Payload, Entry
<1> HIDE DEF entry
<1>4. /\ [cache EXCEPT ![s] = entry] \in [Sources -> Entry]
      /\ \A t \in Sources : Good([cache EXCEPT ![s] = entry][t].offers, Region)
      /\ [stale EXCEPT ![s] = entry] \in [Sources -> Entry]
      /\ \A t \in Sources : Good([stale EXCEPT ![s] = entry][t].offers, Region)
  BY <1>1, <1>2, <1>3
<1>5. CASE StaleMiss(s)
  <2>1. drainer \in Live /\ d.pc = "serve"
    BY <1>5, Running DEF StaleMiss
  <2>2. Finish(s, d.result, <<>>) /\ UNCHANGED <<req, drainer, outVars>> /\ StoresKept
    BY <1>5, StoresSame DEF StaleMiss
  <2>3. QED
    BY <2>1, <2>2, ReturnedKeeps
<1>6. CASE SetCache(s)
  <2>1. /\ drainer \in Live /\ d.pc = "set" /\ Goto(s, "setstale") /\ drainer' = drainer
        /\ UNCHANGED <<req, queue, outVars>>
    BY <1>6, Running DEF SetCache
  <2>2. StoresKept
    BY <1>2, <1>4, <1>6 DEF SetCache, WriteCache, StoresKept, entry
  <2>3. "set" \in Active /\ "set" # "start" /\ "setstale" \in Pc /\ ~d.deaf
    BY <2>1, DeafServes DEF Pc, Active
  <2>4. Content(As("setstale", d.emitted, d.retried, d.deaf, d.result),
                OutOf(sent[s], queue, s), Region)
    <3>1. d.retried \in BOOLEAN
      BY <1>1, DriveFields
    <3> DEFINE r == As("setstale", d.emitted, d.retried, d.deaf, d.result)
    <3>2. r.pc = "setstale" /\ r.retried = d.retried /\ r.result = d.result
      BY <3>1 DEF As
    <3> HIDE DEF r
    <3>3. Content(r, OutOf(sent[s], queue, s), Region)
      BY <1>1, <2>1, <3>2 DEF Content
    <3>4. QED
      BY <3>3 DEF r
  <2>5. QED
    BY <2>1, <2>2, <2>3, <2>4, GoesOn
<1>7. CASE SetStale(s)
  <2>1. drainer \in Live /\ d.pc = "setstale"
    BY <1>7, Running DEF SetStale
  <2>2. Finish(s, d.result, <<>>) /\ UNCHANGED <<req, drainer, outVars>>
    BY <1>7 DEF SetStale
  <2>3. StoresKept
    BY <1>2, <1>4, <1>7 DEF SetStale, WriteStale, StoresKept, entry
  <2>4. QED
    BY <2>1, <2>2, <2>3, ReturnedKeeps
<1>8. CASE SetFails(s)
  <2>1. drainer \in Live /\ d.pc \in {"set", "setstale"}
    BY <1>8, Running DEF SetFails
  <2>2. Finish(s, d.result, <<>>) /\ UNCHANGED <<req, drainer, outVars>>
    BY <1>8 DEF SetFails
  <2>3. StoresKept
    <3>1. UNCHANGED stale /\ cache' \in {cache, [cache EXCEPT ![s] = entry]}
      BY <1>8 DEF SetFails, WriteCache, redisVars, entry
    <3>2. QED
      BY <1>2, <1>4, <3>1 DEF StoresKept
  <2>4. QED
    BY <2>1, <2>2, <2>3, ReturnedKeeps
<1>9. CASE Cancelled(s)
  <2>1. /\ drainer \in Live /\ d.pc \in Active /\ ~d.deaf /\ Goto(s, "cancelled")
        /\ drainer' = drainer /\ UNCHANGED <<req, queue, outVars>>
    BY <1>9 DEF Cancelled, Live
  <2>2. StoresKept
    <3>1. /\ cache' \in {cache, [cache EXCEPT ![s] = entry]}
          /\ stale' \in {stale, [stale EXCEPT ![s] = entry]}
      BY <1>9 DEF Cancelled, WriteCache, WriteStale, redisVars, entry
    <3>2. QED
      BY <1>2, <1>4, <3>1 DEF StoresKept
  <2>3. "cancelled" \in Pc /\ "cancelled" \notin Active
    BY DEF Pc, Active
  <2>4. Content(As("cancelled", d.emitted, d.retried, d.deaf, d.result),
                OutOf(sent[s], queue, s), Region)
    <3> DEFINE x == As("cancelled", d.emitted, d.retried, d.deaf, d.result)
    <3>1. x.pc = "cancelled"
      BY DEF As
    <3> HIDE DEF x
    <3>2. Content(x, OutOf(sent[s], queue, s), Region)
      BY <3>1 DEF Content
    <3>3. QED
      BY <3>2 DEF x
  <2>5. QED
    BY <2>1, <2>2, <2>3, <2>4, GoesOn
<1>10. QED
  BY <1>5, <1>6, <1>7, <1>8, <1>9

LEMMA DriveKeeps ==
  ASSUME IInv, NEW s \in Sources, DriveStep(s)
  PROVE  IInv'
<1>1. CASE Start(s) \/ AdapterEmits(s) \/ AdapterReturns(s) \/ AdapterFails(s)
  BY <1>1, StartKeeps, EmitsKeeps, ReturnsKeeps, FailsKeeps
<1>2. CASE RetryReturns(s) \/ RetryFails(s) \/ LookupHit(s) \/ StaleHit(s)
  BY <1>2, RetryReturnsKeeps, RetryFailsKeeps, HitKeeps
<1>3. CASE LookupMiss(s) \/ LookupOld(s) \/ Granted(s) \/ StaleOld(s)
  BY <1>3, QuietKeeps
<1>4. CASE StaleMiss(s) \/ SetCache(s) \/ SetStale(s) \/ SetFails(s) \/ Cancelled(s)
  BY <1>4, WritesKeeps
<1>5. QED
  BY <1>1, <1>2, <1>3, <1>4 DEF DriveStep

-----------------------------------------------------------------------------
(***************************************************************************)
(* The other actions.                                                      *)
(***************************************************************************)

LEMMA InitInv == Init => IInv
<1> SUFFICES ASSUME Init
             PROVE  IInv
  OBVIOUS
<1>1. req.regional \in BOOLEAN
  BY DEF Init
<1>2. \A s \in Sources : \A e \in Legacy(s) : e \in Entry /\ Good(e.offers, Region)
  <2> SUFFICES ASSUME NEW s \in Sources, NEW e \in Legacy(s)
               PROVE  e \in Entry /\ Good(e.offers, Region)
    OBVIOUS
  <2>1. CASE e \in {NoEntry, OldEntry}
    <3>1. e.offers = <<>> /\ <<>> \in Offers
      BY <2>1 DEF NoEntry, OldEntry, Offers
    <3>2. e \in Entry
      BY <2>1, <3>1 DEF NoEntry, OldEntry, Entry
    <3>3. QED
      BY <3>1, <3>2, GoodNone
  <2>2. CASE e \notin {NoEntry, OldEntry}
    <3>1. PICK n \in 1 .. MaxOffers[s] : e = Payload(Finalise(n))
      BY <2>2 DEF Legacy
    <3>2. MaxOffers[s] \in Nat \ {0}
      BY BoundsAssumption
    <3>3. n \in Nat
      BY <3>2
    <3>4. Good(Finalise(n), Region)
      BY <1>1, <3>3, Finalised
    <3>5. QED
      BY <3>1, <3>4 DEF Good, Payload, Entry, Offers
  <2>3. QED
    BY <2>1, <2>2
<1>3. /\ cache \in [Sources -> Entry] /\ stale \in [Sources -> Entry] /\ Stores
  <2>1. \A s \in Sources : cache[s] \in Legacy(s) /\ stale[s] \in Legacy(s)
    BY DEF Init
  <2>2. \A s \in Sources : /\ cache[s] \in Entry /\ Good(cache[s].offers, Region)
                           /\ stale[s] \in Entry /\ Good(stale[s].offers, Region)
    BY <1>2, <2>1
  <2>3. QED
    BY <2>2 DEF Init, Stores
<1> DEFINE d == [pc |-> "start", emitted |-> 0, retried |-> FALSE, deaf |-> FALSE,
                 result |-> NoResult]
<1>4. d \in Drive
  BY FixedResults DEF Drive, Active
<1>5. d.pc = "start" /\ d.emitted = 0 /\ ~d.retried /\ ~d.deaf /\ d.result = NoResult
  OBVIOUS
<1>6. drive = [s \in Sources |-> d] /\ queue = <<>> /\ sent = [s \in Sources |-> <<>>]
        /\ closing = <<>> /\ drainer = "absent" /\ client = "normalize"
  BY DEF Init
<1> HIDE DEF d
<1>7. TypeOK
  <2>1. <<>> \in Seq(Event) /\ <<>> \in Seq({"top_deals", "done"})
    OBVIOUS
  <2>2. sent \in [Sources -> Seq(Event)] /\ drive \in [Sources -> Drive]
    BY <1>4, <1>6
  <2>3. req \in [regional: BOOLEAN, alternates: BOOLEAN, cache: BOOLEAN]
    BY DEF Init
  <2>4. QED
    BY <1>3, <1>6, <2>1, <2>2, <2>3 DEF TypeOK
<1>8. Tasks
  <2> SUFFICES ASSUME NEW s \in Sources
               PROVE  Task(d, <<>>, <<>>, s, Region)
    BY <1>6 DEF Tasks
  <2>1. Ordered(<<>>, <<>>, s) /\ ~Told(<<>>, <<>>, s) /\ ~Final(<<>>, <<>>, s)
          /\ OutOf(<<>>, <<>>, s) = {} /\ FinalIs(<<>>, <<>>, s, d.result)
    <3>1. DOMAIN <<>> = {}
      OBVIOUS
    <3>2. QED
      BY <3>1 DEF Ordered, Told, Final, OutOf, FinalIs
  <2>2. Content(d, {}, Region)
    BY <1>5 DEF Content
  <2>3. Good(d.result.offers, Region)
    BY <1>5, FixedResults
  <2>4. QED
    BY <1>4, <1>5, <2>1, <2>2, <2>3 DEF Task
<1>9. Flow
  BY <1>5, <1>6 DEF Flow
<1>10. Ending
  <2>1. Len(<<>>) = 0 /\ DOMAIN <<>> = {}
    OBVIOUS
  <2>2. QED
    BY <1>6, <2>1 DEF Ending
<1>11. QED
  BY <1>3, <1>7, <1>8, <1>9, <1>10 DEF IInv

\* Nothing that Task is about is told of s.
LEMMA TaskSame ==
  ASSUME NEW d, NEW l, NEW q, NEW m, NEW p, NEW s, NEW a, Task(d, l, q, s, a),
         Ordered(m, p, s),
         Told(m, p, s) <=> Told(l, q, s), Final(m, p, s) <=> Final(l, q, s),
         OutOf(m, p, s) = OutOf(l, q, s), FinalIs(m, p, s, d.result)
  PROVE  Task(d, m, p, s, a)
BY DEF Task

LEMMA DrainKeeps ==
  ASSUME IInv, Drain
  PROVE  IInv'
<1> DEFINE ev == <<Kind("top_deals"), Kind("sentinel")>>
           n == Len(queue)
<1>1. /\ TypeOK /\ queue \in Seq(Event) /\ drainer = "gather" /\ drainer' = "done"
      /\ UNCHANGED <<req, redisVars, drive, outVars>> /\ queue' = queue \o ev
      /\ \A s \in Sources : drive[s].pc = "finished"
  BY DEF IInv, TypeOK, Drain, Put
<1>2. /\ ev \in Seq(Event) /\ DOMAIN ev = 1 .. 2 /\ Len(ev) = 2
      /\ ev[1].kind = "top_deals" /\ ev[2].kind = "sentinel"
  BY DEF Kind, Event
<1> HIDE DEF ev
<1>3. Region' = Region
  BY <1>1 DEF Region
<1>4. TypeOK'
  <2>1. queue' \in Seq(Event)
    BY <1>1, <1>2, Joined
  <2>2. QED
    BY <1>1, <2>1 DEF TypeOK, redisVars, outVars
<1>5. Tasks'
  <2> SUFFICES ASSUME NEW s \in Sources
               PROVE  Task(drive[s], sent[s], queue \o ev, s, Region)
    BY <1>1, <1>3 DEF Tasks, outVars
  <2> DEFINE d == drive[s]
             l == sent[s]
  <2>1. Task(d, l, queue, s, Region)
    BY DEF IInv, Tasks
  <2>2. \A j \in DOMAIN ev : ~Of(ev[j], s)
    BY <1>2 DEF Of
  <2> HIDE DEF d, l
  <2>3. /\ Ordered(l, queue, s) => Ordered(l, queue \o ev, s)
        /\ Told(l, queue \o ev, s) <=> Told(l, queue, s)
        /\ Final(l, queue \o ev, s) <=> Final(l, queue, s)
        /\ OutOf(l, queue \o ev, s) = OutOf(l, queue, s)
        /\ FinalIs(l, queue, s, d.result) => FinalIs(l, queue \o ev, s, d.result)
    BY <1>1, <1>2, <2>2, PutOthers
  <2>4. Ordered(l, queue, s) /\ FinalIs(l, queue, s, d.result)
    BY <2>1 DEF Task
  <2>5. Task(d, l, queue \o ev, s, Region)
    BY <2>1, <2>3, <2>4, TaskSame
  <2>6. QED
    BY <2>5 DEF d, l
<1>6. Stores'
  BY <1>1, <1>3 DEF IInv, Stores, redisVars
<1>7. Flow'
  <2>1. \A s \in Sources : ~drive[s].deaf
    BY <1>1 DEF IInv, Flow
  <2>2. client \notin {"normalize", "clarify"}
    BY <1>1 DEF IInv, Flow
  <2>3. drive' = drive /\ client' = client
    BY <1>1 DEF outVars
  <2>4. QED
    BY <1>1, <2>1, <2>2, <2>3 DEF Flow
<1>8. Ending'
  <2>1. /\ closing = <<>> /\ (client = "done" <=> Len(closing) = 2)
        /\ \A j \in DOMAIN queue : queue[j].kind \notin Last
    BY <1>1 DEF IInv, Ending
  <2>2. /\ n \in Nat /\ Len(queue \o ev) = n + 2 /\ DOMAIN queue = 1 .. n
        /\ DOMAIN (queue \o ev) = 1 .. n + 2
        /\ \A j \in DOMAIN queue : (queue \o ev)[j] = queue[j]
        /\ (queue \o ev)[n + 1] = ev[1] /\ (queue \o ev)[n + 2] = ev[2]
    <3>1. /\ Len(queue) \in Nat /\ Len(queue \o ev) = Len(queue) + Len(ev)
          /\ DOMAIN queue = 1 .. Len(queue)
          /\ DOMAIN (queue \o ev) = 1 .. Len(queue) + Len(ev)
          /\ \A j \in DOMAIN queue : (queue \o ev)[j] = queue[j]
          /\ \A j \in DOMAIN ev : (queue \o ev)[Len(queue) + j] = ev[j]
      BY <1>1, <1>2, Joined
    <3>2. 1 \in DOMAIN ev /\ 2 \in DOMAIN ev
      BY <1>2
    <3>3. QED
      BY <1>2, <3>1, <3>2
  <2> HIDE DEF n
  <2>3. /\ Len(queue') >= 2
        /\ queue'[Len(queue')].kind = "sentinel"
        /\ queue'[Len(queue') - 1].kind = "top_deals"
    BY <1>1, <1>2, <2>2
  <2>4. \A j \in DOMAIN queue' : j < Len(queue') - 1 => queue'[j].kind \notin Last
    BY <1>1, <2>1, <2>2
  <2>5. closing' = closing /\ client' = client
    BY <1>1 DEF outVars
  <2>6. QED
    BY <1>1, <2>1, <2>3, <2>4, <2>5 DEF Ending
<1>9. QED
  BY <1>4, <1>5, <1>6, <1>7, <1>8 DEF IInv

\* The client moves on, or away.
LEMMA ClientKeeps ==
  ASSUME IInv, Normalize \/ Clarify \/ Disconnect \/ Close
  PROVE  IInv'
<1>1. /\ UNCHANGED <<req, redisVars, drive, queue, sent, closing>>
      /\ client' \in {"clarify", "relay", "closing", "gone"}
      /\ client \in {"normalize", "clarify", "relay", "closing"}
      /\ drainer' \in {drainer, "gather", "cancelled"}
      /\ drainer' = "gather" => drainer \in {"absent", "gather"}
      /\ drainer' = "cancelled" => drainer \in {"gather", "cancelled"}
  BY DEF Normalize, Clarify, Disconnect, Close, IInv, Flow
<1>2. Region' = Region
  BY <1>1 DEF Region
<1>3. TypeOK'
  BY <1>1 DEF IInv, TypeOK, redisVars
<1>4. Tasks'
  BY <1>1, <1>2 DEF IInv, Tasks
<1>5. Stores'
  BY <1>1, <1>2 DEF IInv, Stores, redisVars
<1>6. Ending'
  <2>1. Ending /\ (drainer' = "done" <=> drainer = "done")
    <3>1. drainer' = "done" => drainer = "done"
      BY <1>1
    <3>2. drainer = "done" => drainer' = "done"
      BY <1>1
    <3>3. QED
      BY <3>1, <3>2 DEF IInv
  <2>2. client # "done" /\ client' # "done"
    BY <1>1
  <2>3. queue' = queue /\ closing' = closing
    BY <1>1
  <2>4. QED
    BY <2>1, <2>2, <2>3 DEF Ending
<1>7. Flow'
  <2>1. drive' = drive /\ Flow
    BY <1>1 DEF IInv
  <2>2. CASE Normalize
    BY <2>1, <2>2 DEF Normalize, Flow
  <2>3. CASE Clarify
    <3>1. \A s \in Sources : ~drive[s].deaf
      BY <2>1, <2>3 DEF Clarify, Flow
    <3>2. QED
      BY <2>1, <2>3, <3>1 DEF Clarify, Flow
  <2>4. CASE Disconnect
    <3>1. client' \notin {"normalize", "clarify"} /\ drainer' # "gather"
      BY <2>4 DEF Disconnect
    <3>2. client = "relay" => drainer # "absent"
      BY <2>1 DEF Flow
    <3>3. drainer' = "absent" => drainer = "absent" /\ client' = "gone"
      BY <2>4, <3>2 DEF Disconnect
    <3>5. /\ drainer' = "failed" => drainer = "failed"
          /\ drainer' = "done" => drainer = "done"
      BY <2>4 DEF Disconnect
    <3>6. \A s \in Sources : drive[s].deaf =>
            drainer' = "cancelled" /\ s = WB /\ drive[s].pc \in Left
      BY <2>1, <2>4 DEF Disconnect, Flow
    <3>7. QED
      BY <2>1, <3>1, <3>3, <3>5, <3>6 DEF Flow
  <2>5. CASE Close
    BY <2>1, <2>5 DEF Close, Flow
  <2>6. QED
    BY <2>2, <2>3, <2>4, <2>5
<1>8. QED
  BY <1>3, <1>4, <1>5, <1>6, <1>7 DEF IInv

\* The generator takes the next item of the queue.
LEMMA RelayKeeps ==
  ASSUME IInv, Relay
  PROVE  IInv'
<1> DEFINE event == Head(queue)
           rest == Tail(queue)
<1>1. /\ TypeOK /\ queue \in Seq(Event) /\ queue # <<>> /\ client = "relay"
      /\ sent \in [Sources -> Seq(Event)] /\ closing \in Seq({"top_deals", "done"})
      /\ UNCHANGED <<req, redisVars, drive, drainer>> /\ queue' = rest
  BY DEF IInv, TypeOK, Relay
<1>2. /\ rest \in Seq(Event) /\ event \in Event /\ event = queue[1]
      /\ Len(queue) \in Nat \ {0} /\ Len(rest) = Len(queue) - 1
      /\ DOMAIN queue = 1 .. Len(queue) /\ DOMAIN rest = 1 .. Len(queue) - 1
      /\ \A j \in DOMAIN rest : j + 1 \in DOMAIN queue /\ rest[j] = queue[j + 1]
  BY <1>1, Rest
<1>3. /\ event.kind = "sentinel" =>
           closing' = Append(closing, "done") /\ client' = "done" /\ UNCHANGED sent
      /\ event.kind = "top_deals" =>
           closing' = Append(closing, "top_deals") /\ UNCHANGED <<client, sent>>
      /\ event.kind \notin Last =>
           /\ sent' = [sent EXCEPT ![event.source] = Append(sent[event.source], event)]
           /\ UNCHANGED <<client, closing>>
  BY DEF Relay, Last
<1>4. event.kind \notin Last => event.source \in Sources /\ Of(event, event.source)
  <2>1. event.kind \notin Last =>
          /\ event.source \in Sources
          /\ event.kind \in {"source_started", "offer", "source_finished"}
    BY <1>2 DEF Event, Last
  <2>2. QED
    BY <2>1 DEF Of
<1>5. Region' = Region
  BY <1>1 DEF Region
<1> HIDE DEF event, rest
<1>6. ASSUME NEW s \in Sources
      PROVE  Task(drive[s], sent'[s], rest, s, Region) /\ sent'[s] \in Seq(Event)
  <2> DEFINE d == drive[s]
             l == sent[s]
             m == sent'[s]
  <2>1. Task(d, l, queue, s, Region) /\ l \in Seq(Event)
    BY <1>1 DEF IInv, Tasks
  <2>2. CASE Of(event, s)
    <3>1. event.kind \notin Last /\ event.source = s
      BY <2>2 DEF Of, Last
    <3>2. m = Append(l, event)
      BY <1>1, <1>3, <3>1
    <3> HIDE DEF d, l, m
    <3>3. Ordered(l, queue, s) /\ FinalIs(l, queue, s, d.result) /\ Of(Head(queue), s)
      BY <2>1, <2>2 DEF Task, event
    <3>4. /\ Append(l, Head(queue)) \in Seq(Event)
          /\ Ordered(Append(l, Head(queue)), Tail(queue), s)
          /\ Told(Append(l, Head(queue)), Tail(queue), s) /\ Told(l, queue, s)
          /\ Final(Append(l, Head(queue)), Tail(queue), s) <=> Final(l, queue, s)
          /\ OutOf(Append(l, Head(queue)), Tail(queue), s) = OutOf(l, queue, s)
          /\ FinalIs(Append(l, Head(queue)), Tail(queue), s, d.result)
      BY <1>1, <2>1, <3>3, RelayOwn
    <3>5. /\ m \in Seq(Event) /\ Ordered(m, rest, s)
          /\ Told(m, rest, s) <=> Told(l, queue, s)
          /\ Final(m, rest, s) <=> Final(l, queue, s)
          /\ OutOf(m, rest, s) = OutOf(l, queue, s)
          /\ FinalIs(m, rest, s, d.result)
      BY <3>2, <3>4 DEF event, rest
    <3>6. Task(d, m, rest, s, Region)
      BY <2>1, <3>5, TaskSame
    <3>7. QED
      BY <3>5, <3>6 DEF d, m
  <2>3. CASE ~Of(event, s)
    <3>1. m = l
      <4>1. CASE event.kind \in Last
        BY <1>3, <4>1 DEF Last
      <4>2. CASE event.kind \notin Last
        <5>1. event.source \in Sources /\ event.source # s
          BY <1>4, <2>3, <4>2
        <5>2. sent' = [sent EXCEPT ![event.source] = Append(sent[event.source], event)]
          BY <1>3, <4>2
        <5>3. QED
          BY <1>1, <5>1, <5>2
      <4>3. QED
        BY <4>1, <4>2
    <3> HIDE DEF d, l, m
    <3>2. Ordered(l, queue, s) /\ FinalIs(l, queue, s, d.result) /\ ~Of(Head(queue), s)
      BY <2>1, <2>3 DEF Task, event
    <3>3. /\ Ordered(l, rest, s)
          /\ Told(l, rest, s) <=> Told(l, queue, s)
          /\ Final(l, rest, s) <=> Final(l, queue, s)
          /\ OutOf(l, rest, s) = OutOf(l, queue, s)
          /\ FinalIs(l, rest, s, d.result)
      BY <1>1, <3>2, RelayOthers DEF rest
    <3>4. Task(d, l, rest, s, Region)
      BY <2>1, <3>3, TaskSame
    <3>5. QED
      BY <2>1, <3>1, <3>4 DEF d, m
  <2>4. QED
    BY <2>2, <2>3
<1>7. Tasks'
  BY <1>1, <1>5, <1>6 DEF Tasks
<1>8. TypeOK'
  <2>1. sent' \in [Sources -> Seq(Event)]
    <3>1. CASE event.kind \in Last
      BY <1>1, <1>3, <3>1 DEF Last
    <3>2. CASE event.kind \notin Last
      <4>1. sent[event.source] \in Seq(Event)
        BY <1>1, <1>4, <3>2
      <4>2. Append(sent[event.source], event) \in Seq(Event)
        BY <1>2, <4>1, AppendProperties
      <4>3. QED
        BY <1>1, <1>3, <3>2, <4>2
    <3>3. QED
      BY <3>1, <3>2
  <2>2. closing' \in Seq({"top_deals", "done"})
    <3>1. /\ Append(closing, "done") \in Seq({"top_deals", "done"})
          /\ Append(closing, "top_deals") \in Seq({"top_deals", "done"})
      BY <1>1, AppendProperties
    <3>2. QED
      BY <1>1, <1>3, <3>1 DEF Last
  <2>3. client' \in {"relay", "done"}
    BY <1>1, <1>3 DEF Last
  <2>4. QED
    BY <1>1, <1>2, <2>1, <2>2, <2>3 DEF TypeOK, redisVars
<1>9. Stores'
  BY <1>1, <1>5 DEF IInv, Stores, redisVars
<1>10. Flow'
  <2>1. client' \in {"relay", "done"} /\ drive' = drive /\ drainer' = drainer
    BY <1>1, <1>3 DEF Last
  <2>2. drainer # "absent" /\ Flow
    BY <1>1 DEF IInv, Flow
  <2>3. QED
    BY <2>1, <2>2 DEF Flow
<1>11. Ending'
  <2>1. Ending /\ drainer' = drainer
    BY <1>1 DEF IInv
  <2>2. CASE drainer # "done"
    <3>1. closing = <<>> /\ \A j \in DOMAIN queue : queue[j].kind \notin Last
      BY <2>1, <2>2 DEF Ending
    <3>2. event.kind \notin Last
      BY <1>2, <3>1
    <3>3. closing' = <<>> /\ client' = "relay"
      BY <1>1, <1>3, <3>1, <3>2
    <3>4. \A j \in DOMAIN rest : rest[j].kind \notin Last
      BY <1>2, <3>1
    <3>5. Len(<<>>) # 2
      OBVIOUS
    <3>6. QED
      BY <1>1, <2>1, <2>2, <3>3, <3>4, <3>5 DEF Ending
  <2>3. CASE drainer = "done" /\ closing = <<>>
    <3>1. /\ Len(queue) >= 2
          /\ queue[Len(queue)].kind = "sentinel"
          /\ queue[Len(queue) - 1].kind = "top_deals"
          /\ \A j \in DOMAIN queue : j < Len(queue) - 1 => queue[j].kind \notin Last
      BY <2>1, <2>3 DEF Ending
    <3>2. CASE Len(queue) = 2
      <4>1. event.kind = "top_deals" /\ Len(rest) = 1 /\ rest[1].kind = "sentinel"
        BY <1>2, <3>1, <3>2
      <4>2. closing' = <<"top_deals">> /\ client' = "relay"
        BY <1>1, <1>3, <2>3, <4>1
      <4>3. Len(<<"top_deals">>) # 2
        OBVIOUS
      <4>4. QED
        BY <1>1, <2>1, <2>3, <4>1, <4>2, <4>3 DEF Ending
    <3>3. CASE Len(queue) # 2
      <4>1. Len(queue) > 2 /\ event.kind \notin Last
        BY <1>2, <3>1, <3>3
      <4>2. closing' = <<>> /\ client' = "relay" /\ Len(<<>>) # 2
        BY <1>1, <1>3, <2>3, <4>1
      <4>3. /\ Len(rest) >= 2
            /\ rest[Len(rest)].kind = "sentinel"
            /\ rest[Len(rest) - 1].kind = "top_deals"
            /\ \A j \in DOMAIN rest : j < Len(rest) - 1 => rest[j].kind \notin Last
        BY <1>2, <3>1, <4>1
      <4>4. QED
        BY <1>1, <2>1, <2>3, <4>2, <4>3 DEF Ending
    <3>4. QED
      BY <3>2, <3>3
  <2>4. CASE drainer = "done" /\ closing # <<>>
    <3>1. \/ closing = <<"top_deals">> /\ Len(queue) = 1 /\ queue[1].kind = "sentinel"
          \/ closing = <<"top_deals", "done">> /\ queue = <<>>
      BY <2>1, <2>4 DEF Ending
    <3>2. closing = <<"top_deals">> /\ Len(queue) = 1 /\ event.kind = "sentinel"
      BY <1>1, <1>2, <3>1
    <3>3. closing' = <<"top_deals", "done">> /\ client' = "done"
      BY <1>3, <3>2
    <3>4. rest = <<>>
      BY <1>2, <3>2, EmptySeq
    <3>5. Len(<<"top_deals", "done">>) = 2
      OBVIOUS
    <3>6. QED
      BY <1>1, <2>1, <2>4, <3>3, <3>4, <3>5 DEF Ending
  <2>5. QED
    BY <2>2, <2>3, <2>4
<1>12. QED
  BY <1>7, <1>8, <1>9, <1>10, <1>11 DEF IInv

-----------------------------------------------------------------------------
(***************************************************************************)
(* The theorems.                                                           *)
(***************************************************************************)

LEMMA NextKeeps == IInv /\ [Next]_vars => IInv'
<1> SUFFICES ASSUME IInv, [Next]_vars
             PROVE  IInv'
  OBVIOUS
<1>1. CASE UNCHANGED vars
  <2>1. /\ req' = req /\ cache' = cache /\ stale' = stale /\ drive' = drive
        /\ drainer' = drainer /\ queue' = queue /\ client' = client /\ sent' = sent
        /\ closing' = closing
    BY <1>1 DEF vars
  <2>2. TypeOK'
    BY <2>1 DEF IInv, TypeOK
  <2>3. Tasks' /\ Stores'
    BY <2>1 DEF IInv, Tasks, Stores, Region
  <2>4. Flow' /\ Ending'
    BY <2>1 DEF IInv, Flow, Ending
  <2>5. QED
    BY <2>2, <2>3, <2>4 DEF IInv
<1>2. CASE Normalize \/ Clarify \/ Disconnect \/ Close
  BY <1>2, ClientKeeps
<1>3. CASE Relay
  BY <1>3, RelayKeeps
<1>4. CASE Drain
  BY <1>4, DrainKeeps
<1>5. CASE \E s \in Sources : DriveStep(s)
  BY <1>5, DriveKeeps
<1>6. QED
  BY <1>1, <1>2, <1>3, <1>4, <1>5 DEF Next

LEMMA Invariant == Spec => []IInv
BY InitInv, NextKeeps, PTL DEF Spec

\* The variables stay in their types, whatever the number of sources and
\* offers: the events in the queue are events, and the lists offers.
THEOREM TypesKept == Spec => []TypeOK
<1>1. IInv => TypeOK
  BY DEF IInv
<1>2. QED
  BY <1>1, Invariant, PTL

\* What the client is told of a source is in order: that it started, its
\* offers, that it is finished; the ranking after all of that, `done` last.
THEOREM ToldInOrder == Spec => []WellFormed
<1>1. ASSUME IInv
      PROVE  WellFormed
  <2>1. \A s \in Sources : \A i \in DOMAIN sent[s] :
          /\ IsKind(s, i, "source_started") <=> i = 1
          /\ IsKind(s, i, "source_finished") => i = Len(sent[s])
    BY <1>1 DEF IInv, Tasks, Task, Ordered, IsKind
  <2>2. ASSUME closing # <<>>, NEW s \in Sources
        PROVE  FinishedAt(s, Len(sent[s]))
    <3>1. drainer = "done"
      BY <1>1, <2>2 DEF IInv, Ending
    <3>2. drive[s].pc = "finished"
      BY <1>1, <3>1 DEF IInv, Flow
    <3>3. Final(sent[s], queue, s)
      BY <1>1, <3>2 DEF IInv, Tasks, Task
    <3>4. \A j \in DOMAIN queue : ~Of(queue[j], s)
      <4>1. \/ Len(queue) = 1 /\ queue[1].kind = "sentinel"
            \/ queue = <<>>
        BY <1>1, <2>2, <3>1 DEF IInv, Ending
      <4>2. queue \in Seq(Event)
        BY <1>1 DEF IInv, TypeOK
      <4>3. DOMAIN queue = 1 .. Len(queue)
        BY <4>2, LenProperties
      <4>4. CASE queue = <<>>
        <5>1. DOMAIN queue = {}
          BY <4>4
        <5>2. QED
          BY <5>1
      <4>5. CASE Len(queue) = 1 /\ queue[1].kind = "sentinel"
        BY <4>3, <4>5 DEF Of
      <4>6. QED
        BY <4>1, <4>4, <4>5
    <3>5. PICK i \in DOMAIN sent[s] : sent[s][i].kind = "source_finished"
      BY <3>3, <3>4 DEF Final
    <3>6. i = Len(sent[s])
      BY <2>1, <3>5 DEF IsKind
    <3>7. QED
      BY <3>5, <3>6 DEF FinishedAt, IsKind
  <2>3. closing \in {<<>>, <<"top_deals">>, <<"top_deals", "done">>}
    BY <1>1 DEF IInv, Ending
  <2>4. client = "done" <=> Len(closing) = 2
    BY <1>1 DEF IInv, Ending
  <2>5. QED
    BY <2>1, <2>2, <2>3, <2>4 DEF WellFormed
<1>2. QED
  BY <1>1, Invariant, PTL

\* What is streamed for a source that is finished is what its group lists,
\* however the offers were come by.
THEOREM StreamAndGroup == Spec => []StreamAgrees
<1>1. ASSUME IInv
      PROVE  StreamAgrees
  <2> SUFFICES ASSUME NEW s \in Sources, NEW i \in DOMAIN sent[s], FinishedAt(s, i),
                      ~sent[s][i].error, ~drive[s].retried
               PROVE  /\ Streamed(s) = Listed(s)
                      /\ sent[s][i].count = Cardinality(Streamed(s))
    BY DEF StreamAgrees
  <2> DEFINE d == drive[s]
             l == sent[s]
             n == Len(d.result.offers)
  <2>1. Task(d, l, queue, s, Region)
    BY <1>1 DEF IInv, Tasks
  <2>2. l[i].kind = "source_finished"
    BY DEF FinishedAt, IsKind
  <2>3. \A j \in DOMAIN queue : ~Of(queue[j], s)
    BY <2>1, <2>2 DEF Task, Ordered
  <2>4. l[i].count = n /\ l[i].error = d.result.error
    BY <2>1, <2>2 DEF Task, FinalIs
  <2>5. d.pc = "finished"
    BY <2>1, <2>2 DEF Task, Final
  <2>6. OutOf(l, queue, s) = Upto(n, Region)
    BY <2>1, <2>4, <2>5 DEF Task, Content
  <2>7. Streamed(s) = OutOf(l, queue, s)
    <3>1. {j \in DOMAIN queue : Of(queue[j], s) /\ queue[j].kind = "offer"} = {}
      BY <2>3
    <3>2. OutOf(l, queue, s) = {l[k].offer : k \in {k \in DOMAIN l : l[k].kind = "offer"}}
      BY <3>1 DEF OutOf
    <3>3. QED
      BY <3>2 DEF Streamed, IsKind
  <2>8. Listed(s) = Upto(n, Region) /\ n \in Nat
    <3>1. Good(d.result.offers, Region)
      BY <2>1 DEF Task
    <3>2. QED
      BY <3>1, GoodRange DEF Listed
  <2>9. Cardinality(Upto(n, Region)) = n
    BY <2>8, UptoSize
  <2>10. QED
    BY <2>4, <2>6, <2>7, <2>8, <2>9
<1>2. QED
  BY <1>1, Invariant, PTL

\* No offer in a group or in Redis is adjusted for the region twice, or
\* left as it was scraped.
THEOREM PricedOnce == Spec => []AdjustedOnce
<1>1. ASSUME NEW offers, Good(offers, Region)
      PROVE  \A k \in DOMAIN offers :
               offers[k].scored /\ offers[k].adj = IF req.regional THEN 1 ELSE 0
  BY <1>1 DEF Good, Sold, Region
<1>2. ASSUME IInv
      PROVE  AdjustedOnce
  <2>1. \A s \in Sources : /\ Good(cache[s].offers, Region) /\ Good(stale[s].offers, Region)
                           /\ Good(drive[s].result.offers, Region)
    BY <1>2, Known
  <2>2. QED
    BY <1>1, <2>1 DEF AdjustedOnce
<1>3. QED
  BY <1>2, Invariant, PTL

\* A step of the client's or the drainer's leaves the scrapes alone, and one
\* of a scrape the others.
LEMMA OneMoves ==
  ASSUME IInv, Next, NEW s \in Sources, drive'[s] # drive[s]
  PROVE  DriveStep(s)
<1>1. drive' # drive /\ drive \in [Sources -> Drive]
  BY DEF IInv, TypeOK
<1>2. PICK t \in Sources : DriveStep(t)
  BY <1>1 DEF Next, Normalize, Clarify, Relay, Disconnect, Close, Drain
<1>3. \A u \in Sources : u # t => drive'[u] = drive[u]
  <2>1. \E d : drive' = [drive EXCEPT ![t] = d]
    <3>1. CASE Start(t) \/ LookupMiss(t) \/ LookupOld(t) \/ Granted(t) \/ StaleOld(t)
                 \/ SetCache(t) \/ Cancelled(t)
      BY <3>1 DEF Start, LookupMiss, LookupOld, Granted, StaleOld, SetCache, Cancelled,
                  Goto, Raise
    <3>2. CASE LookupHit(t) \/ StaleHit(t) \/ StaleMiss(t) \/ SetStale(t) \/ SetFails(t)
      BY <3>2 DEF LookupHit, StaleHit, StaleMiss, SetStale, SetFails, Finish
    <3>3. CASE AdapterEmits(t)
      BY <3>3 DEF AdapterEmits
    <3>4. CASE AdapterReturns(t) \/ AdapterFails(t) \/ RetryReturns(t) \/ RetryFails(t)
      BY <3>4 DEF AdapterReturns, AdapterFails, RetryReturns, RetryFails, Settle, Finish
    <3>5. QED
      BY <1>2, <3>1, <3>2, <3>3, <3>4 DEF DriveStep
  <2>2. QED
    BY <1>1, <2>1
<1>4. QED
  BY <1>2, <1>3

\* Once the stream is over each of its scrapes is told to end, but for the
\* one that swallowed its cancellation, which looks for a stale copy at most:
\* however many sources there are, and wherever they stood.
THEOREM EndIsTheEnd == Spec => NothingAfterEnd
<1>1. ASSUME IInv, Next, Ended, drainer # "failed", NEW s \in Sources, drive'[s] # drive[s]
      PROVE  Leaves(s)
  <2>1. DriveStep(s) /\ drive \in [Sources -> Drive]
    BY <1>1, OneMoves DEF IInv, TypeOK
  <2>2. drainer # "gather"
    <3>1. client = "done" => drainer = "done"
      <4>1. Len(<<>>) # 2
        OBVIOUS
      <4>2. QED
        BY <1>1, <4>1 DEF IInv, Ending
    <3>2. QED
      BY <1>1, <3>1 DEF IInv, Flow, Ended
  <2>3. \A pc \in Active : Runs(s, pc) => s = WB /\ pc = "serve" /\ drive[s].pc = pc
    BY <1>1, <2>2, DeafServes DEF Runs
  <2>4. \/ Cancelled(s)
        \/ AdapterFails(s) /\ Swallows(s, "search")
        \/ RetryFails(s) /\ Swallows(s, "retry")
        \/ s = WB /\ drive[s].pc = "serve" /\ (StaleHit(s) \/ StaleMiss(s) \/ StaleOld(s))
    <3>1. {"start", "lookup", "limit", "search", "retry", "serve", "set", "setstale"}
            \subseteq Active
      BY DEF Active
    <3>2. ~(Start(s) \/ LookupHit(s) \/ LookupMiss(s) \/ LookupOld(s) \/ Granted(s))
      BY <2>3, <3>1 DEF Start, LookupHit, LookupMiss, LookupOld, Granted
    <3>3. ~(AdapterEmits(s) \/ AdapterReturns(s) \/ RetryReturns(s))
      BY <2>3, <3>1 DEF AdapterEmits, AdapterReturns, RetryReturns
    <3>4. ~(SetCache(s) \/ SetStale(s) \/ SetFails(s))
      BY <2>3, <3>1 DEF SetCache, SetStale, SetFails
    <3>5. AdapterFails(s) => Swallows(s, "search")
      BY <2>3, <3>1 DEF AdapterFails
    <3>6. RetryFails(s) => Swallows(s, "retry")
      BY <2>3, <3>1 DEF RetryFails
    <3>7. StaleHit(s) \/ StaleMiss(s) \/ StaleOld(s) => s = WB /\ drive[s].pc = "serve"
      BY <2>3, <3>1 DEF StaleHit, StaleMiss, StaleOld
    <3>8. QED
      BY <2>1, <3>2, <3>3, <3>4, <3>5, <3>6, <3>7 DEF DriveStep
  <2>5. CASE Cancelled(s)
    <3>1. drive[s].pc \in Active /\ Goto(s, "cancelled") /\ "cancelled" \in Pc
      BY <2>5 DEF Cancelled, Pc
    <3>2. drive'[s].pc = "cancelled"
      BY <2>1, <3>1 DEF Goto, Drive
    <3>3. QED
      BY <3>1, <3>2 DEF Leaves, Steps
  <2>6. CASE \/ AdapterFails(s) /\ Swallows(s, "search")
             \/ RetryFails(s) /\ Swallows(s, "retry")
    <3>1. s = WB /\ drive[s].pc \in {"search", "retry"}
      BY <2>6 DEF Swallows
    <3>2. Settle(s, Failed) \/ Settle(s, NoResult)
      BY <2>6 DEF AdapterFails, RetryFails
    <3>3. drive'[s].pc \in {"serve", "finished"}
      BY <2>1, <3>2, FixedResults DEF Settle, Finish, Drive
    <3>4. QED
      BY <3>1, <3>3 DEF Leaves, Steps
  <2>7. CASE s = WB /\ drive[s].pc = "serve" /\ (StaleHit(s) \/ StaleMiss(s) \/ StaleOld(s))
    <3>1. drive'[s].pc \in {"finished", "raised"}
      BY <2>1, <2>7 DEF StaleHit, StaleMiss, StaleOld, Finish, Raise, Goto, Drive
    <3>2. QED
      BY <2>7, <3>1 DEF Leaves, Steps
  <2>8. QED
    BY <2>4, <2>5, <2>6, <2>7
<1>2. IInv /\ [Next]_vars =>
        [Ended /\ drainer # "failed" =>
           \A s \in Sources : drive'[s] # drive[s] => Leaves(s)]_vars
  BY <1>1
<1>3. QED
  BY <1>2, Invariant, PTL DEF Spec, NothingAfterEnd

\* Only a fresh, non-empty answer is ever written to Redis.
THEOREM OnlyAnswersCached == Spec => CacheKeepsAnswers
<1>1. ASSUME IInv, [Next]_vars, NEW s \in Sources,
             cache'[s] # cache[s] \/ stale'[s] # stale[s]
      PROVE  /\ drive[s].result.offers # <<>>
             /\ ~drive[s].result.error /\ ~drive[s].result.cached
  <2>1. PICK t \in Sources : SetCache(t) \/ SetStale(t) \/ SetFails(t) \/ Cancelled(t)
    <3>1. ~UNCHANGED redisVars
      BY <1>1 DEF redisVars
    <3>2. PICK t \in Sources : DriveStep(t)
      BY <1>1, <3>1 DEF Next, vars, redisVars, Normalize, Clarify, Relay, Disconnect, Close, Drain
    <3>3. ~(Start(t) \/ LookupHit(t) \/ LookupMiss(t) \/ LookupOld(t) \/ Granted(t))
      BY <3>1 DEF Start, LookupHit, LookupMiss, LookupOld, Granted
    <3>4. ~(AdapterEmits(t) \/ AdapterReturns(t) \/ AdapterFails(t) \/ RetryReturns(t)
              \/ RetryFails(t))
      BY <3>1 DEF AdapterEmits, AdapterReturns, AdapterFails, RetryReturns, RetryFails
    <3>5. ~(StaleHit(t) \/ StaleMiss(t) \/ StaleOld(t))
      BY <3>1 DEF StaleHit, StaleMiss, StaleOld
    <3>6. QED
      BY <3>2, <3>3, <3>4, <3>5 DEF DriveStep
  <2>2. cache \in [Sources -> Entry] /\ stale \in [Sources -> Entry]
    BY <1>1 DEF IInv, TypeOK
  <2>3. t = s
    <3>1. \/ cache' = cache
          \/ cache' = [cache EXCEPT ![t] = Payload(drive[t].result.offers)]
      BY <2>1 DEF SetCache, SetStale, SetFails, Cancelled, WriteCache, WriteStale, redisVars
    <3>2. \/ stale' = stale
          \/ stale' = [stale EXCEPT ![t] = Payload(drive[t].result.offers)]
      BY <2>1 DEF SetCache, SetStale, SetFails, Cancelled, WriteCache, WriteStale, redisVars
    <3>3. QED
      BY <1>1, <2>2, <3>1, <3>2
  <2>4. drive[s].pc \in {"set", "setstale"}
    <3>1. cache' # cache \/ stale' # stale
      BY <1>1
    <3>2. QED
      BY <2>1, <2>3, <3>1 DEF SetCache, SetStale, SetFails, Cancelled, Runs, redisVars
  <2>5. Content(drive[s], OutOf(sent[s], queue, s), Region)
    BY <1>1, Known
  <2>6. QED
    BY <2>4, <2>5 DEF Content
<1>2. IInv /\ [Next]_vars =>
        [\A s \in Sources :
           cache'[s] # cache[s] \/ stale'[s] # stale[s] =>
             LET res == drive[s].result
             IN  res.offers # <<>> /\ ~res.error /\ ~res.cached]_vars
  BY <1>1
<1>3. QED
  BY <1>2, Invariant, PTL DEF Spec, CacheKeepsAnswers

=============================================================================
