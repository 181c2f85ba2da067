--------------------------- MODULE Sources_proofs ---------------------------
(***************************************************************************)
(* Proofs about the adapters of Sources, for any number of products,       *)
(* shards, cards, pages and results, while all of them move.               *)
(***************************************************************************)
EXTENDS Sources, FiniteSetTheorems, SequenceTheorems, TLAPS

USE MaxSlotsAssumption

\* A set of natural numbers that is not empty has a least element.
LEMMA LeastOf ==
  ASSUME NEW T \in SUBSET Nat, T # {}
  PROVE  \E x \in T : \A y \in T : x <= y
<1>1. IsWellFoundedOn(OpToRel(<, Nat), Nat)
  BY NatLessThanWellFounded
<1>2. PICK x \in T : \A y \in T : ~(<<y, x>> \in OpToRel(<, Nat))
  BY <1>1, WFMin
<1>3. \A y \in T : ~(y < x)
  BY <1>2 DEF OpToRel
<1> QED
  BY <1>3

-----------------------------------------------------------------------------
(***************************************************************************)
(* The list an adapter makes, and what the orchestrator sees of it.        *)
(***************************************************************************)

\* Just what is listed was reported, and nothing that is yet to be looked at.
ListFine(l) ==
  /\ l \in Listing
  /\ l.out = l.emitted
  /\ \A o \in Slots : l.next <= o => l.out[o] = 0

\* What an adapter's step may do to its list: nothing, list the next result,
\* pass it over, end, or begin anew.
ListStep(l, m) ==
  \/ m = l
  \/ l.outcome = "none" /\ l.next \in Slots /\ m = Listed(l)
  \/ m = PassedOver(l)
  \/ l.outcome = "none" /\ \E outcome \in {"offers", "error"} : m = Ended(l, outcome)
  \/ m = NewListing

LEMMA NewListFine == ListFine(NewListing)
BY DEF ListFine, NewListing, Nothing, Listing

LEMMA ListedFine ==
  ASSUME NEW l, ListFine(l), l.next \in Slots
  PROVE  /\ ListFine(Listed(l))
         /\ Listed(l).out = [l.out EXCEPT ![l.next] = 1]
         /\ Listed(l).outcome = l.outcome
<1>1. l.out[l.next] = 0 /\ l.out \in [Slots -> 0 .. 1] /\ l.next \in Nat \ {0}
  BY DEF ListFine, Listing, Slots
<1>2. l.emitted = l.out /\ l.outcome \in {"none", "offers", "error"}
  BY DEF ListFine, Listing
<1>3. [l.out EXCEPT ![l.next] = @ + 1] = [l.out EXCEPT ![l.next] = 1]
  BY <1>1
<1>4. \A o \in Slots : l.next + 1 <= o => [l.out EXCEPT ![l.next] = 1][o] = 0
  BY <1>1 DEF ListFine, Slots
<1>5. [l.out EXCEPT ![l.next] = 1] \in [Slots -> 0 .. 1]
  BY <1>1
<1>6. QED
  BY <1>1, <1>2, <1>3, <1>4, <1>5 DEF ListFine, Listing, Listed

LEMMA PassedFine ==
  ASSUME NEW l, ListFine(l)
  PROVE  /\ ListFine(PassedOver(l))
         /\ PassedOver(l).out = l.out /\ PassedOver(l).emitted = l.emitted
         /\ PassedOver(l).outcome = l.outcome /\ PassedOver(l).next = l.next + 1
BY DEF ListFine, Listing, PassedOver, Slots

LEMMA EndedFine ==
  ASSUME NEW l, ListFine(l), NEW outcome \in {"offers", "error"}
  PROVE  /\ ListFine(Ended(l, outcome))
         /\ Ended(l, outcome).out = l.out /\ Ended(l, outcome).emitted = l.emitted
         /\ Ended(l, outcome).outcome = outcome /\ Ended(l, outcome).next = l.next
BY DEF ListFine, Listing, Ended

LEMMA ListStays ==
  ASSUME NEW l, NEW m, ListFine(l), ListStep(l, m)
  PROVE  ListFine(m)
<1>1. CASE l.next \in Slots /\ m = Listed(l)
  BY <1>1, ListedFine
<1>2. CASE m = PassedOver(l)
  BY <1>2, PassedFine
<1>3. CASE \E outcome \in {"offers", "error"} : m = Ended(l, outcome)
  BY <1>3, EndedFine
<1>4. QED
  BY <1>1, <1>2, <1>3, NewListFine DEF ListStep

\* One adapter's step is a step of the protocol, or none that can be seen.
LEMMA StepShown ==
  ASSUME NEW a \in Adapters, NEW l, NEW m, ListFine(l), ListStep(l, m),
         searches = [b \in Adapters |-> searches[b]], searches[a] = Seen(l),
         searches' = [searches EXCEPT ![a] = Seen(m)]
  PROVE  [Listings!Next]_searches
<1>1. CASE Seen(m) = Seen(l)
  <2>1. searches' = searches
    BY <1>1
  <2>2. QED
    BY <2>1
<1>2. CASE l.outcome = "none" /\ l.next \in Slots /\ m = Listed(l)
  <2>1. m.emitted = [l.emitted EXCEPT ![l.next] = 1] /\ m.outcome = "none"
    BY <1>2, ListedFine DEF ListFine
  <2>2. l.emitted[l.next] = 0
    BY <1>2 DEF ListFine, Slots
  <2>3. Seen(m) = [Seen(l) EXCEPT !.emitted[l.next] = 1]
    BY <1>2, <2>1 DEF Seen
  <2>4. searches[a].outcome = "none" /\ searches[a].emitted[l.next] = 0
    BY <1>2, <2>2 DEF Seen
  <2>5. searches' = [searches EXCEPT ![a].emitted[l.next] = 1]
    BY <2>3
  <2>6. QED
    BY <1>2, <2>4, <2>5 DEF Listings!Next, Listings!Emit
<1>3. ASSUME l.outcome = "none", m = Ended(l, "offers")
      PROVE  Listings!Return(a)
  <2>1. m.emitted = l.emitted /\ m.outcome = "offers" /\ m.out = l.emitted
    BY <1>3, EndedFine DEF ListFine
  <2>2. Seen(m) = [emitted |-> l.emitted, outcome |-> "offers", returned |-> l.emitted]
    BY <2>1 DEF Seen
  <2>3. searches[a].outcome = "none" /\ searches[a].emitted = l.emitted
    BY <1>3 DEF Seen
  <2>4. QED
    BY <2>2, <2>3 DEF Listings!Return
<1>4. ASSUME l.outcome = "none", m = Ended(l, "error")
      PROVE  Listings!Fail(a)
  <2>1. m.emitted = l.emitted /\ m.outcome = "error"
    BY <1>4, EndedFine
  <2>2. Seen(m) = [Seen(l) EXCEPT !.outcome = "error"]
    BY <1>4, <2>1 DEF Seen
  <2>3. searches[a].outcome = "none"
    BY <1>4 DEF Seen
  <2>4. QED
    BY <2>2, <2>3 DEF Listings!Fail
<1>5. ASSUME m = NewListing
      PROVE  Listings!Restart
  <2>1. Seen(m) = Listings!NoSearch
    BY <1>5 DEF Seen, NewListing, Nothing, Listings!NoSearch, Listings!Never
  <2>2. searches' = [b \in Adapters |-> IF b \in {a} THEN Listings!NoSearch ELSE searches[b]]
    BY <2>1
  <2>3. QED
    BY <2>2 DEF Listings!Restart
<1>6. CASE m = PassedOver(l)
  <2>1. Seen(m) = Seen(l)
    BY <1>6, PassedFine DEF Seen
  <2>2. QED
    BY <2>1, <1>1
<1>7. QED
  BY <1>1, <1>2, <1>3, <1>4, <1>5, <1>6 DEF ListStep, Listings!Next

-----------------------------------------------------------------------------
(***************************************************************************)
(* The shards of a card, for any table: each is asked once, and together   *)
(* they are the computed one and those around it.                          *)
(***************************************************************************)

LEMMA ProductFacts ==
  ASSUME NEW p \in Products
  PROVE  /\ p \in Product /\ p.vol \in Nat /\ p.home \in Nat
         /\ p.odd \in BOOLEAN /\ p.refused \in BOOLEAN
BY ProductsAssumption DEF Product

LEMMA BasketIsInt ==
  ASSUME NEW vol \in Nat
  PROVE  BasketFor(vol) \in Int
<1> DEFINE last == Len(Table)
           within == {s \in 1 .. last : vol <= Table[s]}
<1>1. last \in Nat \ {0} /\ Table[last] \in Nat
  BY TableAssumption, LenProperties
<1>2. within \in SUBSET Nat /\ within \subseteq Int
  BY <1>1
<1>3. CASE within # {}
  <2>1. \E x \in within : \A y \in within : x <= y
    BY <1>2, <1>3, LeastOf
  <2>2. (CHOOSE s \in within : \A t \in within : s <= t) \in within
    BY <2>1
  <2>3. QED
    BY <1>2, <1>3, <2>2 DEF BasketFor
<1>4. CASE within = {}
  <2>1. BasketFor(vol) = last + 1 + (vol - Table[last]) \div Width
    BY <1>4 DEF BasketFor
  <2>2. QED
    BY <1>1, <2>1, WBNumbersAssumption
<1>5. QED
  BY <1>3, <1>4

LEMMA ShardIs ==
  ASSUME NEW p \in Products, NEW t \in Nat
  PROVE  /\ BasketFor(p.vol) \in Int /\ Shard(p, t) \in Int
         /\ \/ \E h \in Nat : t = 2 * h /\ Shard(p, t) = BasketFor(p.vol) - h
            \/ \E h \in Nat : t = 2 * h + 1 /\ Shard(p, t) = BasketFor(p.vol) + h + 1
<1>1. BasketFor(p.vol) \in Int
  BY BasketIsInt, ProductFacts
<1> DEFINE b == BasketFor(p.vol)
<1> HIDE DEF b
<1>2. CASE t % 2 = 1
  <2> DEFINE h == t \div 2
  <2>1. h \in Nat /\ t = 2 * h + 1 /\ (t + 1) \div 2 = h + 1
    BY <1>2
  <2>2. Shard(p, t) = b + h + 1
    BY <1>1, <1>2, <2>1 DEF Shard, b
  <2>3. QED
    BY <1>1, <2>1, <2>2 DEF b
<1>3. CASE t % 2 # 1
  <2> DEFINE h == t \div 2
  <2>1. h \in Nat /\ t = 2 * h
    BY <1>3
  <2>2. Shard(p, t) = b - h
    BY <1>1, <1>3, <2>1 DEF Shard, b
  <2>3. QED
    BY <1>1, <2>1, <2>2 DEF b
<1>4. QED
  BY <1>2, <1>3

LEMMA ShardsDiffer ==
  ASSUME NEW p \in Products, NEW t \in Nat, NEW u \in Nat, Shard(p, t) = Shard(p, u)
  PROVE  t = u
BY ShardIs

\* The card lies on a shard that fetch_card asks.
AtHome(p) == \E t \in Tries(p) : Shard(p, t) = p.home

LEMMA ReachedIsTried ==
  ASSUME NEW p \in Products
  PROVE  Reached(p) <=> AtHome(p)
<1> DEFINE b == BasketFor(p.vol)
<1>1. b \in Int /\ p.home \in Nat /\ Reach \in Nat /\ MaxShard \in Nat
  BY BasketIsInt, ProductFacts, WBNumbersAssumption
<1>2. 0 \in Tries(p) /\ Shard(p, 0) = b
  <2>1. Shard(p, 0) = b
    BY <1>1, ShardIs
  <2>2. QED
    BY <1>1, <2>1 DEF Tries
<1> HIDE DEF b
<1>3. ASSUME NEW t \in Tries(p), Shard(p, t) = p.home
      PROVE  Reached(p)
  <2>1. CASE t = 0
    BY <1>2, <1>3, <2>1 DEF Reached, b
  <2>2. CASE t # 0
    <3>1. t \in Nat /\ t <= 2 * Reach /\ p.home \in 1 .. MaxShard
      BY <1>1, <1>3, <2>2 DEF Tries
    <3>2. \/ \E h \in Nat : t = 2 * h /\ p.home = b - h
          \/ \E h \in Nat : t = 2 * h + 1 /\ p.home = b + h + 1
      BY <1>3, <3>1, ShardIs DEF b
    <3>3. p.home - b \in - Reach .. Reach
      BY <1>1, <3>1, <3>2
    <3>4. QED
      BY <3>1, <3>3 DEF Reached, b
  <2>3. QED
    BY <2>1, <2>2
<1>4. ASSUME Reached(p)
      PROVE  AtHome(p)
  <2>1. CASE p.home = b
    BY <1>2, <2>1 DEF AtHome
  <2>2. CASE p.home \in 1 .. MaxShard /\ p.home - b \in - Reach .. Reach
    <3>1. CASE p.home > b
      <4> DEFINE t == 2 * (p.home - b) - 1
      <4>1. t \in 0 .. 2 * Reach
        BY <1>1, <2>2, <3>1
      <4>2. Shard(p, t) = p.home
        BY <1>1, <4>1, ShardIs DEF b
      <4>3. t \in Tries(p)
        BY <2>2, <4>1, <4>2 DEF Tries
      <4>4. QED
        BY <4>2, <4>3 DEF AtHome
    <3>2. CASE p.home <= b
      <4> DEFINE t == 2 * (b - p.home)
      <4>1. t \in 0 .. 2 * Reach
        BY <1>1, <2>2, <3>2
      <4>2. Shard(p, t) = p.home
        BY <1>1, <4>1, ShardIs DEF b
      <4>3. t \in Tries(p)
        BY <2>2, <4>1, <4>2 DEF Tries
      <4>4. QED
        BY <4>2, <4>3 DEF AtHome
    <3>3. QED
      BY <1>1, <3>1, <3>2
  <2>3. QED
    BY <1>4, <2>1, <2>2 DEF Reached, b
<1>5. QED
  BY <1>3, <1>4 DEF AtHome

\* The next try is the first of those that are left.
LEMMA NextTryIs ==
  ASSUME NEW p \in Products, NEW try \in Nat, \E t \in Tries(p) : t > try
  PROVE  /\ NextTry(p, try) \in Tries(p) /\ NextTry(p, try) > try
         /\ \A u \in Tries(p) : u > try => NextTry(p, try) <= u
<1> DEFINE left == {t \in Tries(p) : t > try}
<1>1. left \in SUBSET Nat /\ left # {}
  BY WBNumbersAssumption DEF Tries
<1>2. \E x \in left : \A y \in left : x <= y
  BY <1>1, LeastOf
<1>3. \E t \in Tries(p) : t > try /\ \A u \in Tries(p) : u > try => t <= u
  BY <1>2
<1>4. QED
  BY <1>3 DEF NextTry

-----------------------------------------------------------------------------
(***************************************************************************)
(* Wildberries.                                                            *)
(***************************************************************************)

\* What the enrichment of product p has come to, of which r is the state: as
\* long as it has no card, and has lost none, none of the shards it has asked
\* is the one with the card.
TaskFine(p, r) ==
  /\ r \in Task
  /\ r.at = "queued" => r.try = 0 /\ ~r.carded /\ ~r.lost
  /\ r.at = "card" => r.try \in Tries(p) /\ ~r.carded
  /\ r.at = "card" /\ ~r.lost => \A t \in Tries(p) : t < r.try => Shard(p, t) # p.home
  /\ r.at = "card" /\ r.lost => \E t \in Tries(p) : t < r.try /\ Shard(p, t) = p.home
  /\ r.lost => ~r.carded /\ AtHome(p)
  /\ r.carded => ~p.odd /\ AtHome(p)
  /\ r.at = "crashed" => ~r.lost /\ ~r.carded /\ p.odd /\ AtHome(p)
  /\ r.at \in {"reviews", "ended"} /\ ~r.carded /\ ~r.lost => ~AtHome(p)

LEMMA NewTaskFine ==
  ASSUME NEW p \in Products
  PROVE  TaskFine(p, NewTask)
BY WBNumbersAssumption DEF TaskFine, NewTask, Task

LEMMA CardDoneFine ==
  ASSUME NEW p \in Products, NEW r \in Task,
         r.lost => ~r.carded /\ AtHome(p),
         r.carded => ~p.odd /\ AtHome(p),
         ~r.carded /\ ~r.lost => ~AtHome(p)
  PROVE  TaskFine(p, CardDone(p, r))
<1> DEFINE d == CardDone(p, r)
<1>1. /\ d \in Task /\ d.at \in {"reviews", "ended"}
      /\ d.lost = r.lost /\ d.carded = r.carded
  BY DEF CardDone, Task
<1> HIDE DEF d
<1>2. TaskFine(p, d)
  BY <1>1 DEF TaskFine
<1>3. QED
  BY <1>2 DEF d

LEMMA ElsewhereFine ==
  ASSUME NEW p \in Products, NEW r \in Task, r.at = "card", r.try \in Tries(p), ~r.carded,
         r.lost => \E t \in Tries(p) : t <= r.try /\ Shard(p, t) = p.home,
         ~r.lost => \A t \in Tries(p) : t <= r.try => Shard(p, t) # p.home
  PROVE  TaskFine(p, Elsewhere(p, r))
<1>1. Tries(p) \subseteq Nat /\ Tries(p) \subseteq 0 .. 2 * Reach
  BY WBNumbersAssumption DEF Tries
<1>2. r.lost => AtHome(p)
  BY DEF AtHome
<1>3. CASE \E t \in Tries(p) : t > r.try
  <2> DEFINE n == NextTry(p, r.try)
             d == [r EXCEPT !.try = n]
  <2>1. n \in Tries(p) /\ n > r.try /\ \A u \in Tries(p) : u > r.try => n <= u
    BY <1>1, <1>3, NextTryIs
  <2>2. Elsewhere(p, r) = d
    BY <1>3 DEF Elsewhere
  <2> HIDE DEF n
  <2>3. /\ d \in Task /\ d.at = "card" /\ d.try = n /\ d.carded = r.carded
        /\ d.lost = r.lost
    BY <1>1, <2>1 DEF Task
  <2> HIDE DEF d
  <2>4. \A t \in Tries(p) : t < n <=> t <= r.try
    BY <1>1, <2>1
  <2>5. TaskFine(p, d)
    BY <1>2, <2>1, <2>3, <2>4 DEF TaskFine
  <2>6. QED
    BY <2>2, <2>5
<1>4. CASE ~ \E t \in Tries(p) : t > r.try
  <2>1. Elsewhere(p, r) = CardDone(p, r)
    BY <1>4 DEF Elsewhere
  <2>2. \A t \in Tries(p) : t <= r.try
    BY <1>1, <1>4
  <2>3. ~r.lost => ~AtHome(p)
    BY <2>2 DEF AtHome
  <2>4. r.carded \in BOOLEAN /\ r.lost \in BOOLEAN
    BY DEF Task
  <2>5. QED
    BY <1>2, <2>1, <2>3, <2>4, CardDoneFine
<1>5. QED
  BY <1>3, <1>4

LEMMA AnswersFine ==
  ASSUME NEW p \in Products, NEW r, TaskFine(p, r), r.at = "card",
         NEW d \in ShardAnswers(p, r)
  PROVE  TaskFine(p, d)
<1>1. /\ r \in Task /\ r.try \in Tries(p) /\ ~r.carded /\ r.lost \in BOOLEAN
      /\ r.try \in Nat /\ Tries(p) \subseteq Nat
  BY WBNumbersAssumption DEF TaskFine, Task, Tries
<1>2. CASE Shard(p, r.try) # p.home
  <2>1. d = Elsewhere(p, r)
    BY <1>2 DEF ShardAnswers
  <2>2. r.lost => \E t \in Tries(p) : t <= r.try /\ Shard(p, t) = p.home
    BY <1>1 DEF TaskFine
  <2>3. ~r.lost => \A t \in Tries(p) : t <= r.try => Shard(p, t) # p.home
    <3> SUFFICES ASSUME ~r.lost, NEW t \in Tries(p), t <= r.try
                 PROVE  Shard(p, t) # p.home
      OBVIOUS
    <3>1. CASE t = r.try
      BY <1>2, <3>1
    <3>2. CASE t < r.try
      BY <3>2 DEF TaskFine
    <3>3. QED
      BY <1>1, <3>1, <3>2
  <2>4. QED
    BY <1>1, <2>1, <2>2, <2>3, ElsewhereFine
<1>3. CASE Shard(p, r.try) = p.home
  <2>1. ~r.lost
    <3>1. \A t \in Tries(p) : Shard(p, t) = p.home => t = r.try
      BY <1>1, <1>3, ShardsDiffer
    <3>2. \A t \in Tries(p) : t < r.try => t # r.try
      BY <1>1
    <3>3. QED
      BY <1>1, <3>1, <3>2 DEF TaskFine
  <2>2. AtHome(p)
    BY <1>1, <1>3 DEF AtHome
  <2>3. ASSUME d = Elsewhere(p, [r EXCEPT !.lost = TRUE])
        PROVE  TaskFine(p, d)
    <3> DEFINE l == [r EXCEPT !.lost = TRUE]
    <3>1. /\ l \in Task /\ l.at = "card" /\ l.try = r.try /\ l.carded = r.carded
          /\ l.lost = TRUE
      BY <1>1 DEF Task
    <3> HIDE DEF l
    <3>2. \E t \in Tries(p) : t <= l.try /\ Shard(p, t) = p.home
      BY <1>1, <1>3, <3>1
    <3>3. TaskFine(p, Elsewhere(p, l))
      BY <1>1, <3>1, <3>2, ElsewhereFine
    <3>4. QED
      BY <2>3, <3>3 DEF l
  <2>4. ASSUME d = [r EXCEPT !.at = "crashed"], p.odd
        PROVE  TaskFine(p, d)
    <3>1. d \in Task /\ d.at = "crashed" /\ d.carded = r.carded /\ d.lost = r.lost
      BY <1>1, <2>4 DEF Task
    <3>2. QED
      BY <1>1, <2>1, <2>2, <2>4, <3>1 DEF TaskFine
  <2>5. ASSUME d = CardDone(p, [r EXCEPT !.carded = TRUE]), ~p.odd
        PROVE  TaskFine(p, d)
    <3> DEFINE l == [r EXCEPT !.carded = TRUE]
    <3>1. l \in Task /\ l.carded = TRUE /\ l.lost = r.lost
      BY <1>1 DEF Task
    <3> HIDE DEF l
    <3>2. TaskFine(p, CardDone(p, l))
      BY <2>1, <2>2, <2>5, <3>1, CardDoneFine
    <3>3. QED
      BY <2>5, <3>2 DEF l
  <2>6. QED
    BY <1>3, <2>3, <2>4, <2>5 DEF ShardAnswers
<1>4. QED
  BY <1>2, <1>3

LEMMA ReviewsEndFine ==
  ASSUME NEW p \in Products, NEW r, TaskFine(p, r), r.at = "reviews"
  PROVE  TaskFine(p, ReviewsEnd(r))
<1>1. /\ ReviewsEnd(r) \in Task /\ ReviewsEnd(r).at = "ended"
      /\ ReviewsEnd(r).carded = r.carded /\ ReviewsEnd(r).lost = r.lost
  BY DEF TaskFine, Task, ReviewsEnd
<1>2. QED
  BY <1>1 DEF TaskFine

\* A task that has ended makes an offer just when its product's page and card do.
LEMMA OfferedIsDue ==
  ASSUME NEW p \in Products, NEW r, TaskFine(p, r), r.at \in {"ended", "crashed"}
  PROVE  LET there == Reached(p) /\ ~r.lost
         IN Offered(p, r) <=>
              /\ there => ~p.odd
              /\ ~p.refused
              /\ {"name", "price"} \subseteq p.page \cup (IF there THEN p.card ELSE {})
<1>1. Reached(p) <=> AtHome(p)
  BY ReachedIsTried
<1>2. r.carded \in BOOLEAN /\ r.lost \in BOOLEAN
  BY DEF TaskFine, Task
<1>3. CASE r.at = "crashed"
  BY <1>1, <1>3 DEF TaskFine, Offered
<1>4. CASE r.at = "ended"
  <2>1. r.carded <=> Reached(p) /\ ~r.lost
    BY <1>1, <1>2, <1>4 DEF TaskFine
  <2>2. r.carded => ~p.odd
    BY DEF TaskFine
  <2>3. QED
    BY <1>2, <1>4, <2>1, <2>2 DEF Offered, Known
<1>5. QED
  BY <1>3, <1>4

TasksFine == \A i \in DOMAIN wb.stub : TaskFine(wb.stub[i], wb.task[i])

WBPlace ==
  /\ wb.pc # "idle" => wb.list.outcome = "none"
  /\ wb.pc \in {"page", "enrich"} => wb.list = NewListing
  /\ wb.pc = "page" => wb.stub = <<>>
  /\ wb.list.outcome = "error" => wb.list.emitted = Nothing

\* Once the results are gathered every task has ended, and those results that
\* have been gone through are listed if they make an offer.
Decided ==
  wb.pc = "convert" \/ wb.list.outcome = "offers" =>
    \A i \in DOMAIN wb.stub :
      /\ wb.task[i].at \in {"ended", "crashed"}
      /\ i < wb.list.next => (Has(wb.list, i) <=> Offered(wb.stub[i], wb.task[i]))

AllDecided ==
  wb.list.outcome = "offers" => \A i \in DOMAIN wb.stub : i < wb.list.next

WBInv ==
  /\ WBTypeOK
  /\ ListFine(wb.list)
  /\ TasksFine
  /\ WBPlace
  /\ Decided
  /\ AllDecided

LEMMA WBShape ==
  ASSUME WBTypeOK
  PROVE  /\ wb = [pc |-> wb.pc, stub |-> wb.stub, task |-> wb.task, list |-> wb.list]
         /\ wb.pc \in {"idle", "page", "enrich", "convert"}
         /\ wb.stub \in Seq(Products) /\ wb.task \in Seq(Task) /\ wb.list \in Listing
         /\ Len(wb.task) = Len(wb.stub) /\ Len(wb.stub) \in Nat /\ Len(wb.stub) <= MaxSlots
         /\ DOMAIN wb.stub = 1 .. Len(wb.stub) /\ DOMAIN wb.task = 1 .. Len(wb.stub)
         /\ DOMAIN wb.stub \subseteq Slots
<1>1. wb \in WBSearch /\ Len(wb.task) = Len(wb.stub) /\ Len(wb.stub) <= MaxSlots
  BY DEF WBTypeOK
<1>2. wb.stub \in Seq(Products) /\ wb.task \in Seq(Task)
  BY <1>1 DEF WBSearch
<1>3. /\ DOMAIN wb.stub = 1 .. Len(wb.stub) /\ DOMAIN wb.task = 1 .. Len(wb.stub)
      /\ Len(wb.stub) \in Nat
  BY <1>1, <1>2, LenProperties
<1>4. DOMAIN wb.stub \subseteq Slots
  BY <1>1, <1>3 DEF Slots
<1>5. QED
  BY <1>1, <1>2, <1>3, <1>4 DEF WBSearch

LEMMA WBMade ==
  ASSUME NEW pc \in {"idle", "page", "enrich", "convert"}, NEW stub \in Seq(Products),
         NEW task \in Seq(Task), NEW list \in Listing
  PROVE  [pc |-> pc, stub |-> stub, task |-> task, list |-> list] \in WBSearch
BY DEF WBSearch

LEMMA NoWBInv ==
  ASSUME wb = NoWBSearch
  PROVE  WBInv
<1>1. /\ wb.pc = "idle" /\ wb.stub = <<>> /\ wb.task = <<>> /\ wb.list = NewListing
      /\ wb.list.outcome = "none" /\ DOMAIN wb.stub = {}
  BY DEF NoWBSearch, NewListing
<1>2. wb \in WBSearch
  BY NewListFine, <1>1 DEF NoWBSearch, WBSearch, ListFine
<1>3. Len(wb.task) = Len(wb.stub) /\ Len(wb.stub) <= MaxSlots
  BY <1>1
<1>4. QED
  BY <1>1, <1>2, <1>3, NewListFine
     DEF WBInv, WBTypeOK, TasksFine, WBPlace, Decided, AllDecided

\* The search ends with nothing, or with an error.
LEMMA WBEndsInv ==
  ASSUME WBInv, NEW outcome \in {"offers", "error"}, WBEnds(outcome),
         outcome = "error" => wb.list = NewListing,
         outcome = "offers" =>
           \A i \in DOMAIN wb.stub :
             /\ i < wb.list.next /\ wb.task[i].at \in {"ended", "crashed"}
             /\ Has(wb.list, i) <=> Offered(wb.stub[i], wb.task[i])
  PROVE  WBInv' /\ wb'.list = Ended(wb.list, outcome)
<1>1. /\ wb = [pc |-> wb.pc, stub |-> wb.stub, task |-> wb.task, list |-> wb.list]
      /\ wb.stub \in Seq(Products) /\ wb.task \in Seq(Task)
      /\ Len(wb.task) = Len(wb.stub) /\ Len(wb.stub) <= MaxSlots
  BY WBShape DEF WBInv
<1> DEFINE l == Ended(wb.list, outcome)
<1>2. /\ ListFine(l) /\ l.out = wb.list.out /\ l.outcome = outcome /\ l.next = wb.list.next
      /\ outcome = "error" => l.emitted = Nothing
  BY EndedFine DEF WBInv, NewListing
<1> HIDE DEF l
<1>3. wb' = [pc |-> "idle", stub |-> wb.stub, task |-> wb.task, list |-> l]
  BY <1>1 DEF WBEnds, l
<1>4. wb'.pc = "idle" /\ wb'.stub = wb.stub /\ wb'.task = wb.task /\ wb'.list = l
  BY <1>3
<1>5. WBTypeOK'
  BY <1>1, <1>2, <1>3 DEF WBTypeOK, WBSearch, ListFine
<1>7. ListFine(wb.list)'
  BY <1>2, <1>4 DEF ListFine
<1>8. TasksFine' /\ WBPlace'
  BY <1>2, <1>4 DEF WBInv, TasksFine, WBPlace
<1>9. Decided' /\ AllDecided'
  BY <1>2, <1>4 DEF Decided, AllDecided, Has
<1>10. QED
  BY <1>4, <1>5, <1>7, <1>8, <1>9 DEF WBInv, l

\* One of the tasks moves on.
LEMMA TaskMoves ==
  ASSUME WBInv, NEW i \in DOMAIN wb.task, wb.task[i].at \notin {"ended", "crashed"},
         NEW r, TaskFine(wb.stub[i], r), wb' = [wb EXCEPT !.task[i] = r]
  PROVE  WBInv' /\ wb'.list = wb.list
<1>1. /\ wb = [pc |-> wb.pc, stub |-> wb.stub, task |-> wb.task, list |-> wb.list]
      /\ wb.pc \in {"idle", "page", "enrich", "convert"}
      /\ wb.stub \in Seq(Products) /\ wb.task \in Seq(Task) /\ wb.list \in Listing
      /\ Len(wb.task) = Len(wb.stub) /\ Len(wb.stub) <= MaxSlots
      /\ DOMAIN wb.stub = 1 .. Len(wb.stub) /\ DOMAIN wb.task = 1 .. Len(wb.stub)
  BY WBShape DEF WBInv
<1> DEFINE task == [wb.task EXCEPT ![i] = r]
<1>2. /\ task \in Seq(Task) /\ Len(task) = Len(wb.stub)
      /\ \A j \in DOMAIN wb.stub : task[j] = IF j = i THEN r ELSE wb.task[j]
  BY <1>1, ExceptSeq DEF TaskFine
<1>3. wb' = [pc |-> wb.pc, stub |-> wb.stub, task |-> task, list |-> wb.list]
  BY <1>1
<1> HIDE DEF task
<1>4. wb'.pc = wb.pc /\ wb'.stub = wb.stub /\ wb'.task = task /\ wb'.list = wb.list
  BY <1>3
<1>5. WBTypeOK'
  <2>1. /\ wb.pc \in {"idle", "page", "enrich", "convert"} /\ wb.stub \in Seq(Products)
        /\ task \in Seq(Task) /\ wb.list \in Listing
    BY <1>1, <1>2
  <2>2. [pc |-> wb.pc, stub |-> wb.stub, task |-> task, list |-> wb.list] \in WBSearch
    BY <2>1, WBMade
  <2>3. Len(wb'.task) = Len(wb'.stub) /\ Len(wb'.stub) <= MaxSlots
    BY <1>1, <1>2, <1>4
  <2>4. QED
    BY <1>3, <2>2, <2>3 DEF WBTypeOK
<1>6. ListFine(wb.list)'
  BY <1>4 DEF WBInv, ListFine
<1>7. TasksFine'
  BY <1>2, <1>4 DEF WBInv, TasksFine
<1>8. WBPlace'
  BY <1>4 DEF WBInv, WBPlace
<1>9. ~(wb.pc = "convert" \/ wb.list.outcome = "offers")
  BY <1>1 DEF WBInv, Decided
<1>10. Decided' /\ AllDecided'
  BY <1>4, <1>9 DEF Decided, AllDecided
<1>11. QED
  BY <1>4, <1>5, <1>6, <1>7, <1>8, <1>10 DEF WBInv

\* The page shows products.
LEMMA PageAnswersInv ==
  ASSUME WBInv, wb.pc = "page", NEW n \in 1 .. MaxSlots, NEW stub \in [1 .. n -> Products],
         NEW task, task = [i \in 1 .. n |-> NewTask],
         wb' = [wb EXCEPT !.pc = "enrich", !.stub = stub, !.task = task]
  PROVE  WBInv' /\ wb'.list = wb.list
<1>1. /\ wb = [pc |-> wb.pc, stub |-> wb.stub, task |-> wb.task, list |-> wb.list]
      /\ wb.list \in Listing /\ n \in Nat
  BY WBShape DEF WBInv
<1>2. /\ stub \in Seq(Products) /\ Len(stub) = n /\ DOMAIN stub = 1 .. n
  BY <1>1
<1>3. NewTask \in Task
  BY WBNumbersAssumption DEF NewTask, Task
<1>4. task \in Seq(Task) /\ Len(task) = n /\ \A i \in 1 .. n : task[i] = NewTask
  BY <1>1, <1>3
<1>5. wb' = [pc |-> "enrich", stub |-> stub, task |-> task, list |-> wb.list]
  BY <1>1
<1>6. wb'.pc = "enrich" /\ wb'.stub = stub /\ wb'.task = task /\ wb'.list = wb.list
  BY <1>5
<1>7. WBTypeOK'
  <2>1. wb' \in WBSearch
    BY <1>1, <1>2, <1>4, <1>5 DEF WBSearch
  <2>2. Len(wb'.task) = Len(wb'.stub) /\ Len(wb'.stub) <= MaxSlots
    BY <1>2, <1>4, <1>6
  <2>3. QED
    BY <2>1, <2>2 DEF WBTypeOK
<1>8. ListFine(wb.list)'
  BY <1>6 DEF WBInv, ListFine
<1>9. TasksFine'
  <2>1. \A i \in 1 .. n : TaskFine(stub[i], task[i])
    BY <1>4, NewTaskFine
  <2>2. QED
    BY <1>2, <1>6, <2>1 DEF TasksFine
<1>10. wb.list = NewListing /\ wb.list.outcome = "none"
  BY DEF WBInv, WBPlace, NewListing
<1>11. WBPlace' /\ Decided' /\ AllDecided'
  BY <1>6, <1>10 DEF WBPlace, Decided, AllDecided
<1>12. QED
  BY <1>6, <1>7, <1>8, <1>9, <1>11 DEF WBInv

\* One round of the loop over the results.
LEMMA ConvertsInv ==
  ASSUME WBInv, Converts
  PROVE  WBInv' /\ ListStep(wb.list, wb'.list)
<1> DEFINE i == wb.list.next
           offered == Offered(wb.stub[i], wb.task[i])
           l == IF offered THEN Listed(wb.list) ELSE PassedOver(wb.list)
<1>1. /\ wb = [pc |-> wb.pc, stub |-> wb.stub, task |-> wb.task, list |-> wb.list]
      /\ wb.stub \in Seq(Products) /\ wb.task \in Seq(Task) /\ wb.list \in Listing
      /\ Len(wb.task) = Len(wb.stub) /\ Len(wb.stub) <= MaxSlots
      /\ DOMAIN wb.stub \subseteq Slots
  BY WBShape DEF WBInv
<1>2. wb.pc = "convert" /\ i \in Slots /\ i \in DOMAIN wb.stub /\ wb.list.outcome = "none"
  BY <1>1 DEF Converts, WBInv, WBPlace
<1>3. /\ ListFine(l) /\ l.outcome = "none" /\ l.next = i + 1
      /\ l.out = IF offered THEN [wb.list.out EXCEPT ![i] = 1] ELSE wb.list.out
  <2>1. CASE offered
    <3>1. l = Listed(wb.list)
      BY <2>1
    <3>2. Listed(wb.list).next = i + 1
      BY DEF Listed
    <3>3. QED
      BY <1>2, <2>1, <3>1, <3>2, ListedFine DEF WBInv
  <2>2. CASE ~offered
    BY <1>2, <2>2, PassedFine DEF WBInv
  <2>3. QED
    BY <2>1, <2>2
<1>4. ListStep(wb.list, l)
  BY <1>2 DEF ListStep
<1>5. wb' = [wb EXCEPT !.list = l]
  BY DEF Converts
<1> HIDE DEF l
<1>6. wb' = [pc |-> wb.pc, stub |-> wb.stub, task |-> wb.task, list |-> l]
  BY <1>1, <1>5
<1>7. wb'.pc = wb.pc /\ wb'.stub = wb.stub /\ wb'.task = wb.task /\ wb'.list = l
  BY <1>6
<1>8. WBTypeOK'
  BY <1>3, <1>6, <1>7 DEF WBInv, WBTypeOK, WBSearch, ListFine
<1>9. ListFine(wb.list)'
  BY <1>3, <1>7 DEF ListFine
<1>10. TasksFine' /\ WBPlace'
  BY <1>2, <1>3, <1>7 DEF WBInv, TasksFine, WBPlace
<1>11. AllDecided'
  BY <1>3, <1>7 DEF AllDecided
<1>12. Decided'
  <2> SUFFICES ASSUME NEW j \in DOMAIN wb.stub
               PROVE  /\ wb.task[j].at \in {"ended", "crashed"}
                      /\ j < l.next => (Has(l, j) <=> Offered(wb.stub[j], wb.task[j]))
    BY <1>7 DEF Decided
  <2>1. /\ wb.task[j].at \in {"ended", "crashed"}
        /\ j < i => (Has(wb.list, j) <=> Offered(wb.stub[j], wb.task[j]))
    BY <1>2 DEF WBInv, Decided
  <2>2. wb.list.out \in [Slots -> 0 .. 1] /\ wb.list.out[i] = 0 /\ i \in Nat /\ j \in Nat
        /\ j \in Slots
    BY <1>1, <1>2 DEF WBInv, ListFine, Listing, Slots
  <2>3. CASE j < i
    <3>1. l.out[j] = wb.list.out[j]
      BY <1>2, <1>3, <2>2, <2>3
    <3>2. QED
      BY <2>1, <2>3, <3>1 DEF Has
  <2>4. CASE j = i
    <3>1. l.out[i] = IF offered THEN 1 ELSE 0
      BY <1>2, <1>3, <2>2
    <3>2. QED
      BY <2>1, <2>4, <3>1 DEF Has
  <2>5. CASE j > i
    BY <1>3, <2>1, <2>2, <2>5
  <2>6. QED
    BY <2>2, <2>3, <2>4, <2>5
<1>13. QED
  BY <1>4, <1>7, <1>8, <1>9, <1>10, <1>11, <1>12 DEF WBInv

LEMMA WBNextInv ==
  ASSUME WBInv, WBNext
  PROVE  WBInv' /\ ListStep(wb.list, wb'.list)
<1>1. /\ wb = [pc |-> wb.pc, stub |-> wb.stub, task |-> wb.task, list |-> wb.list]
      /\ wb.pc \in {"idle", "page", "enrich", "convert"}
      /\ wb.stub \in Seq(Products) /\ wb.task \in Seq(Task) /\ wb.list \in Listing
      /\ Len(wb.task) = Len(wb.stub) /\ DOMAIN wb.stub \subseteq Slots
      /\ DOMAIN wb.stub = 1 .. Len(wb.stub) /\ DOMAIN wb.task = 1 .. Len(wb.stub)
  BY WBShape DEF WBInv
<1>2. CASE WBStart
  <2>1. wb' = [NoWBSearch EXCEPT !.pc = "page"]
    BY <1>2 DEF WBStart
  <2>2. wb' = [pc |-> "page", stub |-> <<>>, task |-> <<>>, list |-> NewListing]
    BY <2>1 DEF NoWBSearch
  <2>3. /\ wb'.pc = "page" /\ wb'.stub = <<>> /\ wb'.task = <<>> /\ wb'.list = NewListing
        /\ DOMAIN wb'.stub = {} /\ NewListing.outcome = "none"
    BY <2>2 DEF NewListing
  <2>4. WBTypeOK'
    <3>1. NewListing \in Listing /\ Len(wb'.task) = Len(wb'.stub) /\ Len(wb'.stub) <= MaxSlots
      BY <2>3, NewListFine DEF ListFine
    <3>2. QED
      BY <2>2, <3>1 DEF WBTypeOK, WBSearch
  <2>5. ListFine(wb.list)'
    BY <2>3, NewListFine DEF ListFine
  <2>6. WBPlace' /\ TasksFine' /\ Decided' /\ AllDecided'
    BY <2>3 DEF WBPlace, TasksFine, Decided, AllDecided
  <2>7. QED
    BY <2>3, <2>4, <2>5, <2>6 DEF WBInv, ListStep
<1>3. CASE PageFails
  <2>1. wb.list.outcome = "none" /\ WBEnds("error") /\ wb.list = NewListing
    BY <1>3 DEF PageFails, WBInv, WBPlace
  <2>2. WBInv' /\ wb'.list = Ended(wb.list, "error")
    BY <2>1, WBEndsInv
  <2>3. QED
    BY <2>1, <2>2 DEF ListStep
<1>4. CASE PageAnswers
  <2>1. CASE WBEnds("offers")
    <3>1. wb.list.outcome = "none" /\ DOMAIN wb.stub = {}
      <4>1. wb.list.outcome = "none" /\ wb.stub = <<>>
        BY <1>4 DEF PageAnswers, WBInv, WBPlace
      <4>2. QED
        BY <4>1
    <3>2. WBInv' /\ wb'.list = Ended(wb.list, "offers")
      BY <2>1, <3>1, WBEndsInv
    <3>3. QED
      BY <3>1, <3>2 DEF ListStep
  <2>2. CASE \E n \in 1 .. MaxSlots : \E stub \in [1 .. n -> Products] :
               /\ n <= Limit
               /\ wb' = [wb EXCEPT !.pc = "enrich", !.stub = stub,
                                   !.task = [i \in 1 .. n |-> NewTask]]
    BY <1>4, <2>2, PageAnswersInv DEF PageAnswers, ListStep
  <2>3. QED
    BY <1>4, <2>1, <2>2 DEF PageAnswers
<1>5. ASSUME NEW i \in DOMAIN wb.task, Enters(i) \/ AsksShard(i) \/ AsksReviews(i)
      PROVE  WBInv' /\ wb'.list = wb.list
  <2>1. wb.stub[i] \in Products /\ TaskFine(wb.stub[i], wb.task[i])
    BY <1>1 DEF WBInv, TasksFine
  <2>2. CASE Enters(i)
    <3> DEFINE r == [wb.task[i] EXCEPT !.at = "card"]
    <3>1. wb.task[i].at = "queued" /\ wb' = [wb EXCEPT !.task[i] = r]
      BY <2>2 DEF Enters
    <3>2. wb.task[i] \in Task /\ wb.task[i].try = 0 /\ ~wb.task[i].carded /\ ~wb.task[i].lost
      BY <2>1, <3>1 DEF TaskFine
    <3>3. /\ r \in Task /\ r.at = "card" /\ r.try = 0 /\ ~r.carded /\ ~r.lost
      BY <3>2 DEF Task
    <3> HIDE DEF r
    <3>4. 0 \in Tries(wb.stub[i]) /\ Tries(wb.stub[i]) \subseteq Nat
      BY WBNumbersAssumption DEF Tries
    <3>5. TaskFine(wb.stub[i], r)
      BY <3>3, <3>4 DEF TaskFine
    <3>6. QED
      BY <3>1, <3>5, TaskMoves
  <2>3. CASE AsksShard(i)
    <3>1. PICK r \in ShardAnswers(wb.stub[i], wb.task[i]) : wb' = [wb EXCEPT !.task[i] = r]
      BY <2>3 DEF AsksShard
    <3>2. wb.task[i].at = "card"
      BY <2>3 DEF AsksShard
    <3>3. TaskFine(wb.stub[i], r)
      BY <2>1, <3>2, AnswersFine
    <3>4. QED
      BY <3>1, <3>2, <3>3, TaskMoves
  <2>4. CASE AsksReviews(i)
    <3> DEFINE r == ReviewsEnd(wb.task[i])
    <3>1. wb.task[i].at = "reviews" /\ wb' = [wb EXCEPT !.task[i] = r]
      BY <2>4 DEF AsksReviews
    <3>2. TaskFine(wb.stub[i], r)
      BY <2>1, <3>1, ReviewsEndFine
    <3> HIDE DEF r
    <3>3. QED
      BY <3>1, <3>2, TaskMoves
  <2>5. QED
    BY <1>5, <2>2, <2>3, <2>4
<1>6. CASE Gathered
  <2>1. wb.pc = "enrich" /\ wb' = [wb EXCEPT !.pc = "convert"]
    BY <1>6 DEF Gathered
  <2>2. wb' = [pc |-> "convert", stub |-> wb.stub, task |-> wb.task, list |-> wb.list]
    BY <1>1, <2>1
  <2>3. wb'.pc = "convert" /\ wb'.stub = wb.stub /\ wb'.task = wb.task /\ wb'.list = wb.list
    BY <2>2
  <2>4. WBTypeOK'
    BY <2>2, <2>3 DEF WBInv, WBTypeOK, WBSearch
  <2>5. ListFine(wb.list)' /\ TasksFine' /\ AllDecided' /\ WBPlace'
    BY <2>1, <2>3 DEF WBInv, ListFine, TasksFine, AllDecided, WBPlace
  <2>6. wb.list = NewListing /\ wb.list.next = 1
    BY <2>1 DEF WBInv, WBPlace, NewListing
  <2>7. \A i \in DOMAIN wb.stub : wb.task[i].at \in {"ended", "crashed"} /\ ~(i < 1)
    BY <1>1, <1>6 DEF Gathered
  <2>8. Decided'
    BY <2>3, <2>6, <2>7 DEF Decided
  <2>9. QED
    BY <2>3, <2>4, <2>5, <2>8 DEF WBInv, ListStep
<1>7. CASE WBReturns
  <2>1. /\ wb.pc = "convert" /\ wb.list.next \notin DOMAIN wb.stub /\ WBEnds("offers")
        /\ wb.list.outcome = "none"
    BY <1>7 DEF WBReturns, WBInv, WBPlace
  <2>2. \A i \in DOMAIN wb.stub : i < wb.list.next
    BY <1>1, <2>1, WBShape DEF WBInv, Listing
  <2>3. \A i \in DOMAIN wb.stub :
          /\ wb.task[i].at \in {"ended", "crashed"}
          /\ Has(wb.list, i) <=> Offered(wb.stub[i], wb.task[i])
    BY <2>1, <2>2 DEF WBInv, Decided
  <2>4. WBInv' /\ wb'.list = Ended(wb.list, "offers")
    BY <2>1, <2>2, <2>3, WBEndsInv
  <2>5. QED
    BY <2>1, <2>4 DEF ListStep
<1>8. CASE WBGone
  <2>1. wb' = NoWBSearch
    BY <1>8 DEF WBGone
  <2>2. /\ wb'.pc = "idle" /\ wb'.stub = <<>> /\ wb'.task = <<>> /\ wb'.list = NewListing
        /\ DOMAIN wb'.stub = {} /\ NewListing.outcome = "none"
    BY <2>1 DEF NoWBSearch, NewListing
  <2>3. WBTypeOK'
    <3>1. NewListing \in Listing /\ Len(wb'.task) = Len(wb'.stub) /\ Len(wb'.stub) <= MaxSlots
      BY <2>2, NewListFine DEF ListFine
    <3>2. QED
      BY <2>1, <3>1 DEF WBTypeOK, WBSearch, NoWBSearch
  <2>4. ListFine(wb.list)'
    BY <2>2, NewListFine DEF ListFine
  <2>5. WBPlace' /\ TasksFine' /\ Decided' /\ AllDecided'
    BY <2>2 DEF WBPlace, TasksFine, Decided, AllDecided
  <2>6. QED
    BY <2>2, <2>3, <2>4, <2>5 DEF WBInv, ListStep
<1>9. QED
  BY <1>2, <1>3, <1>4, <1>5, <1>6, ConvertsInv, <1>7, <1>8 DEF WBNext, ListStep

LEMMA WBEach ==
  ASSUME WBInv
  PROVE  EachOnItsOwn
<1> SUFFICES ASSUME wb.list.outcome = "offers", NEW i \in DOMAIN wb.stub
             PROVE  LET p == wb.stub[i]
                        there == Reached(p) /\ ~wb.task[i].lost
                    IN Has(wb.list, i) <=>
                         /\ there => ~p.odd
                         /\ ~p.refused
                         /\ {"name", "price"} \subseteq p.page \cup (IF there THEN p.card ELSE {})
  BY DEF EachOnItsOwn, WBInv, WBPlace
<1>1. wb.stub[i] \in Products /\ TaskFine(wb.stub[i], wb.task[i])
  BY WBShape DEF WBInv, TasksFine
<1>2. /\ wb.task[i].at \in {"ended", "crashed"}
      /\ Has(wb.list, i) <=> Offered(wb.stub[i], wb.task[i])
  BY DEF WBInv, Decided, AllDecided
<1>3. QED
  BY <1>1, <1>2, OfferedIsDue

-----------------------------------------------------------------------------
(***************************************************************************)
(* The Runet.                                                              *)
(***************************************************************************)

\* Yandex's offers come from the pages that are fetched, of shops that are
\* kept, and there are none before Yandex has answered.
FromHosts(r) ==
  /\ \A p \in Slots : p > Cards /\ r.found[p] # NoOffer =>
       p - Cards \in Wanted(r.results) /\ r.found[p][1] = r.results[p - Cards]
  /\ r.yandex = "asked" => \A p \in Slots : p > Cards => r.found[p] = NoOffer

\* How far the merge is: what it has listed are the first of each key, and
\* `seen` has just their keys.
Merged(found, seen, list) ==
  LET in == InList(list)
  IN /\ seen = {found[p] : p \in in}
     /\ Cardinality(in) <= Cap
     /\ \A p \in in : found[p] # NoOffer
     /\ \A p, q \in in : found[p] = found[q] => p = q
     /\ \A p \in Slots \ in : p < list.next =>
          found[p] = NoOffer \/ \E q \in in : q < p /\ found[q] = found[p]

RunetPlace ==
  /\ runet.pc # "idle" => runet.list.outcome = "none"
  /\ runet.pc = "engines" => runet.list = NewListing /\ runet.seen = {}
  /\ runet.list.outcome = "offers" =>
       Full \/ runet.list.next \notin Slots \/ \A p \in Slots : runet.found[p] = NoOffer

RunetInv ==
  /\ RunetTypeOK
  /\ ListFine(runet.list)
  /\ RunetPlace
  /\ FromHosts(runet)
  /\ Merged(runet.found, runet.seen, runet.list)

LEMMA InListFinite ==
  ASSUME NEW l
  PROVE  IsFiniteSet(InList(l)) /\ Cardinality(InList(l)) \in Nat /\ InList(l) \subseteq Slots
<1>1. IsFiniteSet(Slots)
  BY FS_Interval DEF Slots
<1>2. InList(l) \in SUBSET Slots
  BY DEF InList
<1>3. QED
  BY <1>1, <1>2, FS_Subset, FS_CardinalityType

LEMMA NothingMerged ==
  ASSUME NEW found, NEW list, list.out = Nothing, list.next = 1
  PROVE  Merged(found, {}, list)
<1>1. InList(list) = {}
  BY DEF InList, Has, Nothing
<1>2. Cardinality({}) = 0 /\ Cap \in Nat
  BY FS_EmptySet, RunetAssumption
<1>3. \A p \in Slots : ~(p < 1)
  BY DEF Slots
<1>4. QED
  BY <1>1, <1>2, <1>3 DEF Merged

LEMMA MergedAlike ==
  ASSUME NEW found, NEW seen, NEW l, NEW m, Merged(found, seen, l),
         m.out = l.out, m.next = l.next
  PROVE  Merged(found, seen, m)
<1>1. InList(m) = InList(l)
  BY DEF InList, Has
<1>2. QED
  BY <1>1 DEF Merged

LEMMA NewMerged ==
  ASSUME NEW found
  PROVE  Merged(found, {}, NewListing)
BY NothingMerged DEF NewListing

LEMMA NoRunetFine ==
  /\ NoRunetSearch \in RunetSearch /\ NoRunetSearch.list = NewListing
  /\ NoRunetSearch.pc = "idle" /\ NoRunetSearch.seen = {} /\ NoRunetSearch.results = <<>>
  /\ NoRunetSearch.yandex = "asked" /\ NoRunetSearch.google = "asked"
  /\ \A p \in Slots : NoRunetSearch.found[p] = NoOffer
  /\ Cards + Len(NoRunetSearch.results) <= MaxSlots
  /\ FromHosts(NoRunetSearch)
<1>1. NewListing \in Listing
  BY NewListFine DEF ListFine
<1>2. NoRunetSearch \in RunetSearch
  BY <1>1 DEF NoRunetSearch, RunetSearch
<1>3. /\ NoRunetSearch.list = NewListing
      /\ NoRunetSearch.pc = "idle" /\ NoRunetSearch.seen = {} /\ NoRunetSearch.results = <<>>
      /\ NoRunetSearch.yandex = "asked" /\ NoRunetSearch.google = "asked"
      /\ \A p \in Slots : NoRunetSearch.found[p] = NoOffer
  BY DEF NoRunetSearch
<1>4. Cards + Len(NoRunetSearch.results) <= MaxSlots
  BY <1>3, RunetAssumption
<1>5. FromHosts(NoRunetSearch)
  BY <1>3 DEF FromHosts
<1>6. QED
  BY <1>2, <1>3, <1>4, <1>5

LEMMA RunetShape ==
  ASSUME RunetTypeOK
  PROVE  /\ runet = [pc |-> runet.pc, google |-> runet.google, yandex |-> runet.yandex,
                     results |-> runet.results, page |-> runet.page, found |-> runet.found,
                     seen |-> runet.seen, list |-> runet.list]
         /\ runet.pc \in {"idle", "engines", "merge"} /\ runet.google \in {"asked", "done"}
         /\ runet.yandex \in {"asked", "pages", "done"} /\ runet.results \in Seq(Hosts)
         /\ runet.page \in [YandexSlots -> {"queued", "fetched", "ended"}]
         /\ runet.found \in [Slots -> Keys \cup {NoOffer}]
         /\ runet.seen \in SUBSET Keys /\ runet.list \in Listing
         /\ Cards + Len(runet.results) <= MaxSlots
BY DEF RunetTypeOK, RunetSearch

LEMMA RunetMade ==
  ASSUME NEW pc \in {"idle", "engines", "merge"}, NEW google \in {"asked", "done"},
         NEW yandex \in {"asked", "pages", "done"}, NEW results \in Seq(Hosts),
         NEW page \in [YandexSlots -> {"queued", "fetched", "ended"}],
         NEW found \in [Slots -> Keys \cup {NoOffer}],
         NEW seen \in SUBSET Keys, NEW list \in Listing
  PROVE  [pc |-> pc, google |-> google, yandex |-> yandex, results |-> results,
          page |-> page, found |-> found, seen |-> seen, list |-> list] \in RunetSearch
BY DEF RunetSearch

\* As long as the engines search, nothing is merged.
LEMMA EnginesMove ==
  ASSUME RunetInv, runet.pc = "engines",
         NEW r \in RunetSearch, Cards + Len(r.results) <= MaxSlots,
         r.pc \in {"engines", "merge"}, r.list = runet.list, r.seen = runet.seen,
         FromHosts(r), runet' = r
  PROVE  RunetInv' /\ runet'.list = runet.list
<1>1. runet.list = NewListing /\ runet.seen = {} /\ runet.list.outcome = "none"
  BY DEF RunetInv, RunetPlace
<1>2. RunetTypeOK'
  BY DEF RunetTypeOK
<1>3. ListFine(runet.list)' /\ FromHosts(runet)'
  <2>1. ListFine(r.list) /\ FromHosts(r)
    BY DEF RunetInv
  <2>2. QED
    BY <2>1 DEF ListFine, FromHosts
<1>4. RunetPlace'
  BY <1>1 DEF RunetPlace
<1>5. Merged(runet.found, runet.seen, runet.list)'
  <2>1. Merged(r.found, {}, NewListing)
    BY NewMerged
  <2>2. Merged(r.found, r.seen, r.list)
    BY <1>1, <2>1
  <2>3. QED
    BY <2>2
<1>6. QED
  BY <1>2, <1>3, <1>4, <1>5 DEF RunetInv

\* The search ends: of a blank query, with an error, or with the list that is
\* full or for which there is nothing left.
LEMMA RunetEndsInv ==
  ASSUME RunetInv, NEW outcome \in {"offers", "error"}, RunetEnds(outcome),
         outcome = "offers" =>
           Full \/ runet.list.next \notin Slots \/ \A p \in Slots : runet.found[p] = NoOffer
  PROVE  RunetInv' /\ runet'.list = Ended(runet.list, outcome)
<1> DEFINE l == Ended(runet.list, outcome)
           r == [runet EXCEPT !.pc = "idle", !.list = l]
<1>1. /\ ListFine(l) /\ l.out = runet.list.out /\ l.outcome = outcome
      /\ l.next = runet.list.next /\ l \in Listing
  BY EndedFine DEF RunetInv, ListFine
<1>2. runet' = r
  BY DEF RunetEnds
<1> HIDE DEF l
<1>3. /\ r.pc = "idle" /\ r.list = l /\ r.found = runet.found /\ r.seen = runet.seen
      /\ r.results = runet.results /\ r.yandex = runet.yandex
  BY RunetShape DEF RunetInv
<1>4. r \in RunetSearch
  <2>1. runet \in RunetSearch
    BY DEF RunetInv, RunetTypeOK
  <2>2. QED
    BY <1>1, <2>1 DEF RunetSearch
<1> HIDE DEF r
<1>5. RunetTypeOK'
  BY <1>2, <1>3, <1>4, RunetShape DEF RunetInv, RunetTypeOK
<1>6. ListFine(runet.list)'
  BY <1>1, <1>2, <1>3 DEF ListFine
<1>7. FromHosts(runet)'
  BY <1>2, <1>3 DEF RunetInv, FromHosts
<1>8. InList(l) = InList(runet.list)
  BY <1>1 DEF InList, Has
<1>9. RunetPlace'
  <2>1. runet.list.next = l.next
    BY <1>1
  <2>2. Full' <=> Full
    BY <1>2, <1>3, <1>8 DEF Full, InList, Has
  <2>3. QED
    BY <1>1, <1>2, <1>3, <2>2 DEF RunetPlace
<1>10. Merged(runet.found, runet.seen, runet.list)'
  <2>1. Merged(r.found, r.seen, l)
    BY <1>1, <1>3, MergedAlike DEF RunetInv
  <2>2. QED
    BY <1>2, <1>3, <2>1
<1>11. QED
  BY <1>2, <1>3, <1>5, <1>6, <1>7, <1>9, <1>10 DEF RunetInv, l

\* The search begins, or begins anew.
LEMMA RunetBegins ==
  ASSUME NEW pc \in {"idle", "engines"}, runet' = [NoRunetSearch EXCEPT !.pc = pc]
  PROVE  RunetInv' /\ runet'.list = NewListing
<1> DEFINE r == [NoRunetSearch EXCEPT !.pc = pc]
<1>1. /\ r \in RunetSearch /\ r.pc = pc /\ r.list = NewListing /\ r.seen = {}
      /\ r.results = NoRunetSearch.results /\ r.found = NoRunetSearch.found
      /\ r.yandex = NoRunetSearch.yandex
  <2>1. NoRunetSearch \in RunetSearch
    BY NoRunetFine
  <2>2. QED
    BY <2>1, NoRunetFine DEF RunetSearch
<1>2. runet' = r
  OBVIOUS
<1> HIDE DEF r
<1>3. Cards + Len(r.results) <= MaxSlots /\ FromHosts(r)
  BY <1>1, NoRunetFine DEF FromHosts
<1>4. RunetTypeOK'
  BY <1>1, <1>2, <1>3 DEF RunetTypeOK
<1>5. ListFine(runet.list)' /\ FromHosts(runet)'
  <2>1. ListFine(r.list)
    BY <1>1, NewListFine
  <2>2. QED
    BY <1>2, <1>3, <2>1
<1>6. RunetPlace'
  <2>1. runet'.list = NewListing /\ runet'.seen = {} /\ NewListing.outcome = "none"
    BY <1>1, <1>2 DEF NewListing
  <2>2. QED
    BY <2>1 DEF RunetPlace
<1>7. Merged(runet.found, runet.seen, runet.list)'
  <2>1. Merged(r.found, r.seen, r.list)
    BY <1>1, NewMerged
  <2>2. QED
    BY <1>2, <2>1
<1>8. QED
  BY <1>1, <1>2, <1>4, <1>5, <1>6, <1>7 DEF RunetInv

LEMMA GoogleEndsInv ==
  ASSUME RunetInv, GoogleEnds
  PROVE  RunetInv' /\ runet'.list = runet.list
<1>1. PICK cards \in [1 .. Cards -> GoogleOffers] :
        runet' = [runet EXCEPT !.google = "done",
                    !.found = [p \in Slots |-> IF p <= Cards THEN cards[p] ELSE @[p]]]
  BY DEF GoogleEnds
<1> DEFINE found == [p \in Slots |-> IF p <= Cards THEN cards[p] ELSE runet.found[p]]
           r == [runet EXCEPT !.google = "done", !.found = found]
<1>2. runet' = r
  BY <1>1
<1>3. found \in [Slots -> Keys \cup {NoOffer}]
  <2>1. GoogleOffers \subseteq Keys \cup {NoOffer}
    BY DEF GoogleOffers, Keys
  <2>2. \A p \in Slots : p <= Cards => p \in 1 .. Cards
    BY RunetAssumption DEF Slots
  <2>3. QED
    BY <2>1, <2>2, RunetShape DEF RunetInv
<1>4. \A p \in Slots : p > Cards => found[p] = runet.found[p]
  BY RunetAssumption DEF Slots
<1> HIDE DEF found
<1>5. runet \in RunetSearch
  BY DEF RunetInv, RunetTypeOK
<1>6. /\ r \in RunetSearch /\ r.pc = runet.pc /\ r.list = runet.list /\ r.seen = runet.seen
      /\ r.results = runet.results /\ r.yandex = runet.yandex /\ r.found = found
  BY <1>3, <1>5 DEF RunetSearch
<1> HIDE DEF r
<1>7. FromHosts(r)
  BY <1>4, <1>6 DEF RunetInv, FromHosts
<1>8. Cards + Len(r.results) <= MaxSlots /\ runet.pc = "engines"
  BY <1>6 DEF RunetInv, RunetTypeOK, GoogleEnds
<1>9. QED
  BY <1>2, <1>6, <1>7, <1>8, EnginesMove

LEMMA YandexAnswersInv ==
  ASSUME RunetInv, YandexAnswers
  PROVE  RunetInv' /\ runet'.list = runet.list
<1>1. PICK results \in Results :
        runet' = [runet EXCEPT !.results = results,
                    !.yandex = IF Wanted(results) = {} THEN "done" ELSE "pages"]
  BY DEF YandexAnswers
<1> DEFINE then == IF Wanted(results) = {} THEN "done" ELSE "pages"
           r == [runet EXCEPT !.results = results, !.yandex = then]
<1>2. runet' = r
  BY <1>1
<1>3. results \in Seq(Hosts) /\ Cards + Len(results) <= MaxSlots
  <2>1. PICK n \in 0 .. MaxSlots - Cards : results \in [1 .. n -> Hosts]
    BY DEF Results
  <2>2. Len(results) = n /\ results \in Seq(Hosts)
    BY <2>1, RunetAssumption
  <2>3. QED
    BY <2>1, <2>2, RunetAssumption
<1>4. then \in {"pages", "done"}
  OBVIOUS
<1> HIDE DEF then
<1>5. runet \in RunetSearch
  BY DEF RunetInv, RunetTypeOK
<1>6. /\ r \in RunetSearch /\ r.pc = runet.pc /\ r.list = runet.list /\ r.seen = runet.seen
      /\ r.results = results /\ r.yandex = then /\ r.found = runet.found
  BY <1>3, <1>4, <1>5 DEF RunetSearch
<1> HIDE DEF r
<1>7. runet.pc = "engines" /\ runet.yandex = "asked"
  BY DEF YandexAnswers
<1>8. FromHosts(r)
  BY <1>4, <1>6, <1>7 DEF RunetInv, FromHosts
<1>9. QED
  BY <1>2, <1>3, <1>6, <1>7, <1>8, EnginesMove

LEMMA PageMovesInv ==
  ASSUME RunetInv, NEW p \in YandexSlots, PageStarts(p) \/ PageEnds(p)
  PROVE  RunetInv' /\ runet'.list = runet.list
<1>1. /\ runet \in RunetSearch /\ runet.pc = "engines" /\ runet.yandex = "pages"
      /\ p \in Fetched /\ Cards + Len(runet.results) <= MaxSlots
  BY DEF RunetInv, RunetTypeOK, PageStarts, PageEnds
<1>2. CASE PageStarts(p)
  <2> DEFINE page == [runet.page EXCEPT ![p] = "fetched"]
             r == [runet EXCEPT !.page = page]
  <2>1. runet' = r
    BY <1>2 DEF PageStarts
  <2>2. page \in [YandexSlots -> {"queued", "fetched", "ended"}]
    BY <1>1 DEF RunetSearch
  <2> HIDE DEF page
  <2>3. /\ r \in RunetSearch /\ r.pc = runet.pc /\ r.list = runet.list
        /\ r.seen = runet.seen /\ r.results = runet.results /\ r.yandex = runet.yandex
        /\ r.found = runet.found
    BY <1>1, <2>2 DEF RunetSearch
  <2> HIDE DEF r
  <2>4. FromHosts(r)
    BY <2>3 DEF RunetInv, FromHosts
  <2>5. QED
    BY <1>1, <2>1, <2>3, <2>4, EnginesMove
<1>3. CASE PageEnds(p)
  <2>1. PICK offer \in PageOffers(runet.results[p - Cards]) :
          runet' = [runet EXCEPT !.page[p] = "ended", !.found[p] = offer]
    BY <1>3 DEF PageEnds
  <2> DEFINE page == [runet.page EXCEPT ![p] = "ended"]
             found == [runet.found EXCEPT ![p] = offer]
             r == [runet EXCEPT !.page = page, !.found = found]
  <2>2. runet' = r
    BY <1>1, <2>1 DEF RunetSearch
  <2>3. page \in [YandexSlots -> {"queued", "fetched", "ended"}]
    BY <1>1 DEF RunetSearch
  <2>4. /\ p \in Slots /\ p - Cards \in Wanted(runet.results)
        /\ p - Cards \in DOMAIN runet.results
    <3>1. p \in Slots
      BY RunetAssumption DEF YandexSlots, Slots
    <3>2. p - Cards \in Wanted(runet.results)
      BY <1>1 DEF Fetched
    <3>3. Wanted(runet.results) \subseteq DOMAIN runet.results
      BY DEF Wanted, Kept
    <3>4. QED
      BY <3>1, <3>2, <3>3
  <2>5. runet.results[p - Cards] \in Hosts
    BY <1>1, <2>4 DEF RunetSearch
  <2>6. offer \in Keys \cup {NoOffer} /\ (offer # NoOffer => offer[1] = runet.results[p - Cards])
    BY <2>5 DEF PageOffers, Keys
  <2>7. /\ found \in [Slots -> Keys \cup {NoOffer}]
        /\ \A q \in Slots : found[q] = IF q = p THEN offer ELSE runet.found[q]
    BY <1>1, <2>4, <2>6 DEF RunetSearch
  <2> HIDE DEF page, found
  <2>8. /\ r \in RunetSearch /\ r.pc = runet.pc /\ r.list = runet.list
        /\ r.seen = runet.seen /\ r.results = runet.results /\ r.yandex = runet.yandex
        /\ r.found = found
    BY <1>1, <2>3, <2>7 DEF RunetSearch
  <2> HIDE DEF r
  <2>9. FromHosts(r)
    <3> SUFFICES ASSUME NEW q \in Slots, q > Cards, found[q] # NoOffer
                 PROVE  q - Cards \in Wanted(runet.results)
                        /\ found[q][1] = runet.results[q - Cards]
      BY <1>1, <2>8 DEF FromHosts
    <3>1. CASE q = p
      BY <2>4, <2>6, <2>7, <3>1
    <3>2. CASE q # p
      BY <2>7, <3>2 DEF RunetInv, FromHosts
    <3>3. QED
      BY <3>1, <3>2
  <2>10. QED
    BY <1>1, <2>2, <2>8, <2>9, EnginesMove
<1>4. QED
  BY <1>2, <1>3

LEMMA EnginesEndInv ==
  ASSUME RunetInv, YandexEnds \/ BothEnded
  PROVE  RunetInv' /\ runet'.list = runet.list
<1>1. /\ runet \in RunetSearch /\ runet.pc = "engines"
      /\ Cards + Len(runet.results) <= MaxSlots
  BY DEF RunetInv, RunetTypeOK, YandexEnds, BothEnded
<1>2. CASE YandexEnds
  <2> DEFINE r == [runet EXCEPT !.yandex = "done"]
  <2>1. runet' = r
    BY <1>2 DEF YandexEnds
  <2>2. /\ r \in RunetSearch /\ r.pc = runet.pc /\ r.list = runet.list
        /\ r.seen = runet.seen /\ r.results = runet.results /\ r.yandex = "done"
        /\ r.found = runet.found
    BY <1>1 DEF RunetSearch
  <2> HIDE DEF r
  <2>3. FromHosts(r)
    BY <2>2 DEF RunetInv, FromHosts
  <2>4. QED
    BY <1>1, <2>1, <2>2, <2>3, EnginesMove
<1>3. CASE BothEnded
  <2> DEFINE r == [runet EXCEPT !.pc = "merge"]
  <2>1. runet' = r
    BY <1>3 DEF BothEnded
  <2>2. /\ r \in RunetSearch /\ r.pc = "merge" /\ r.list = runet.list
        /\ r.seen = runet.seen /\ r.results = runet.results /\ r.yandex = runet.yandex
        /\ r.found = runet.found
    BY <1>1 DEF RunetSearch
  <2> HIDE DEF r
  <2>3. FromHosts(r)
    BY <2>2 DEF RunetInv, FromHosts
  <2>4. QED
    BY <1>1, <2>1, <2>2, <2>3, EnginesMove
<1>4. QED
  BY <1>2, <1>3

LEMMA MergesInv ==
  ASSUME RunetInv, Merges
  PROVE  RunetInv' /\ ListStep(runet.list, runet'.list)
<1> DEFINE i == runet.list.next
           key == runet.found[i]
           in == InList(runet.list)
           repeated == key = NoOffer \/ key \in runet.seen
           l == IF repeated THEN PassedOver(runet.list) ELSE Listed(runet.list)
           seen == IF repeated THEN runet.seen ELSE runet.seen \cup {key}
           r == [runet EXCEPT !.seen = seen, !.list = l]
<1>1. /\ runet \in RunetSearch /\ runet.pc = "merge" /\ i \in Slots
      /\ runet.list.outcome = "none" /\ Cards + Len(runet.results) <= MaxSlots
      /\ ~Full /\ ListFine(runet.list) /\ runet.list \in Listing
  BY DEF RunetInv, RunetTypeOK, RunetPlace, Merges, RunetSearch
<1>2. runet' = r
  <2>1. CASE repeated
    <3>1. runet' = [runet EXCEPT !.list = PassedOver(runet.list)]
      BY <2>1 DEF Merges, Repeated
    <3>2. QED
      BY <1>1, <2>1, <3>1 DEF RunetSearch
  <2>2. CASE ~repeated
    <3>1. runet' = [runet EXCEPT !.seen = runet.seen \cup {key}, !.list = Listed(runet.list)]
      BY <2>2 DEF Merges, Repeated
    <3>2. QED
      BY <2>2, <3>1
  <2>3. QED
    BY <2>1, <2>2
<1>3. /\ ListFine(l) /\ l \in Listing /\ l.outcome = "none" /\ l.next = i + 1
      /\ l.out = IF repeated THEN runet.list.out ELSE [runet.list.out EXCEPT ![i] = 1]
  <2>1. CASE repeated
    BY <1>1, <2>1, PassedFine DEF ListFine
  <2>2. CASE ~repeated
    <3>1. Listed(runet.list).next = i + 1
      BY DEF Listed
    <3>2. l = Listed(runet.list)
      BY <2>2
    <3>3. QED
      BY <1>1, <2>2, <3>1, <3>2, ListedFine DEF ListFine
  <2>3. QED
    BY <2>1, <2>2
<1>4. ListStep(runet.list, l)
  BY <1>1 DEF ListStep
<1>5. runet.list.out \in [Slots -> 0 .. 1] /\ runet.list.out[i] = 0 /\ i \in Nat
  BY <1>1 DEF ListFine, Listing, Slots
<1> HIDE DEF l
<1>6. InList(l) = IF repeated THEN in ELSE in \cup {i}
  <2>1. CASE repeated
    BY <1>3, <2>1 DEF InList, Has
  <2>2. CASE ~repeated
    BY <1>1, <1>3, <1>5, <2>2 DEF InList, Has
  <2>3. QED
    BY <2>1, <2>2
<1>7. i \notin in /\ \A p \in in : p < i /\ p \in Slots
  <2>1. \A p \in Slots : runet.list.out[p] = 1 => p < i
    BY <1>1, <1>5 DEF ListFine, Slots
  <2>2. QED
    BY <1>5, <2>1 DEF InList, Has
<1>8. key \in Keys \cup {NoOffer} /\ key = runet.found[i]
  BY <1>1 DEF RunetSearch
<1>9. Merged(runet.found, runet.seen, runet.list)
  BY DEF RunetInv
<1>10. runet.seen = {runet.found[p] : p \in in}
  BY <1>9 DEF Merged
<1>11. seen \in SUBSET Keys
  BY <1>1, <1>8 DEF RunetSearch
<1>12. /\ IsFiniteSet(in) /\ Cardinality(in) \in Nat /\ Cardinality(in) < Cap
  <2>1. IsFiniteSet(in) /\ Cardinality(in) \in Nat
    BY InListFinite
  <2>2. ~(Cardinality(in) >= Cap)
    BY <1>1 DEF Full
  <2>3. QED
    BY <2>1, <2>2, RunetAssumption
<1> HIDE DEF in, key, seen
<1>13. Merged(runet.found, seen, l)
  <2>1. CASE repeated
    <3>1. InList(l) = in /\ seen = runet.seen
      BY <1>6, <2>1 DEF seen
    <3>2. runet.found[i] = NoOffer \/ \E q \in in : q < i /\ runet.found[q] = runet.found[i]
      BY <1>7, <1>8, <1>10, <2>1
    <3>3. \A p \in Slots \ in : p < i + 1 =>
            runet.found[p] = NoOffer \/ \E q \in in : q < p /\ runet.found[q] = runet.found[p]
      <4> SUFFICES ASSUME NEW p \in Slots \ in, p < i + 1
                   PROVE  runet.found[p] = NoOffer
                            \/ \E q \in in : q < p /\ runet.found[q] = runet.found[p]
        OBVIOUS
      <4>1. p \in Nat
        BY DEF Slots
      <4>2. CASE p = i
        BY <3>2, <4>2
      <4>3. CASE p < i
        BY <1>9, <4>3 DEF Merged, in
      <4>4. QED
        BY <1>5, <4>1, <4>2, <4>3
    <3>4. QED
      BY <1>3, <1>9, <3>1, <3>3 DEF Merged, in
  <2>2. CASE ~repeated
    <3>1. InList(l) = in \cup {i} /\ seen = runet.seen \cup {key}
      BY <1>6, <2>2 DEF seen
    <3>2. seen = {runet.found[p] : p \in InList(l)}
      BY <1>8, <1>10, <3>1
    <3>3. Cardinality(InList(l)) <= Cap
      <4>1. Cardinality(in \cup {i}) = Cardinality(in) + 1
        BY <1>7, <1>12, FS_AddElement
      <4>2. QED
        BY <1>12, <3>1, <4>1, RunetAssumption
    <3>4. \A p \in InList(l) : runet.found[p] # NoOffer
      BY <1>8, <1>9, <2>2, <3>1 DEF Merged, in
    <3>5. \A p \in in : runet.found[p] # runet.found[i]
      BY <1>8, <1>10, <2>2
    <3>6. \A p, q \in InList(l) : runet.found[p] = runet.found[q] => p = q
      BY <1>9, <3>1, <3>5 DEF Merged, in
    <3>7. \A p \in Slots \ InList(l) : p < i + 1 =>
            runet.found[p] = NoOffer
              \/ \E q \in InList(l) : q < p /\ runet.found[q] = runet.found[p]
      <4> SUFFICES ASSUME NEW p \in Slots \ InList(l), p < i + 1
                   PROVE  runet.found[p] = NoOffer
                            \/ \E q \in InList(l) : q < p /\ runet.found[q] = runet.found[p]
        OBVIOUS
      <4>1. p < i /\ p \in Slots \ in
        BY <1>5, <3>1 DEF Slots
      <4>2. QED
        BY <1>9, <3>1, <4>1 DEF Merged, in
    <3>8. QED
      BY <1>3, <3>2, <3>3, <3>4, <3>6, <3>7 DEF Merged
  <2>3. QED
    BY <2>1, <2>2
<1>14. /\ r \in RunetSearch /\ r.pc = "merge" /\ r.list = l /\ r.seen = seen
       /\ r.results = runet.results /\ r.yandex = runet.yandex /\ r.found = runet.found
  BY <1>1, <1>3, <1>11 DEF RunetSearch
<1> HIDE DEF r
<1>15. RunetTypeOK'
  BY <1>1, <1>2, <1>14 DEF RunetTypeOK
<1>16. ListFine(runet.list)' /\ Merged(runet.found, runet.seen, runet.list)'
  BY <1>2, <1>3, <1>13, <1>14
<1>17. FromHosts(runet)'
  BY <1>2, <1>14 DEF RunetInv, FromHosts
<1>18. RunetPlace'
  <2>1. runet'.pc = "merge" /\ runet'.list.outcome = "none"
    BY <1>2, <1>3, <1>14
  <2>2. QED
    BY <2>1 DEF RunetPlace
<1>19. QED
  BY <1>2, <1>4, <1>14, <1>15, <1>16, <1>17, <1>18 DEF RunetInv

LEMMA RunetNextInv ==
  ASSUME RunetInv, RunetNext
  PROVE  RunetInv' /\ ListStep(runet.list, runet'.list)
<1>1. CASE RunetStart
  <2>1. runet = NoRunetSearch
    BY <1>1 DEF RunetStart
  <2>2. CASE RunetEnds("offers")
    <3>1. \A p \in Slots : runet.found[p] = NoOffer
      BY <2>1, NoRunetFine
    <3>2. RunetInv' /\ runet'.list = Ended(runet.list, "offers")
      BY <2>2, <3>1, RunetEndsInv
    <3>3. runet.list.outcome = "none"
      BY <2>1, NoRunetFine DEF NewListing
    <3>4. QED
      BY <3>2, <3>3 DEF ListStep
  <2>3. CASE runet' = [runet EXCEPT !.pc = "engines"]
    <3>1. runet' = [NoRunetSearch EXCEPT !.pc = "engines"]
      BY <2>1, <2>3
    <3>2. QED
      BY <3>1, RunetBegins DEF ListStep
  <2>4. QED
    BY <1>1, <2>2, <2>3 DEF RunetStart
<1>2. CASE YandexRaises
  <2>1. runet.list.outcome = "none" /\ RunetEnds("error")
    BY <1>2 DEF YandexRaises, RunetInv, RunetPlace
  <2>2. RunetInv' /\ runet'.list = Ended(runet.list, "error")
    BY <2>1, RunetEndsInv
  <2>3. QED
    BY <2>1, <2>2 DEF ListStep
<1>3. CASE RunetReturns
  <2>1. /\ runet.list.outcome = "none" /\ RunetEnds("offers")
        /\ Full \/ runet.list.next \notin Slots
    BY <1>3 DEF RunetReturns, RunetInv, RunetPlace
  <2>2. RunetInv' /\ runet'.list = Ended(runet.list, "offers")
    BY <2>1, RunetEndsInv
  <2>3. QED
    BY <2>1, <2>2 DEF ListStep
<1>4. CASE RunetGone
  <2>1. runet' = [NoRunetSearch EXCEPT !.pc = "idle"]
    <3>1. NoRunetSearch = [NoRunetSearch EXCEPT !.pc = "idle"]
      <4>1. NoRunetSearch \in RunetSearch /\ NoRunetSearch.pc = "idle"
        BY NoRunetFine
      <4>2. QED
        BY <4>1 DEF RunetSearch
    <3>2. QED
      BY <1>4, <3>1 DEF RunetGone
  <2>2. QED
    BY <2>1, RunetBegins DEF ListStep
<1>5. CASE Merges
  BY <1>5, MergesInv
<1>6. CASE \/ GoogleEnds \/ YandexAnswers \/ YandexEnds \/ BothEnded
           \/ \E p \in YandexSlots : PageStarts(p) \/ PageEnds(p)
  BY <1>6, GoogleEndsInv, YandexAnswersInv, PageMovesInv, EnginesEndInv DEF ListStep
<1>7. QED
  BY <1>1, <1>2, <1>3, <1>4, <1>5, <1>6 DEF RunetNext

LEMMA RunetMergedOnce ==
  ASSUME RunetInv
  PROVE  MergedOnce
<1> DEFINE in == InList(runet.list)
           found == runet.found
<1> SUFFICES ASSUME runet.list.outcome = "offers"
             PROVE  /\ Cardinality(in) <= Cap
                    /\ \A p \in in : found[p] # NoOffer
                    /\ \A p, q \in in : found[p] = found[q] => p = q
                    /\ \A p \in Slots \ in :
                          \/ found[p] = NoOffer
                          \/ \E q \in in : q < p /\ found[q] = found[p]
                          \/ Cardinality(in) = Cap /\ \A q \in in : q < p
                    /\ \A p \in in : p > Cards => found[p][1] \notin Excluded
  BY DEF MergedOnce
<1>1. Merged(found, runet.seen, runet.list)
  BY DEF RunetInv
<1>2. /\ Cardinality(in) <= Cap
      /\ \A p \in in : found[p] # NoOffer
      /\ \A p, q \in in : found[p] = found[q] => p = q
  BY <1>1 DEF Merged
<1>3. \A p \in in : p \in Slots /\ p < runet.list.next
  <2>1. \A p \in Slots : runet.list.out[p] = 1 => p < runet.list.next
    BY DEF RunetInv, ListFine, Listing, Slots
  <2>2. QED
    BY <2>1 DEF InList, Has
<1>4. ASSUME NEW p \in Slots \ in
      PROVE  \/ found[p] = NoOffer
             \/ \E q \in in : q < p /\ found[q] = found[p]
             \/ Cardinality(in) = Cap /\ \A q \in in : q < p
  <2>1. runet.list.next \in Nat \ {0} /\ p \in Nat
    BY DEF RunetInv, ListFine, Listing, Slots
  <2>2. CASE p < runet.list.next
    BY <1>1, <2>2 DEF Merged
  <2>3. CASE p >= runet.list.next /\ found[p] # NoOffer
    <3>1. runet.list.next \in Slots
      BY <2>1, <2>3 DEF Slots
    <3>2. Full
      BY <2>3, <3>1 DEF RunetInv, RunetPlace
    <3>3. Cardinality(in) \in Nat /\ Cap \in Nat
      BY InListFinite, RunetAssumption
    <3>4. Cardinality(in) = Cap
      BY <1>2, <3>2, <3>3 DEF Full
    <3>5. \A q \in in : q < p
      BY <1>3, <2>1, <2>3 DEF Slots
    <3>6. QED
      BY <3>4, <3>5
  <2>4. QED
    BY <2>1, <2>2, <2>3
<1>5. ASSUME NEW p \in in, p > Cards
      PROVE  found[p][1] \notin Excluded
  <2>1. p - Cards \in Wanted(runet.results) /\ found[p][1] = runet.results[p - Cards]
    BY <1>2, <1>3, <1>5 DEF RunetInv, FromHosts
  <2>2. \A n \in Wanted(runet.results) : runet.results[n] \notin Excluded
    BY DEF Wanted, Kept
  <2>3. QED
    BY <2>1, <2>2
<1>6. QED
  BY <1>2, <1>4, <1>5

-----------------------------------------------------------------------------
(***************************************************************************)
(* Yandex Market.                                                          *)
(***************************************************************************)

MarketInv ==
  /\ MarketTypeOK
  /\ ListFine(market.list)
  /\ market.pc # "idle" => market.list.outcome = "none"

LEMMA NoMarketFine ==
  /\ NoMarketSearch \in MarketSearch /\ NoMarketSearch.list = NewListing
  /\ NoMarketSearch.found = <<>> /\ Len(NoMarketSearch.found) <= MaxSlots
BY NewListFine DEF NoMarketSearch, MarketSearch, ListFine

\* A step that leaves the market's search as r.
LEMMA MarketMoves ==
  ASSUME NEW r \in MarketSearch, Len(r.found) <= MaxSlots, ListFine(r.list),
         r.pc # "idle" => r.list.outcome = "none", market' = r
  PROVE  MarketInv'
<1>1. ListFine(market.list)'
  <2>1. ListFine(r.list)
    OBVIOUS
  <2>2. QED
    BY <2>1
<1>2. QED
  BY <1>1 DEF MarketInv, MarketTypeOK

LEMMA MarketEndsInv ==
  ASSUME MarketInv, NEW outcome \in {"offers", "error"}, MarketEnds(outcome)
  PROVE  MarketInv' /\ market'.list = Ended(market.list, outcome)
<1> DEFINE l == Ended(market.list, outcome)
           r == [market EXCEPT !.pc = "idle", !.list = l]
<1>1. ListFine(l) /\ l \in Listing
  BY EndedFine DEF MarketInv, ListFine
<1>2. market' = r
  BY DEF MarketEnds
<1> HIDE DEF l
<1>3. market \in MarketSearch /\ Len(market.found) <= MaxSlots
  BY DEF MarketInv, MarketTypeOK
<1>4. r \in MarketSearch /\ r.pc = "idle" /\ r.list = l /\ r.found = market.found
  BY <1>1, <1>3 DEF MarketSearch
<1> HIDE DEF r
<1>5. QED
  BY <1>1, <1>2, <1>3, <1>4, MarketMoves DEF l

LEMMA MarketConvertsInv ==
  ASSUME MarketInv, MarketConverts
  PROVE  MarketInv' /\ ListStep(market.list, market'.list)
<1> DEFINE i == market.list.next
           makes == market.found[i]
           l == Round(market.list, makes)
           pc == IF makes = "raises" THEN "idle" ELSE "convert"
           r == [market EXCEPT !.pc = pc, !.list = l]
<1>1. /\ market \in MarketSearch /\ Len(market.found) <= MaxSlots /\ ListFine(market.list)
      /\ market.pc = "convert" /\ market.list.outcome = "none"
  BY DEF MarketInv, MarketTypeOK, MarketConverts
<1>2. i \in DOMAIN market.found
  BY DEF MarketConverts, MarketFull
<1>3. i \in Slots
  <2>1. market.found \in Seq(Makes)
    BY <1>1 DEF MarketSearch
  <2>2. DOMAIN market.found = 1 .. Len(market.found) /\ Len(market.found) \in Nat
    BY <2>1, LenProperties
  <2>3. QED
    BY <1>1, <1>2, <2>2 DEF Slots
<1>4. market' = r
  BY <1>1 DEF MarketConverts
<1>5. \/ makes = "raises" /\ l = Ended(market.list, "error")
      \/ makes # "raises" /\ l = PassedOver(market.list)
      \/ makes # "raises" /\ l = Listed(market.list)
  BY DEF Round
<1> HIDE DEF l
<1>6. ListStep(market.list, l)
  BY <1>1, <1>3, <1>5 DEF ListStep
<1>7. ListFine(l) /\ l \in Listing
  BY <1>1, <1>6, ListStays DEF ListFine
<1>8. makes # "raises" => l.outcome = "none"
  BY <1>1, <1>3, <1>5, ListedFine, PassedFine
<1>9. pc \in {"idle", "convert"} /\ (pc # "idle" => l.outcome = "none")
  BY <1>8
<1> HIDE DEF pc
<1>10. r \in MarketSearch /\ r.pc = pc /\ r.list = l /\ r.found = market.found
  BY <1>1, <1>7, <1>9 DEF MarketSearch
<1> HIDE DEF r
<1>11. MarketInv'
  BY <1>1, <1>4, <1>7, <1>9, <1>10, MarketMoves
<1>12. QED
  BY <1>4, <1>6, <1>10, <1>11

LEMMA MarketNextInv ==
  ASSUME MarketInv, MarketNext
  PROVE  MarketInv' /\ ListStep(market.list, market'.list)
<1>1. /\ market \in MarketSearch /\ Len(market.found) <= MaxSlots /\ ListFine(market.list)
      /\ market.pc # "idle" => market.list.outcome = "none"
  BY DEF MarketInv, MarketTypeOK
<1>2. CASE MarketStart
  <2> DEFINE r == [market EXCEPT !.pc = "asked"]
  <2>1. market' = r /\ market = NoMarketSearch
    BY <1>2 DEF MarketStart
  <2>2. /\ r \in MarketSearch /\ r.pc = "asked" /\ r.list = market.list
        /\ r.found = market.found
    BY <1>1 DEF MarketSearch
  <2>3. market.list.outcome = "none"
    BY <2>1, NoMarketFine DEF NewListing
  <2> HIDE DEF r
  <2>4. MarketInv'
    BY <1>1, <2>1, <2>2, <2>3, MarketMoves
  <2>5. QED
    BY <2>1, <2>2, <2>4 DEF ListStep
<1>3. CASE MarketFails
  <2>1. MarketEnds("error") /\ market.list.outcome = "none"
    BY <1>1, <1>3 DEF MarketFails
  <2>2. MarketInv' /\ market'.list = Ended(market.list, "error")
    BY <2>1, MarketEndsInv
  <2>3. QED
    BY <2>1, <2>2 DEF ListStep
<1>4. CASE MarketAnswers
  <2>1. PICK n \in 0 .. MaxSlots : \E found \in [1 .. n -> Makes] :
          market' = [market EXCEPT !.pc = "convert", !.found = found]
    BY <1>4 DEF MarketAnswers
  <2>2. PICK found \in [1 .. n -> Makes] :
          market' = [market EXCEPT !.pc = "convert", !.found = found]
    BY <2>1
  <2>3. found \in Seq(Makes) /\ Len(found) <= MaxSlots
    BY <2>1
  <2> DEFINE r == [market EXCEPT !.pc = "convert", !.found = found]
  <2>4. /\ r \in MarketSearch /\ r.pc = "convert" /\ r.list = market.list
        /\ r.found = found
    BY <1>1, <2>3 DEF MarketSearch
  <2>5. market.list.outcome = "none"
    BY <1>1, <1>4 DEF MarketAnswers
  <2>6. market' = r
    BY <2>2
  <2> HIDE DEF r
  <2>7. MarketInv'
    BY <1>1, <2>3, <2>4, <2>5, <2>6, MarketMoves
  <2>8. QED
    BY <2>4, <2>6, <2>7 DEF ListStep
<1>5. CASE MarketConverts
  BY <1>5, MarketConvertsInv
<1>6. CASE MarketReturns
  <2>1. MarketEnds("offers") /\ market.list.outcome = "none"
    BY <1>1, <1>6 DEF MarketReturns
  <2>2. MarketInv' /\ market'.list = Ended(market.list, "offers")
    BY <2>1, MarketEndsInv
  <2>3. QED
    BY <2>1, <2>2 DEF ListStep
<1>7. CASE MarketGone
  <2>1. market' = NoMarketSearch
    BY <1>7 DEF MarketGone
  <2>2. /\ NoMarketSearch.pc = "idle" /\ ListFine(NoMarketSearch.list)
    BY NoMarketFine, NewListFine DEF NoMarketSearch
  <2>3. MarketInv'
    BY <2>1, <2>2, NoMarketFine, MarketMoves
  <2>4. QED
    BY <2>1, <2>3, NoMarketFine DEF ListStep
<1>8. QED
  BY <1>2, <1>3, <1>4, <1>5, <1>6, <1>7 DEF MarketNext

-----------------------------------------------------------------------------
(***************************************************************************)
(* The adapters side by side.                                              *)
(***************************************************************************)

IInv == WBInv /\ RunetInv /\ MarketInv

LEMMA InitInv ==
  ASSUME SourcesInit
  PROVE  IInv
<1>1. WBInv
  BY NoWBInv DEF SourcesInit, WBInit
<1>2. RunetInv
  <2>1. runet = NoRunetSearch
    BY DEF SourcesInit, RunetInit
  <2>2. RunetTypeOK /\ FromHosts(runet) /\ ListFine(runet.list)
    BY <2>1, NoRunetFine, NewListFine DEF RunetTypeOK
  <2>3. runet.pc = "idle" /\ runet.list.outcome = "none"
    BY <2>1, NoRunetFine DEF NewListing
  <2>4. Merged(runet.found, runet.seen, runet.list)
    BY <2>1, NoRunetFine, NewMerged
  <2>5. QED
    BY <2>2, <2>3, <2>4 DEF RunetInv, RunetPlace
<1>3. MarketInv
  <2>1. market = NoMarketSearch
    BY DEF SourcesInit, MarketInit
  <2>2. market.pc = "idle" /\ ListFine(market.list)
    BY <2>1, NoMarketFine, NewListFine DEF NoMarketSearch
  <2>3. QED
    BY <2>1, <2>2, NoMarketFine DEF MarketInv, MarketTypeOK
<1>4. QED
  BY <1>1, <1>2, <1>3 DEF IInv

LEMMA WBStays ==
  ASSUME WBInv, UNCHANGED wb
  PROVE  WBInv'
<1>1. (WBTypeOK /\ ListFine(wb.list))'
  BY DEF WBInv, WBTypeOK, ListFine
<1>2. (TasksFine /\ WBPlace /\ Decided /\ AllDecided)'
  BY DEF WBInv, TasksFine, WBPlace, Decided, AllDecided
<1>3. QED
  BY <1>1, <1>2 DEF WBInv

LEMMA RunetStays ==
  ASSUME RunetInv, UNCHANGED runet
  PROVE  RunetInv'
<1>1. (RunetTypeOK /\ RunetPlace)'
  BY DEF RunetInv, RunetTypeOK, RunetPlace, Full
<1>2. (ListFine(runet.list) /\ FromHosts(runet) /\ Merged(runet.found, runet.seen, runet.list))'
  BY DEF RunetInv
<1>3. QED
  BY <1>1, <1>2 DEF RunetInv

LEMMA MarketStays ==
  ASSUME MarketInv, UNCHANGED market
  PROVE  MarketInv'
BY DEF MarketInv, MarketTypeOK, ListFine

LEMMA NextInv ==
  ASSUME IInv, [SourcesNext]_sources
  PROVE  IInv'
BY WBNextInv, RunetNextInv, MarketNextInv, WBStays, RunetStays, MarketStays
   DEF IInv, SourcesNext, sources

LEMMA Invariance == SourcesSpec => []IInv
<1>1. SourcesInit => IInv
  BY InitInv
<1>2. IInv /\ [SourcesNext]_sources => IInv'
  BY NextInv
<1>3. QED
  BY <1>1, <1>2, PTL DEF SourcesSpec

\* A product of Wildberries is returned just if its page and the card that lies
\* within reach, and was not lost, make an offer, whatever the table of shards
\* and however the tasks interleave.
THEOREM EachAlone == SourcesSpec => []EachOnItsOwn
<1>1. IInv => EachOnItsOwn
  BY WBEach DEF IInv
<1>2. QED
  BY <1>1, Invariance, PTL

\* What the Runet adapter returns is within its limit, without repetition and
\* without a marketplace's own results, and leaves out no offer but for one
\* before it or because the list is full.
THEOREM MergeIsSound == SourcesSpec => []MergedOnce
<1>1. IInv => MergedOnce
  BY RunetMergedOnce DEF IInv
<1>2. QED
  BY <1>1, Invariance, PTL

LEMMA SearchIs ==
  /\ searches = [b \in Adapters |-> searches[b]]
  /\ searches["wb"] = Seen(wb.list) /\ searches["runet"] = Seen(runet.list)
  /\ searches["market"] = Seen(market.list)
  /\ Adapters = {"wb", "runet", "market"}
BY DEF searches, Adapters

LEMMA ShownNext ==
  ASSUME IInv, [SourcesNext]_sources
  PROVE  [Listings!Next]_searches
<1>1. CASE WBNext /\ UNCHANGED <<runet, market>>
  <2>1. ListFine(wb.list) /\ ListStep(wb.list, wb'.list)
    BY <1>1, WBNextInv DEF IInv, WBInv
  <2>2. searches' = [searches EXCEPT !["wb"] = Seen(wb'.list)]
    BY <1>1 DEF searches, Adapters
  <2>3. QED
    BY <2>1, <2>2, SearchIs, StepShown
<1>2. CASE RunetNext /\ UNCHANGED <<wb, market>>
  <2>1. ListFine(runet.list) /\ ListStep(runet.list, runet'.list)
    BY <1>2, RunetNextInv DEF IInv, RunetInv
  <2>2. searches' = [searches EXCEPT !["runet"] = Seen(runet'.list)]
    BY <1>2 DEF searches, Adapters
  <2>3. QED
    BY <2>1, <2>2, SearchIs, StepShown
<1>3. CASE MarketNext /\ UNCHANGED <<wb, runet>>
  <2>1. ListFine(market.list) /\ ListStep(market.list, market'.list)
    BY <1>3, MarketNextInv DEF IInv, MarketInv
  <2>2. searches' = [searches EXCEPT !["market"] = Seen(market'.list)]
    BY <1>3 DEF searches, Adapters
  <2>3. QED
    BY <2>1, <2>2, SearchIs, StepShown
<1>4. CASE UNCHANGED sources
  BY <1>4 DEF sources, searches
<1>5. QED
  BY <1>1, <1>2, <1>3, <1>4 DEF SourcesNext

\* What the orchestrator sees of the three adapters is a behaviour of Adapter:
\* offers reported once each, and then a list of just these or an error.
THEOREM AllImplement == SourcesSpec => AdaptersImplemented
<1>1. SourcesInit => Listings!Init
  BY DEF SourcesInit, WBInit, RunetInit, MarketInit, NoWBSearch, NoRunetSearch, NoMarketSearch,
         Listings!Init, searches, Seen, NewListing, Nothing, Listings!NoSearch, Listings!Never
<1>2. IInv /\ [SourcesNext]_sources => [Listings!Next]_searches
  BY ShownNext
<1>3. QED
  BY <1>1, <1>2, Invariance, PTL DEF SourcesSpec, AdaptersImplemented, Listings!Spec

=============================================================================
