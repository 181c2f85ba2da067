------------------------------ MODULE WBSource ------------------------------
(***************************************************************************)
(* The Wildberries adapter: WildberriesScraper.search of scrapers/wb.py,   *)
(* with fetch_card (wb_card.py), the shard table (wb_basket.py) and        *)
(* fetch_wb_feedbacks (wb_feedbacks.py).                                   *)
(*                                                                         *)
(* The search page is read in a browser (TabBrowser); what it shows is     *)
(* then enriched by one task for each product: its card, looked for on a   *)
(* shard of the CDN that is computed from the product's number and then on *)
(* the shards around it, and its reviews.  A card or reviews that cannot   *)
(* be had, or that break their parser, are to cost no other product        *)
(* anything.                                                               *)
(*                                                                         *)
(* An operator that is used nowhere is the one that follows it with a      *)
(* mistake the code could have made.                                       *)
(***************************************************************************)
EXTENDS Listing, Integers, Sequences, FiniteSets

CONSTANTS
  Products,  \* what the search page may show
  Table,     \* _RANGES: Table[s] is the last volume of shard s
  Width,     \* volumes of a shard past the table (312)
  Reach,     \* how far from the computed shard fetch_card looks (5)
  MaxShard,  \* the last shard there is for it (60)
  Room,      \* wb_enrich_concurrency
  Limit      \* offers that the orchestrator asks for

\* What an offer is made of, from the page or else from the card.
Facts == {"name", "price", "imt"}

Product == [page: SUBSET Facts,  \* what the search page tells of it
            card: SUBSET Facts,  \* and what its card does
            odd: BOOLEAN,        \* its card breaks _parse_card
            refused: BOOLEAN,    \* no ProductOffer can be made of it
            vol: Nat,            \* nm_id // 100_000
            home: Nat]           \* the shard that has its card (0: none)

ASSUME ProductsAssumption == Products \subseteq Product
ASSUME TableAssumption == /\ Table \in Seq(Nat) /\ Table # <<>>
                          /\ \A s, t \in DOMAIN Table : s < t => Table[s] < Table[t]
ASSUME WBNumbersAssumption ==
  /\ Width \in Nat \ {0} /\ Reach \in Nat /\ MaxShard \in Nat
  /\ Room \in Nat \ {0} /\ Limit \in 1 .. 50

VARIABLE wb  \* the search of Wildberries

\* The enrichment of one product, _enrich_one behind the semaphore.
Task == [at: {"queued", "card", "reviews", "ended", "crashed"},
         try: 0 .. 2 * Reach,  \* which of its shards is asked
         carded: BOOLEAN,      \* it has its card
         lost: BOOLEAN]        \* observes: the shard with its card gave no answer

NewTask == [at |-> "queued", try |-> 0, carded |-> FALSE, lost |-> FALSE]

WBSearch == [pc: {"idle", "page", "enrich", "convert"},
             stub: Seq(Products),  \* what the search page showed
             task: Seq(Task),      \* the enrichment of each
             list: Listing]

NoWBSearch == [pc |-> "idle", stub |-> <<>>, task |-> <<>>, list |-> NewListing]

WBTypeOK == wb \in WBSearch /\ Len(wb.task) = Len(wb.stub) /\ Len(wb.stub) <= MaxSlots

WBInit == wb = NoWBSearch

WBEnds(outcome) == wb' = [wb EXCEPT !.pc = "idle", !.list = Ended(@, outcome)]

-----------------------------------------------------------------------------
(***************************************************************************)
(* Which shards are asked for a card.                                      *)
(***************************************************************************)

\* basket_for: the first shard of the table whose last volume is not passed,
\* or, beyond the table, a linear extrapolation.
BasketFor(vol) ==
  LET last == Len(Table)
      within == {s \in 1 .. last : vol <= Table[s]}
  IN IF within # {}
     THEN CHOOSE s \in within : \A t \in within : s <= t
     ELSE last + 1 + (vol - Table[last]) \div Width

\* The shard of each try: the computed one, the next, the one before, ...
Shard(p, try) ==
  BasketFor(p.vol) + (IF try % 2 = 1 THEN (try + 1) \div 2 ELSE - (try \div 2))

TriesShort(p) == {t \in 0 .. 2 * Reach - 1 : t = 0 \/ Shard(p, t) \in 1 .. MaxShard}

\* fetch_card's candidates, of which the first is asked whatever it is.
Tries(p) == {t \in 0 .. 2 * Reach : t = 0 \/ Shard(p, t) \in 1 .. MaxShard}

NextTry(p, try) ==
  CHOOSE t \in Tries(p) : t > try /\ \A u \in Tries(p) : u > try => t <= u

-----------------------------------------------------------------------------
(***************************************************************************)
(* The enrichment of stub p, of which r is the state.                      *)
(***************************************************************************)

Known(p, r) == p.page \cup (IF r.carded THEN p.card ELSE {})

\* The card is there, or is given up: reviews are asked for if the product's
\* imt_id is known.
CardDone(p, r) == [r EXCEPT !.at = IF "imt" \in Known(p, r) THEN "reviews" ELSE "ended"]

\* The shard has no such card or gives no answer; the next is asked.
Elsewhere(p, r) ==
  IF \E t \in Tries(p) : t > r.try
  THEN [r EXCEPT !.try = NextTry(p, r.try)]
  ELSE CardDone(p, r)

\* What one request of fetch_card may come to: no answer, a status that is
\* not 200, or no JSON; or else the card, which may break its parser.
ShardAnswers(p, r) ==
  IF Shard(p, r.try) # p.home THEN {Elsewhere(p, r)}
  ELSE {Elsewhere(p, [r EXCEPT !.lost = TRUE]),
        IF p.odd THEN [r EXCEPT !.at = "crashed"]
                 ELSE CardDone(p, [r EXCEPT !.carded = TRUE])}

\* fetch_wb_feedbacks asks two hosts in two versions and answers with a page,
\* if only an empty one; whatever it raises is caught.
ReviewsEnd(r) == [r EXCEPT !.at = "ended"]

\* The conversion after gather(return_exceptions=True): _stub_to_offer wants
\* a name and a price, and ProductOffer may refuse what it is given.
Offered(p, r) ==
  r.at # "crashed" /\ {"name", "price"} \subseteq Known(p, r) /\ ~p.refused

-----------------------------------------------------------------------------
(***************************************************************************)
(* The search.                                                             *)
(***************************************************************************)

WBStart ==
  /\ wb = NoWBSearch
  /\ wb' = [wb EXCEPT !.pc = "page"]

\* No browser, an exception or an error in what dom_search returns.
PageFails ==
  /\ wb.pc = "page"
  /\ WBEnds("error")

\* The products that _normalize_stub accepts, at most as many as asked for,
\* or none: then the search is over.
PageAnswers ==
  /\ wb.pc = "page"
  /\ \/ WBEnds("offers")
     \/ \E n \in 1 .. MaxSlots : \E stub \in [1 .. n -> Products] :
           /\ n <= Limit
           /\ wb' = [wb EXCEPT !.pc = "enrich", !.stub = stub,
                               !.task = [i \in 1 .. n |-> NewTask]]

Running == {i \in DOMAIN wb.task : wb.task[i].at \in {"card", "reviews"}}

\* The semaphore lets tasks in in their order.
Enters(i) ==
  /\ wb.task[i].at = "queued"
  /\ \A j \in DOMAIN wb.task : wb.task[j].at = "queued" => i <= j
  /\ Cardinality(Running) < Room
  /\ wb' = [wb EXCEPT !.task[i].at = "card"]

AsksShard(i) ==
  /\ wb.task[i].at = "card"
  /\ \E r \in ShardAnswers(wb.stub[i], wb.task[i]) : wb' = [wb EXCEPT !.task[i] = r]

AsksReviews(i) ==
  /\ wb.task[i].at = "reviews"
  /\ wb' = [wb EXCEPT !.task[i] = ReviewsEnd(@)]

\* gather has all its results, exceptions among them.
Gathered ==
  /\ wb.pc = "enrich"
  /\ \A i \in DOMAIN wb.task : wb.task[i].at \in {"ended", "crashed"}
  /\ wb' = [wb EXCEPT !.pc = "convert"]

\* One round of the loop over the results.
Converts ==
  /\ wb.pc = "convert"
  /\ LET i == wb.list.next IN
       /\ i \in DOMAIN wb.stub
       /\ wb' = [wb EXCEPT !.list = IF Offered(wb.stub[i], wb.task[i])
                                    THEN Listed(@) ELSE PassedOver(@)]

WBReturns ==
  /\ wb.pc = "convert"
  /\ wb.list.next \notin DOMAIN wb.stub
  /\ WBEnds("offers")

\* The orchestrator has the result, or it cancels the search at an await.
WBGone ==
  /\ wb # NoWBSearch
  /\ wb' = NoWBSearch

WBNext ==
  \/ WBStart
  \/ PageFails
  \/ PageAnswers
  \/ \E i \in DOMAIN wb.task : Enters(i) \/ AsksShard(i) \/ AsksReviews(i)
  \/ Gathered
  \/ Converts
  \/ WBReturns
  \/ WBGone

WBSpec == WBInit /\ [][WBNext]_wb

-----------------------------------------------------------------------------

\* The shards within Reach of the computed one, which is asked in any case.
Reached(p) ==
  \/ p.home = BasketFor(p.vol)
  \/ /\ p.home \in 1 .. MaxShard
     /\ p.home - BasketFor(p.vol) \in - Reach .. Reach

\* A product is returned if its own page and card make an offer, its card
\* being counted if it lies within reach and was not lost on the way; a card
\* that breaks its parser costs this product, and nothing that happens to
\* another product's card or reviews costs it anything.  Nor does a product
\* cost the search: one that fails has reported nothing, on which the stale
\* copy that is then served relies (AdapterFails of SearchStream).
EachOnItsOwn ==
  /\ wb.list.outcome = "error" => wb.list.emitted = Nothing
  /\ wb.list.outcome = "offers" =>
       \A i \in DOMAIN wb.stub :
         LET p == wb.stub[i]
             there == Reached(p) /\ ~wb.task[i].lost
         IN Has(wb.list, i) <=>
              /\ there => ~p.odd
              /\ ~p.refused
              /\ {"name", "price"} \subseteq p.page \cup (IF there THEN p.card ELSE {})

=============================================================================
