----------------------------- MODULE RunetSource -----------------------------
(***************************************************************************)
(* The Runet adapter (RunetScraper of scrapers/runet.py): Google Shopping, *)
(* whose cards are offers as they stand, and Yandex's results, of which    *)
(* the shop's own page is fetched and read for a product.  Both are asked  *)
(* at once, by gather; what they find is merged without repetition, with   *)
(* Google's first, up to the limit.                                        *)
(*                                                                         *)
(* The slots of the listing are Google's cards and, after them, Yandex's   *)
(* results.  The browsers are the subject of TabBrowser.                   *)
(***************************************************************************)
EXTENDS Listing, Sequences, FiniteSets

CONSTANTS
  Names,     \* the sellers that Google's cards name
  Hosts,     \* the hosts of Yandex's results, which are the sellers there
  Excluded,  \* the hosts of _EXCLUDED_HOSTS
  Titles,    \* the first 50 characters of an offer's name
  NoOffer,   \* what a slot without an offer has
  Cards,     \* Google's slots
  Fanout,    \* shop pages fetched for each offer asked for (3)
  Pages,     \* enrich_concurrency of the shop pages
  Cap        \* offers that the orchestrator asks for

\* Both engines' offers are told apart by _dedup_key.
Keys == (Names \cup Hosts) \X Titles

ASSUME RunetAssumption ==
  /\ Excluded \subseteq Hosts /\ NoOffer \notin Keys
  /\ Cards \in 0 .. MaxSlots /\ Fanout \in Nat \ {0}
  /\ Pages \in Nat \ {0} /\ Cap \in Nat \ {0}

VARIABLE runet  \* the search of the Runet

YandexSlots == (Cards + 1) .. MaxSlots
Results == UNION {[1 .. n -> Hosts] : n \in 0 .. MaxSlots - Cards}

RunetSearch == [pc: {"idle", "engines", "merge"},
                google: {"asked", "done"},
                yandex: {"asked", "pages", "done"},
                results: Seq(Hosts),                    \* what Yandex found
                page: [YandexSlots -> {"queued", "fetched", "ended"}],
                found: [Slots -> Keys \cup {NoOffer}],  \* the engines' offers
                seen: SUBSET Keys,                      \* `seen` of the merge
                list: Listing]

NoRunetSearch == [pc |-> "idle", google |-> "asked", yandex |-> "asked", results |-> <<>>,
                  page |-> [p \in YandexSlots |-> "queued"],
                  found |-> [p \in Slots |-> NoOffer], seen |-> {}, list |-> NewListing]

RunetTypeOK == runet \in RunetSearch /\ Cards + Len(runet.results) <= MaxSlots

RunetInit == runet = NoRunetSearch

RunetEnds(outcome) ==
  runet' = [runet EXCEPT !.pc = "idle", !.list = Ended(@, outcome)]

RunetStart ==
  /\ runet = NoRunetSearch
  /\ \/ RunetEnds("offers")  \* a blank query
     \/ runet' = [runet EXCEPT !.pc = "engines"]

-----------------------------------------------------------------------------
(***************************************************************************)
(* The engines.  That a browser or a page fails is an answer with nothing. *)
(***************************************************************************)

\* _google_stub_to_offer: a card makes an offer or, without a title or a price
\* of 100 or more, none.
GoogleOffers == Names \X Titles \cup {NoOffer}

\* _google_subsearch ends.
GoogleEnds ==
  /\ runet.pc = "engines" /\ runet.google = "asked"
  /\ \E cards \in [1 .. Cards -> GoogleOffers] :
        runet' = [runet EXCEPT !.google = "done",
                    !.found = [p \in Slots |-> IF p <= Cards THEN cards[p] ELSE @[p]]]

\* The results that _yandex_subsearch keeps: not those of the marketplaces,
\* and the first of each host.
Kept(results) ==
  {n \in DOMAIN results :
     results[n] \notin Excluded /\ \A m \in 1 .. n - 1 : results[m] # results[n]}

\* stubs[: limit * 3]: of those the first, as many as pages are fetched.
Wanted(results) ==
  {n \in Kept(results) : Cardinality({m \in Kept(results) : m <= n}) <= Cap * Fanout}

\* Their slots.
Fetched == {p \in YandexSlots : p - Cards \in Wanted(runet.results)}

YandexAnswers ==
  /\ runet.pc = "engines" /\ runet.yandex = "asked"
  /\ \E results \in Results :
        runet' = [runet EXCEPT !.results = results,
                    !.yandex = IF Wanted(results) = {} THEN "done" ELSE "pages"]

\* urlparse refuses the URL of a result: no failure that _yandex_subsearch
\* foresees, gather passes it on, and search raises.  Google's half goes on
\* in the background and is of no use to anyone.
YandexRaises ==
  /\ runet.pc = "engines" /\ runet.yandex = "asked"
  /\ RunetEnds("error")

PageStarts(p) ==
  /\ runet.pc = "engines" /\ runet.yandex = "pages"
  /\ p \in Fetched /\ runet.page[p] = "queued"
  /\ \A q \in Fetched : runet.page[q] = "queued" => p <= q
  /\ Cardinality({q \in Fetched : runet.page[q] = "fetched"}) < Pages
  /\ runet' = [runet EXCEPT !.page[p] = "fetched"]

\* What a page may hold: the first product of its JSON-LD of which _to_offer
\* makes an offer, the seller being the host; or nothing.
PageOffers(host) == {<<host, t>> : t \in Titles} \cup {NoOffer}

\* _fetch_jsonld_offer ends, with nothing if it raises.
PageEnds(p) ==
  /\ runet.pc = "engines" /\ runet.yandex = "pages"
  /\ p \in Fetched /\ runet.page[p] = "fetched"
  /\ \E offer \in PageOffers(runet.results[p - Cards]) :
        runet' = [runet EXCEPT !.page[p] = "ended", !.found[p] = offer]

YandexEnds ==
  /\ runet.pc = "engines" /\ runet.yandex = "pages"
  /\ \A p \in Fetched : runet.page[p] = "ended"
  /\ runet' = [runet EXCEPT !.yandex = "done"]

-----------------------------------------------------------------------------
(***************************************************************************)
(* The merge.                                                              *)
(***************************************************************************)

BothEnded ==
  /\ runet.pc = "engines" /\ runet.google = "done" /\ runet.yandex = "done"
  /\ runet' = [runet EXCEPT !.pc = "merge"]

InList(l) == {p \in Slots : Has(l, p)}

\* The break of the merge loop.
Full == Cardinality(InList(runet.list)) >= Cap

RepeatedShop(key) == \E k \in runet.seen : k[1] = key[1]

Repeated(key) == key \in runet.seen

\* A slot without an offer is no round of the loop: it is passed over.
Merges ==
  /\ runet.pc = "merge" /\ ~Full
  /\ runet.list.next \in Slots
  /\ LET key == runet.found[runet.list.next] IN
       IF key = NoOffer \/ Repeated(key)
       THEN runet' = [runet EXCEPT !.list = PassedOver(@)]
       ELSE runet' = [runet EXCEPT !.seen = @ \cup {key}, !.list = Listed(@)]

RunetReturns ==
  /\ runet.pc = "merge"
  /\ Full \/ runet.list.next \notin Slots
  /\ RunetEnds("offers")

RunetGone ==
  /\ runet # NoRunetSearch
  /\ runet' = NoRunetSearch

RunetNext ==
  \/ RunetStart
  \/ GoogleEnds
  \/ YandexAnswers
  \/ YandexRaises
  \/ \E p \in YandexSlots : PageStarts(p) \/ PageEnds(p)
  \/ YandexEnds
  \/ BothEnded
  \/ Merges
  \/ RunetReturns
  \/ RunetGone

RunetSpec == RunetInit /\ [][RunetNext]_runet

-----------------------------------------------------------------------------

\* "Results are merged + deduped": what is returned is within the limit, no
\* two offers of it are of the same shop and title, and an offer that was
\* found is left out only for one before it, of Google's first, or because
\* the list was full by then; and none of Yandex's is of a marketplace.
MergedOnce ==
  runet.list.outcome = "offers" =>
    LET in == InList(runet.list)
        found == runet.found
    IN /\ Cardinality(in) <= Cap
       /\ \A p \in in : found[p] # NoOffer
       /\ \A p, q \in in : found[p] = found[q] => p = q
       /\ \A p \in Slots \ in :
             \/ found[p] = NoOffer
             \/ \E q \in in : q < p /\ found[q] = found[p]
             \/ Cardinality(in) = Cap /\ \A q \in in : q < p
       /\ \A p \in in : p > Cards => found[p][1] \notin Excluded

=============================================================================
