---------------------------- MODULE MarketSource ----------------------------
(***************************************************************************)
(* The Yandex Market adapter (YandexMarketScraper of                       *)
(* scrapers/yandex_market.py): one request, and the products of the page's *)
(* JSON-LD in the order in which _walk_ldjson comes by them.               *)
(***************************************************************************)
EXTENDS Listing, Sequences, FiniteSets

CONSTANT Most  \* offers that the orchestrator asks for

ASSUME MostAssumption == Most \in Nat \ {0}

VARIABLE market  \* the search of the market

\* What _to_offer makes of a product: an offer; nothing; or an exception, of
\* Decimal, which raises no ValueError, of a node that is no object where it
\* expects one, or of ProductOffer.
Makes == {"offer", "nothing", "raises"}

MarketSearch == [pc: {"idle", "asked", "convert"},
                 found: Seq(Makes),
                 list: Listing]

NoMarketSearch == [pc |-> "idle", found |-> <<>>, list |-> NewListing]

MarketTypeOK == market \in MarketSearch /\ Len(market.found) <= MaxSlots

MarketInit == market = NoMarketSearch

MarketEnds(outcome) ==
  market' = [market EXCEPT !.pc = "idle", !.list = Ended(@, outcome)]

MarketStart ==
  /\ market = NoMarketSearch
  /\ market' = [market EXCEPT !.pc = "asked"]

\* No answer, a status other than 200 or a captcha.
MarketFails ==
  /\ market.pc = "asked"
  /\ MarketEnds("error")

MarketAnswers ==
  /\ market.pc = "asked"
  /\ \E n \in 0 .. MaxSlots : \E found \in [1 .. n -> Makes] :
        market' = [market EXCEPT !.pc = "convert", !.found = found]

\* The break of the loop, or its end.
MarketFull ==
  \/ Cardinality({p \in Slots : Has(market.list, p)}) >= Most
  \/ market.list.next \notin DOMAIN market.found

RoundReportsFirst(l, makes) ==
  IF makes = "raises" THEN Ended(l, "error")
  ELSE IF makes = "nothing" THEN [PassedOver(l) EXCEPT !.emitted[l.next] = @ + 1]
  ELSE Listed(l)

\* What one round of the loop does to the list; an exception leaves search.
Round(l, makes) ==
  IF makes = "raises" THEN Ended(l, "error")
  ELSE IF makes = "nothing" THEN PassedOver(l) ELSE Listed(l)

MarketConverts ==
  /\ market.pc = "convert" /\ ~MarketFull
  /\ LET makes == market.found[market.list.next] IN
       market' = [market EXCEPT !.pc = IF makes = "raises" THEN "idle" ELSE @,
                                !.list = Round(@, makes)]

MarketReturns ==
  /\ market.pc = "convert" /\ MarketFull
  /\ MarketEnds("offers")

MarketGone ==
  /\ market # NoMarketSearch
  /\ market' = NoMarketSearch

MarketNext ==
  \/ MarketStart
  \/ MarketFails
  \/ MarketAnswers
  \/ MarketConverts
  \/ MarketReturns
  \/ MarketGone

MarketSpec == MarketInit /\ [][MarketNext]_market

=============================================================================
