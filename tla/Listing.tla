------------------------------- MODULE Listing -------------------------------
(***************************************************************************)
(* How an adapter builds the list it returns: it goes through the results  *)
(* of its engines in order, appends to `offers` those that are good and    *)
(* calls on_offer with each.  The loops at the end of WildberriesScraper,  *)
(* RunetScraper and YandexMarketScraper .search (scrapers/wb.py, runet.py, *)
(* yandex_market.py) all are of this form.                                 *)
(***************************************************************************)
EXTENDS Naturals

CONSTANT MaxSlots  \* bound of the model: results in one answer

ASSUME MaxSlotsAssumption == MaxSlots \in Nat

\* A result is known by its place in the answer.
Slots == 1 .. MaxSlots

Listing == [next: Nat \ {0},             \* the result that is looked at next
            out: [Slots -> 0 .. 1],      \* how often `offers` has a result
            emitted: [Slots -> 0 .. 1],  \* how often on_offer was called with it
            outcome: {"none", "offers", "error"}]

Nothing == [o \in Slots |-> 0]

NewListing == [next |-> 1, out |-> Nothing, emitted |-> Nothing, outcome |-> "none"]

\* The next result is listed and reported, ...
Listed(l) == [next |-> l.next + 1,
              out |-> [l.out EXCEPT ![l.next] = @ + 1],
              emitted |-> [l.emitted EXCEPT ![l.next] = @ + 1],
              outcome |-> l.outcome]

\* ... or passed over.
PassedOver(l) == [l EXCEPT !.next = @ + 1]

\* The search returns, or fails with the list it had made so far.
Ended(l, outcome) == [l EXCEPT !.outcome = outcome]

Has(l, o) == l.out[o] = 1

\* What the orchestrator sees of it.
Seen(l) == [emitted |-> l.emitted, outcome |-> l.outcome,
            returned |-> IF l.outcome = "offers" THEN l.out ELSE Nothing]

=============================================================================
