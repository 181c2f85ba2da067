------------------------------- MODULE Sources -------------------------------
(***************************************************************************)
(* The adapters that search through browsers of one tab or over plain HTTP *)
(* (WBSource, RunetSource, MarketSource), side by side as the orchestrator *)
(* runs them.  They share no state but their browsers', which is the       *)
(* subject of TabBrowser, and each keeps the protocol that SearchStream is *)
(* written against.                                                        *)
(***************************************************************************)
EXTENDS WBSource, RunetSource, MarketSource

sources == <<wb, runet, market>>

SourcesInit == WBInit /\ RunetInit /\ MarketInit

SourcesNext ==
  \/ WBNext /\ UNCHANGED <<runet, market>>
  \/ RunetNext /\ UNCHANGED <<wb, market>>
  \/ MarketNext /\ UNCHANGED <<wb, runet>>

SourcesSpec == SourcesInit /\ [][SourcesNext]_sources

-----------------------------------------------------------------------------

Adapters == {"wb", "runet", "market"}

searches ==
  [a \in Adapters |->
     IF a = "wb" THEN Seen(wb.list)
     ELSE IF a = "runet" THEN Seen(runet.list) ELSE Seen(market.list)]

Listings ==
  INSTANCE Adapter WITH Calls <- Adapters, Offers <- Slots, search <- searches

\* Each adapter reports an offer once, at most, and returns just the offers
\* it has reported, or an error: what SearchStream relies on.
AdaptersImplemented == Listings!Spec

=============================================================================
