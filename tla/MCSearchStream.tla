--------------------------- MODULE MCSearchStream ---------------------------
(***************************************************************************)
(* Wildberries, the only source with a stale copy, and one other: every    *)
(* interleaving of two scrapes, with every content of Redis.               *)
(***************************************************************************)
EXTENDS SearchStream

CONSTANTS wb, ozon

MCMaxOffers == [s \in {wb, ozon} |-> IF s = wb THEN 2 ELSE 1]

\* Adjusting is the identity for the default region; its requests are checked
\* with an empty Redis only, which halves the instance.
MCInit ==
  /\ Init
  /\ req.regional \/ \A s \in Sources : cache[s] = NoEntry /\ stale[s] = NoEntry

MCSpec == MCInit /\ [][Next]_vars /\ Fairness

=============================================================================
