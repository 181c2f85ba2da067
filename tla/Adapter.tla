------------------------------- MODULE Adapter -------------------------------
(***************************************************************************)
(* What the orchestrator relies on in a source's adapter, ScraperProtocol  *)
(* in scrapers/base.py: a search reports offers one by one and then        *)
(* returns just these, or an error; or it is cancelled.                    *)
(* SearchStream is written against this, and OzonSource implements it.     *)
(***************************************************************************)

EXTENDS Naturals

CONSTANTS
  Calls,    \* the searches, each of which is made again and again
  Offers    \* what there is to be found

VARIABLE
  search    \* search[c]: what search c has reported and how it ended

Search == [emitted: [Offers -> 0 .. 1],   \* how often an offer was reported
           outcome: {"none", "offers", "error"},
           returned: [Offers -> 0 .. 1]]  \* how often the list returned has it

Never == [o \in Offers |-> 0]
NoSearch == [emitted |-> Never, outcome |-> "none", returned |-> Never]

Init == search = [c \in Calls |-> NoSearch]

\* An offer is reported, once.
Emit(c) ==
  /\ search[c].outcome = "none"
  /\ \E o \in Offers :
        /\ search[c].emitted[o] = 0
        /\ search' = [search EXCEPT ![c].emitted[o] = 1]

Return(c) ==
  /\ search[c].outcome = "none"
  /\ search' = [search EXCEPT ![c] = [emitted |-> @.emitted, outcome |-> "offers",
                                      returned |-> @.emitted]]

Fail(c) ==
  /\ search[c].outcome = "none"
  /\ search' = [search EXCEPT ![c].outcome = "error"]

\* The caller has the result, or has gone away, and the search is made anew:
\* one of them or, when the process ends, all.
Restart ==
  \E gone \in SUBSET Calls :
    search' = [c \in Calls |-> IF c \in gone THEN NoSearch ELSE search[c]]

Next ==
  \/ \E c \in Calls : Emit(c) \/ Return(c) \/ Fail(c)
  \/ Restart

Spec == Init /\ [][Next]_search

=============================================================================
