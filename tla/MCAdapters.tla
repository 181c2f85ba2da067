----------------------------- MODULE MCAdapters -----------------------------
(***************************************************************************)
(* Each of the adapters on its own, Ozon's with two searches at once.      *)
(* They share no state, so that what is true of one while the others rest  *)
(* is true of it while they move: the instance chooses one of them, and it *)
(* alone moves.                                                            *)
(***************************************************************************)
EXTENDS Sources, OzonSource

CONSTANTS shop, mart, brand, t1, t2, c1, c2, s1, s2

VARIABLE moves

\* Shards 1 and 2 are in the table, 3 and up are extrapolated; volume 8 is
\* computed one too high, as volume 7997 is in the code.
MCTable == <<1, 3>>

MCProducts ==
  { [page |-> {"name", "price"}, card |-> {"imt"}, odd |-> FALSE, refused |-> FALSE,
     vol |-> 2, home |-> 2],
    [page |-> {"name", "imt"}, card |-> {"price"}, odd |-> FALSE, refused |-> FALSE,
     vol |-> 5, home |-> 2],
    [page |-> {}, card |-> Facts, odd |-> FALSE, refused |-> FALSE, vol |-> 7, home |-> 6],
    [page |-> {"price"}, card |-> {"name"}, odd |-> FALSE, refused |-> FALSE,
     vol |-> 0, home |-> 3],
    [page |-> {"name", "price"}, card |-> Facts, odd |-> TRUE, refused |-> FALSE,
     vol |-> 4, home |-> 4],
    [page |-> {"name", "price"}, card |-> {}, odd |-> FALSE, refused |-> TRUE,
     vol |-> 12, home |-> 0],
    [page |-> {"imt"}, card |-> {"name", "price"}, odd |-> FALSE, refused |-> FALSE,
     vol |-> 9, home |-> 6] }

MCInit == Init /\ SourcesInit /\ moves \in {"ozon", "wb", "runet", "market"}

MCNext ==
  /\ \/ moves = "ozon" /\ Next /\ UNCHANGED sources
     \/ moves = "wb" /\ WBNext /\ UNCHANGED <<vars, runet, market>>
     \/ moves = "runet" /\ RunetNext /\ UNCHANGED <<vars, wb, market>>
     \/ moves = "market" /\ MarketNext /\ UNCHANGED <<vars, wb, runet>>
  /\ UNCHANGED moves

\* No search of Ozon's is under way in an initial state, so that its fairness
\* asks nothing of the others.
MCSpec == MCInit /\ [][MCNext]_<<vars, sources, moves>> /\ Fairness

=============================================================================
