-------------------------------- MODULE Nmck --------------------------------
(***************************************************************************)
(* The justification of a starting price (НМЦК): compute and _select_kp of *)
(* analytics/nmck.py, called by POST /nmck/export (api/routes/nmck.py)     *)
(* with the offers of a search.                                            *)
(*                                                                         *)
(* Prices are integers, and the median is kept doubled to remain one.  An  *)
(* offer's trust, log10(reviews + 1) * rating, is a number that only       *)
(* compares.                                                               *)
(***************************************************************************)
EXTENDS Integers, Sequences, FiniteSets, Functions

CONSTANTS
  MaxOffers,  \* bound of the model: offers found
  Sellers,    \* 1 .. n: an offer's seller, or its source
  Prices,     \* in rubles; 0 is none
  Trusts,
  KpLimit     \* _KP_FORMULA_LIMIT (5)

ASSUME NmckAssumption ==
  /\ MaxOffers \in Nat /\ Prices \subseteq Nat /\ Trusts \subseteq Int
  /\ KpLimit \in Nat /\ KpLimit >= 3

VARIABLE nmck  \* one export

KpOffer == [seller: Sellers, price: Prices, trust: Trusts]

Export == [pc: {"idle", "found", "report", "refused"},
           offers: Seq(KpOffer),
           chosen: SUBSET Nat,    \* the КП, by their places in `offers`
           homogeneous: BOOLEAN]

NoExport == [pc |-> "idle", offers |-> <<>>, chosen |-> {}, homogeneous |-> FALSE]

NmckTypeOK == nmck \in Export

NmckInit == nmck = NoExport

-----------------------------------------------------------------------------
(***************************************************************************)
(* _select_kp, of a sequence of offers.                                    *)
(***************************************************************************)

Priced(offers) == {i \in DOMAIN offers : offers[i].price > 0}

PoolFirst(offers) ==
  {i \in Priced(offers) :
     \A j \in Priced(offers) : offers[j].seller = offers[i].seller => i <= j}

\* by_seller: of each seller the first of the cheapest.
Pool(offers) ==
  {i \in Priced(offers) :
     \A j \in Priced(offers) : offers[j].seller = offers[i].seller =>
        \/ offers[i].price < offers[j].price
        \/ offers[i].price = offers[j].price /\ i <= j}

\* The n-th of the pool's prices in order.
Nth(offers, n) ==
  CHOOSE p \in {offers[i].price : i \in Pool(offers)} :
    /\ Cardinality({i \in Pool(offers) : offers[i].price < p}) < n
    /\ Cardinality({i \in Pool(offers) : offers[i].price <= p}) >= n

\* Twice market_median.
Median2(offers) ==
  LET n == Cardinality(Pool(offers)) IN
  IF n % 2 = 1 THEN 2 * Nth(offers, n \div 2 + 1)
               ELSE Nth(offers, n \div 2) + Nth(offers, n \div 2 + 1)

InBand(offers) ==
  LET median2 == Median2(offers) IN
  {i \in Pool(offers) : median2 <= 4 * offers[i].price /\ offers[i].price <= median2}

\* With fewer than three offers in the band it is the whole pool that counts.
Realistic(offers) == IF Cardinality(InBand(offers)) < 3 THEN Pool(offers) ELSE InBand(offers)

\* Twice the distance from the median.
Off(offers, median2, i) ==
  LET d == 2 * offers[i].price - median2 IN IF d < 0 THEN - d ELSE d

\* Where by_seller, a dict, has the seller: at its first offer.
PlaceOf(offers, i) ==
  CHOOSE j \in Priced(offers) :
    /\ offers[j].seller = offers[i].seller
    /\ \A k \in Priced(offers) : offers[k].seller = offers[i].seller => j <= k

\* The order of the sorts: most trusted, then nearest to the median, then as
\* in the dict.
Preferred(offers, median2, i, j) ==
  \/ offers[i].trust > offers[j].trust
  \/ /\ offers[i].trust = offers[j].trust
     /\ \/ Off(offers, median2, i) < Off(offers, median2, j)
        \/ /\ Off(offers, median2, i) = Off(offers, median2, j)
           /\ PlaceOf(offers, i) < PlaceOf(offers, j)

SelectKp(offers) ==
  LET pool == Pool(offers)
      realistic == Realistic(offers)
      median2 == Median2(offers)
  IN IF Cardinality(pool) < 3 THEN pool
     ELSE {i \in realistic :
             Cardinality({j \in realistic : Preferred(offers, median2, j, i)}) < KpLimit}

Square(x) == x * x

Total(offers, kp) == SumFunctionOnSet([i \in kp |-> offers[i].price], kp)

\* A coefficient of variation of at most 33 %, from the deviations from the
\* mean, without the roots and quotients of the code.
Homogeneous(offers, kp) ==
  LET n == Cardinality(kp)
      sum == Total(offers, kp)
      squares == [i \in kp |-> Square(n * offers[i].price - sum)]
  IN 10000 * SumFunctionOnSet(squares, kp) <= Square(33) * (n - 1) * Square(sum)

-----------------------------------------------------------------------------

\* The search has returned; sellers are numbered as they first appear.
NmckSearch ==
  /\ nmck = NoExport
  /\ \E n \in 0 .. MaxOffers : \E offers \in [1 .. n -> KpOffer] :
        /\ \A i \in 1 .. n : \A s \in Sellers :
             s < offers[i].seller => \E j \in 1 .. i - 1 : offers[j].seller = s
        /\ nmck' = [nmck EXCEPT !.pc = "found", !.offers = offers]

\* compute: a report, or, with fewer than three КП, 422.
NmckCompute ==
  /\ nmck.pc = "found"
  /\ LET kp == SelectKp(nmck.offers) IN
       IF Cardinality(kp) < 3
       THEN nmck' = [nmck EXCEPT !.pc = "refused"]
       ELSE nmck' = [nmck EXCEPT !.pc = "report", !.chosen = kp,
                                 !.homogeneous = Homogeneous(nmck.offers, kp)]

NmckGone ==
  /\ nmck # NoExport
  /\ nmck' = NoExport

NmckNext ==
  \/ NmckSearch
  \/ NmckCompute
  \/ NmckGone

NmckSpec == NmckInit /\ [][NmckNext]_nmck

-----------------------------------------------------------------------------

\* The squares of the differences of the prices, summed over all pairs.
Pairs(offers, kp) ==
  SumFunctionOnSet(
    [i \in kp |->
       SumFunctionOnSet([j \in kp |-> Square(offers[i].price - offers[j].price)], kp)],
    kp)

\* "The КП that a procurement officer would actually defend": no two of one
\* seller, each its seller's cheapest, three to the limit; none much dearer
\* than another when three sellers are within the band around the median,
\* and of these sellers none is passed over for a less trusted one; and they
\* are called homogeneous when, by the pairs of them, they are.  No report
\* is made only if fewer than three sellers have a price.
KpDefensible ==
  LET of == nmck.offers
      kp == nmck.chosen
      band == InBand(of)
      sellers == {of[i].seller : i \in {j \in DOMAIN of : of[j].price > 0}}
      n == Cardinality(kp)
  IN /\ nmck.pc = "refused" => Cardinality(sellers) < 3
     /\ nmck.pc = "report" =>
          /\ n \in 3 .. KpLimit
          /\ n = KpLimit \/ n = Cardinality(sellers) \/ n = Cardinality(band)
          /\ \A i, j \in kp : of[i].seller = of[j].seller => i = j
          /\ \A i \in kp, j \in DOMAIN of :
                of[j].seller = of[i].seller /\ of[j].price > 0 => of[i].price <= of[j].price
          /\ Cardinality(band) >= 3 =>
                /\ \A i, j \in kp : of[i].price <= 4 * of[j].price
                /\ \A i \in kp, j \in band \ kp : of[j].trust <= of[i].trust
          /\ nmck.homogeneous <=>
                10000 * n * Pairs(of, kp) <= 2 * Square(33) * (n - 1) * Square(Total(of, kp))

=============================================================================
