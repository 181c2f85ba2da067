--------------------------- MODULE Watcher_proofs ---------------------------
(***************************************************************************)
(* Proofs about Watcher, for any owners, queries and prices, any number of *)
(* watches and of requests that overlap.                                   *)
(***************************************************************************)
EXTENDS Watcher, FiniteSetTheorems, SequenceTheorems, TLAPS

USE OwnersAssumption, PricesAssumption, BoundsAssumption

(***************************************************************************)
(* The types of the tables and of the requests, which is all that the      *)
(* first theorems need.                                                    *)
(***************************************************************************)

Creating == [pc: {"idle", "insert"}, owner: Owners, query: Queries]

Tables ==
  /\ rows \in [Ids -> Row]
  /\ alerts \in [Ids -> Seq(Alert)]
  /\ create \in [Creators -> Creating]

\* What becomes of one row, and of what is told of it, in a step that neither
\* creates nor removes it: ownership stays; and if the price moves on, an
\* alert tells it unless it is the first or within the threshold.
Priced(w, new) ==
  /\ rows'[w].price = new /\ new \in Prices
  /\ alerts'[w] = IF rows[w].price # 0 /\ Moved(rows[w].price, new)
                  THEN Append(alerts[w], NewAlert(w, new)) ELSE alerts[w]

Stays(w) ==
  /\ rows'[w].state = rows[w].state
  /\ rows'[w].owner = rows[w].owner /\ rows'[w].query = rows[w].query
  /\ \/ rows'[w].price = rows[w].price /\ alerts'[w] = alerts[w]
     \/ Live(w) /\ Priced(w, rows'[w].price)

LEMMA RowTyped == FreeRow \in Row /\ \A c \in Creators : NoCreate \in Creating
  BY DEF FreeRow, Row, NoCreate, Creating

LEMMA InitTables == Init => Tables
  BY RowTyped DEF Init, Tables

\* The steps that are not of creations or removals.
LEMMA RowsStay ==
  ASSUME Tables,
         Scan \/ Search \/ Record \/ (\E w \in Ids : BecomeDue(w))
  PROVE  /\ rows' \in [Ids -> Row] /\ alerts' \in [Ids -> Seq(Alert)]
         /\ UNCHANGED create
         /\ \A w \in Ids : Stays(w)
<1>1. CASE Scan \/ Search
  BY <1>1 DEF Scan, Search, Tables, Stays
<1>2. ASSUME NEW w \in Ids, BecomeDue(w)
      PROVE  /\ rows' \in [Ids -> Row] /\ alerts' \in [Ids -> Seq(Alert)]
             /\ UNCHANGED create
             /\ \A v \in Ids : Stays(v)
  <2>1. rows' = [rows EXCEPT ![w] = [rows[w] EXCEPT !.due = TRUE]]
    BY <1>2 DEF BecomeDue
  <2>2. rows[w] \in Row
    BY DEF Tables
  <2>3. [rows[w] EXCEPT !.due = TRUE] \in Row
    BY <2>2 DEF Row
  <2>4. rows' \in [Ids -> Row]
    BY <2>1, <2>3 DEF Tables
  <2>5. UNCHANGED <<alerts, create>>
    BY <1>2 DEF BecomeDue
  <2>6. \A v \in Ids : v # w => rows'[v] = rows[v]
    BY <2>1 DEF Tables
  <2>7. Stays(w)
    BY <2>1, <2>2, <2>5 DEF Tables, Stays, Row
  <2>8. \A v \in Ids : Stays(v)
    BY <2>5, <2>6, <2>7 DEF Stays
  <2> QED
    BY <2>4, <2>5, <2>8 DEF Tables
<1>3. CASE Record
  <2> DEFINE w == Head(loop.due)
  <2>1. CASE UNCHANGED <<rows, alerts>>
    BY <2>1, <1>3 DEF Record, Tables, Stays
  <2>2. CASE Live(w) /\ loop.outcome \in Prices /\ RecordPrice(w, loop.outcome)
    <3> DEFINE new == loop.outcome
    <3>1. CASE w \notin Ids
      <4>1. rows' = rows /\ alerts' = alerts
        <5>1. rows' = [rows EXCEPT ![w] = [rows[w] EXCEPT !.fresh = FALSE, !.due = FALSE,
                                                          !.price = new]]
          BY <2>2 DEF RecordPrice
        <5>2. \A x : [rows EXCEPT ![w] = x] = rows
          BY <3>1 DEF Tables
        <5>3. \A x : [alerts EXCEPT ![w] = x] = alerts
          BY <3>1 DEF Tables
        <5> QED
          BY <5>1, <5>2, <5>3, <2>2 DEF RecordPrice
      <4> QED
        BY <4>1, <1>3 DEF Record, Tables, Stays
    <3>2. CASE w \in Ids
      <4>1. new \in Prices /\ rows[w] \in Row
        BY <2>2, <3>2 DEF Tables
      <4>2. rows' = [rows EXCEPT ![w] = [rows[w] EXCEPT !.fresh = FALSE, !.due = FALSE,
                                                        !.price = new]]
        BY <2>2 DEF RecordPrice
      <4>3. [rows[w] EXCEPT !.fresh = FALSE, !.due = FALSE, !.price = new] \in Row
        BY <4>1 DEF Row
      <4>4. rows' \in [Ids -> Row]
        BY <4>2, <4>3 DEF Tables
      <4>5. rows[w].price # 0 => NewAlert(w, new) \in Alert
        BY <4>1 DEF NewAlert, Alert, Row
      <4>6. alerts' \in [Ids -> Seq(Alert)]
        BY <2>2, <3>2, <4>5 DEF RecordPrice, Tables
      <4>7. \A v \in Ids : v # w => rows'[v] = rows[v] /\ alerts'[v] = alerts[v]
        BY <2>2, <3>2 DEF RecordPrice, Tables
      <4>8. /\ rows'[w].state = rows[w].state /\ rows'[w].price = new
            /\ rows'[w].owner = rows[w].owner /\ rows'[w].query = rows[w].query
        BY <4>2, <4>1, <3>2 DEF Tables, Row
      <4>9. alerts'[w] = IF rows[w].price # 0 /\ Moved(rows[w].price, new)
                         THEN Append(alerts[w], NewAlert(w, new)) ELSE alerts[w]
        BY <2>2, <3>2 DEF RecordPrice, Tables
      <4>10. Stays(w)
        BY <4>8, <4>9, <4>1, <2>2 DEF Stays, Priced
      <4>11. \A v \in Ids : v # w => Stays(v)
        BY <4>7 DEF Stays
      <4> QED
        BY <4>4, <4>6, <4>10, <4>11, <1>3 DEF Record
    <3> QED
      BY <3>1, <3>2
  <2>3. CASE Live(w) /\ RecordError(w)
    BY <2>3, <1>3 DEF RecordError, Record, Tables, Stays, Row
  <2> QED
    BY <2>1, <2>2, <2>3, <1>3 DEF Record
<1> QED
  BY <1>1, <1>2, <1>3

LEMMA InsertRow ==
  ASSUME Tables, NEW c \in Creators, Insert(c)
  PROVE  \E w \in Ids :
           /\ rows[w].state = "free"
           /\ rows' = [rows EXCEPT ![w] = rows'[w]]
           /\ rows'[w] \in Row /\ rows'[w].state = "live"
           /\ rows'[w].owner = create[c].owner /\ rows'[w].query = create[c].query
<1>1. PICK w \in Ids :
        /\ rows[w].state = "free"
        /\ rows' = [rows EXCEPT ![w] = [FreeRow EXCEPT !.state = "live",
                                   !.owner = create[c].owner, !.query = create[c].query]]
  BY DEF Insert
<1>2. create[c].owner \in Owners /\ create[c].query \in Queries
  BY DEF Tables, Creating
<1>3. rows'[w] = [FreeRow EXCEPT !.state = "live",
                     !.owner = create[c].owner, !.query = create[c].query]
  BY <1>1 DEF Tables
<1> DEFINE new == [FreeRow EXCEPT !.state = "live",
                     !.owner = create[c].owner, !.query = create[c].query]
<1>5. new \in Row
  BY <1>2, RowTyped DEF Row
<1>6. /\ new.state = "live" /\ new.owner = create[c].owner
      /\ new.query = create[c].query
  BY RowTyped DEF Row
<1>7. rows' = [rows EXCEPT ![w] = rows'[w]]
  BY <1>1, <1>3
<1> QED
  BY <1>1, <1>3, <1>5, <1>6, <1>7

LEMMA NextTables == Tables /\ [Next]_vars => Tables'
<1> SUFFICES ASSUME Tables, [Next]_vars PROVE Tables'
  OBVIOUS
<1>1. CASE Scan \/ Search \/ Record \/ (\E w \in Ids : BecomeDue(w))
  BY <1>1, RowsStay DEF Tables
<1>2. ASSUME NEW w \in Ids, RemoveWatch(w) PROVE Tables'
  <2>1. [FreeRow EXCEPT !.state = "gone"] \in Row
    BY RowTyped DEF Row
  <2>2. rows' \in [Ids -> Row]
    BY <1>2, <2>1 DEF RemoveWatch, Tables
  <2>3. alerts' \in [Ids -> Seq(Alert)] /\ create' = create
    BY <1>2 DEF RemoveWatch, Tables
  <2> QED
    BY <2>2, <2>3 DEF Tables
<1>3. ASSUME NEW c \in Creators, Insert(c) PROVE Tables'
  <2>1. rows' \in [Ids -> Row]
    BY <1>3, InsertRow DEF Tables
  <2> QED
    BY <2>1, <1>3, RowTyped DEF Insert, Tables
<1>4. ASSUME NEW c \in Creators, NEW o \in Owners, NEW q \in Queries, SelectTwin(c, o, q)
      PROVE  Tables'
  BY <1>4 DEF SelectTwin, Tables, Creating
<1>5. CASE Crash
  BY <1>5, RowTyped DEF Crash, Tables
<1>6. CASE UNCHANGED vars
  BY <1>6 DEF vars, Tables
<1> QED
  BY <1>1, <1>2, <1>3, <1>4, <1>5, <1>6 DEF Next

-----------------------------------------------------------------------------
(***************************************************************************)
(* Twins.                                                                  *)
(***************************************************************************)

Twins(o, q) == {w \in LiveRows : rows[w].owner = o /\ rows[w].query = q}
Coming(o, q) == {c \in Creators : create[c] = [pc |-> "insert", owner |-> o, query |-> q]}

LEMMA TwinsFinite ==
  ASSUME NEW o, NEW q
  PROVE  /\ IsFiniteSet(Twins(o, q)) /\ Cardinality(Twins(o, q)) \in Nat
         /\ IsFiniteSet(Coming(o, q)) /\ Cardinality(Coming(o, q)) \in Nat
         /\ Cardinality(Creators) \in Nat
<1>1. IsFiniteSet(Ids)
  BY FS_Interval DEF Ids
<1>2. Twins(o, q) \subseteq Ids
  BY DEF Twins, LiveRows
<1>3. Coming(o, q) \subseteq Creators
  BY DEF Coming
<1> QED
  BY <1>1, <1>2, <1>3, FS_Subset, FS_CardinalityType

LEMMA NextTwins == Tables /\ TwinsOverlapped /\ [Next]_vars => TwinsOverlapped'
<1> SUFFICES ASSUME Tables, TwinsOverlapped, [Next]_vars,
                    NEW o \in Owners, NEW q \in Queries
             PROVE  Cardinality(Twins(o, q)') + Cardinality(Coming(o, q)')
                      <= Cardinality(Creators)
  BY DEF TwinsOverlapped, Twins, Coming, LiveRows, Live
<1> DEFINE T == Twins(o, q)
           K == Coming(o, q)
<1>0. Cardinality(T) + Cardinality(K) <= Cardinality(Creators)
  BY DEF TwinsOverlapped, Twins, Coming
<1>f. /\ IsFiniteSet(T) /\ Cardinality(T) \in Nat
      /\ IsFiniteSet(K) /\ Cardinality(K) \in Nat /\ Cardinality(Creators) \in Nat
  BY TwinsFinite
<1>1. CASE T' \subseteq T /\ K' \subseteq K
  <2>1. /\ Cardinality(T') <= Cardinality(T) /\ Cardinality(T') \in Nat
        /\ Cardinality(K') <= Cardinality(K) /\ Cardinality(K') \in Nat
    BY <1>1, <1>f, FS_Subset, FS_CardinalityType
  <2> QED
    BY <2>1, <1>0, <1>f
<1>2. CASE Scan \/ Search \/ Record \/ (\E w \in Ids : BecomeDue(w))
  <2>1. \A w \in Ids : /\ rows'[w].state = rows[w].state
                       /\ rows'[w].owner = rows[w].owner /\ rows'[w].query = rows[w].query
    BY <1>2, RowsStay DEF Stays
  <2>2. create' = create
    BY <1>2, RowsStay
  <2> QED
    BY <2>1, <2>2, <1>1 DEF Twins, Coming, LiveRows, Live
<1>3. ASSUME NEW w \in Ids, RemoveWatch(w)
      PROVE  T' \subseteq T /\ K' \subseteq K
  <2>1. \A v \in Ids : v # w => rows'[v] = rows[v]
    BY <1>3 DEF RemoveWatch, Tables
  <2>2. rows'[w].state = "gone"
    BY <1>3 DEF RemoveWatch, Tables, FreeRow
  <2> QED
    BY <2>1, <2>2, <1>3 DEF RemoveWatch, Twins, Coming, LiveRows, Live
<1>4. ASSUME NEW c \in Creators, NEW o2 \in Owners, NEW q2 \in Queries,
             SelectTwin(c, o2, q2)
      PROVE  Cardinality(T') + Cardinality(K') <= Cardinality(Creators)
  <2>1. create' = [create EXCEPT ![c] = [pc |-> "insert", owner |-> o2, query |-> q2]]
        /\ rows' = rows
    BY <1>4 DEF SelectTwin
  <2>2. T' = T
    BY <2>1 DEF Twins, LiveRows, Live
  <2>3. CASE o2 = o /\ q2 = q
    <3>1. T' = {}
      BY <2>2, <2>3, <1>4 DEF SelectTwin, Twins, LiveRows
    <3>2. Cardinality(T') = 0
      BY <3>1, FS_EmptySet
    <3>3. K' \subseteq Creators
      BY DEF Coming
    <3>4. Cardinality(K') <= Cardinality(Creators) /\ Cardinality(K') \in Nat
      BY <3>3, FS_Subset, FS_CardinalityType
    <3> QED
      BY <3>2, <3>4, <1>f
  <2>4. CASE ~(o2 = o /\ q2 = q)
    <3>1. K' \subseteq K
      BY <2>1, <2>4 DEF Coming, Tables
    <3> QED
      BY <3>1, <2>2, <1>1
  <2> QED
    BY <2>3, <2>4
<1>5. ASSUME NEW c \in Creators, Insert(c)
      PROVE  Cardinality(T') + Cardinality(K') <= Cardinality(Creators)
  <2>1. PICK w \in Ids :
          /\ rows[w].state = "free"
          /\ rows' = [rows EXCEPT ![w] = rows'[w]]
          /\ rows'[w] \in Row /\ rows'[w].state = "live"
          /\ rows'[w].owner = create[c].owner /\ rows'[w].query = create[c].query
    BY <1>5, InsertRow
  <2>2. \A v \in Ids : v # w => rows'[v] = rows[v]
    BY <2>1 DEF Tables
  <2>3. create' = [create EXCEPT ![c] = NoCreate] /\ create[c].pc = "insert"
    BY <1>5 DEF Insert
  <2>4. create[c] = [pc |-> "insert", owner |-> create[c].owner, query |-> create[c].query]
    BY <2>3 DEF Tables, Creating
  <2>5. K' = K \ {c}
    BY <2>3, RowTyped DEF Coming, Tables, NoCreate
  <2>6. CASE c \in K
    <3>1. rows'[w].owner = o /\ rows'[w].query = q
      BY <2>6, <2>1 DEF Coming
    <3>2. T' = T \cup {w} /\ w \notin T
      BY <3>1, <2>1, <2>2 DEF Twins, LiveRows, Live
    <3>3. Cardinality(T') = Cardinality(T) + 1
      BY <3>2, <1>f, FS_AddElement
    <3>4. Cardinality(K') = Cardinality(K) - 1
      BY <2>5, <2>6, <1>f, FS_RemoveElement
    <3> QED
      BY <3>3, <3>4, <1>0, <1>f
  <2>7. CASE c \notin K
    <3>1. ~(rows'[w].owner = o /\ rows'[w].query = q)
      BY <2>7, <2>1, <2>4 DEF Coming
    <3>2. T' \subseteq T
      BY <3>1, <2>2 DEF Twins, LiveRows, Live
    <3> QED
      BY <3>2, <2>5, <1>1
  <2> QED
    BY <2>6, <2>7
<1>6. CASE Crash
  <2>1. K' \subseteq K
    BY <1>6 DEF Crash, Coming, NoCreate
  <2>2. T' \subseteq T
    BY <1>6 DEF Crash, Twins, LiveRows, Live
  <2> QED
    BY <2>1, <2>2, <1>1
<1>7. CASE UNCHANGED vars
  BY <1>7, <1>1 DEF vars, Twins, Coming, LiveRows, Live
<1> QED
  BY <1>1, <1>2, <1>3, <1>4, <1>5, <1>6, <1>7 DEF Next

LEMMA InitTwins == Init => TwinsOverlapped
<1> SUFFICES ASSUME Init, NEW o \in Owners, NEW q \in Queries
             PROVE  Cardinality(Twins(o, q)) + Cardinality(Coming(o, q))
                      <= Cardinality(Creators)
  BY DEF TwinsOverlapped, Twins, Coming
<1>1. Twins(o, q) = {}
  BY DEF Init, Twins, LiveRows, Live, FreeRow
<1>2. Coming(o, q) = {}
  BY DEF Init, Coming, NoCreate
<1> QED
  BY <1>1, <1>2, FS_EmptySet, TwinsFinite

\* An owner never has more watches of one query than requests can overlap,
\* whatever is created, removed and lost: the select of create_watch, which
\* no constraint backs, is enough for that.
THEOREM TwinsOnlyOverlap == Spec => []TwinsOverlapped
<1>1. Init => Tables /\ TwinsOverlapped
  BY InitTables, InitTwins
<1>2. Tables /\ TwinsOverlapped /\ [Next]_vars => (Tables /\ TwinsOverlapped)'
  BY NextTables, NextTwins
<1> QED
  BY <1>1, <1>2, PTL DEF Spec

-----------------------------------------------------------------------------
(***************************************************************************)
(* Alerts.                                                                 *)
(***************************************************************************)

LEMMA NextGhosts == Tables /\ NoGhostAlerts /\ [Next]_vars => NoGhostAlerts'
<1> SUFFICES ASSUME Tables, NoGhostAlerts, [Next]_vars PROVE NoGhostAlerts'
  OBVIOUS
<1>1. CASE Scan \/ Search \/ Record \/ (\E w \in Ids : BecomeDue(w))
  <2> SUFFICES ASSUME NEW w \in Ids, NEW k \in DOMAIN alerts'[w]
               PROVE  Live(w)' /\ alerts'[w][k].owner = rows'[w].owner
    BY DEF NoGhostAlerts
  <2>1. Stays(w)
    BY <1>1, RowsStay
  <2>2. CASE alerts'[w] = alerts[w]
    BY <2>1, <2>2 DEF Stays, NoGhostAlerts, Live
  <2>3. CASE Live(w) /\ alerts'[w] = Append(alerts[w], NewAlert(w, rows'[w].price))
    <3>1. alerts[w] \in Seq(Alert)
      BY DEF Tables
    <3>2. CASE k \in DOMAIN alerts[w]
      BY <2>1, <2>3, <3>1, <3>2 DEF Stays, NoGhostAlerts, Live
    <3>3. CASE k \notin DOMAIN alerts[w]
      <4>1. alerts'[w][k] = NewAlert(w, rows'[w].price)
        BY <2>3, <3>1, <3>3
      <4> QED
        BY <4>1, <2>1, <2>3 DEF NewAlert, Stays, Live
    <3> QED
      BY <3>2, <3>3
  <2> QED
    BY <2>1, <2>2, <2>3 DEF Stays, Priced
<1>2. ASSUME NEW w \in Ids, RemoveWatch(w) PROVE NoGhostAlerts'
  <2>1. \A v \in Ids : v # w => rows'[v] = rows[v] /\ alerts'[v] = alerts[v]
    BY <1>2 DEF RemoveWatch, Tables
  <2>2. alerts'[w] = <<>>
    BY <1>2 DEF RemoveWatch, Tables
  <2> QED
    BY <2>1, <2>2 DEF NoGhostAlerts, Live
<1>3. ASSUME NEW c \in Creators, Insert(c) PROVE NoGhostAlerts'
  <2>1. PICK w \in Ids : rows[w].state = "free" /\ rows' = [rows EXCEPT ![w] = rows'[w]]
    BY <1>3, InsertRow
  <2>2. \A v \in Ids : v # w => rows'[v] = rows[v]
    BY <2>1 DEF Tables
  <2>3. alerts' = alerts
    BY <1>3 DEF Insert
  <2>4. DOMAIN alerts[w] = {}
    BY <2>1 DEF NoGhostAlerts, Live
  <2> QED
    BY <2>2, <2>3, <2>4 DEF NoGhostAlerts, Live
<1>4. CASE UNCHANGED <<rows, alerts>>
  BY <1>4 DEF NoGhostAlerts, Live
<1>5. ASSUME NEW c \in Creators, NEW o \in Owners, NEW q \in Queries, SelectTwin(c, o, q)
      PROVE  UNCHANGED <<rows, alerts>>
  BY <1>5 DEF SelectTwin
<1> QED
  BY <1>1, <1>2, <1>3, <1>4, <1>5 DEF Next, Crash, vars

LEMMA InitGhosts == Init => NoGhostAlerts
  BY DEF Init, NoGhostAlerts

\* No alert of a watch that is gone, and none for another owner's, however a
\* removal falls between the scan, the search and the record of a check.
THEOREM NoGhosts == Spec => []NoGhostAlerts
<1>1. Init => Tables /\ NoGhostAlerts
  BY InitTables, InitGhosts
<1>2. Tables /\ NoGhostAlerts /\ [Next]_vars => (Tables /\ NoGhostAlerts)'
  BY NextTables, NextGhosts
<1> QED
  BY <1>1, <1>2, PTL DEF Spec

\* A row that has alerts has a baseline too.
Baselines == \A w \in Ids : alerts[w] # <<>> => rows[w].price \in Prices

LEMMA DriftSelf == \A p \in Prices : DriftsTo(p, p)
  BY DEF DriftsTo

\* One more move below the threshold.
LEMMA DriftStep ==
  ASSUME NEW p \in Prices, NEW q \in Prices, NEW r \in Prices,
         DriftsTo(p, q), ~Moved(q, r)
  PROVE  DriftsTo(p, r)
  BY DEF DriftsTo

\* The chain of one watch, told up to its baseline.
Chained(told, price) ==
  /\ \A k \in DOMAIN told :
       /\ Moved(told[k].prev, told[k].new)
       /\ k > 1 => DriftsTo(told[k - 1].new, told[k].prev)
  /\ told # <<>> => DriftsTo(told[Len(told)].new, price)

LEMMA ChainGrows ==
  ASSUME NEW told \in Seq(Alert), NEW price \in Prices, NEW a \in Alert,
         Chained(told, price), a.prev = price, Moved(a.prev, a.new)
  PROVE  Chained(Append(told, a), a.new)
<1> DEFINE more == Append(told, a)
<1>1. /\ Len(more) = Len(told) + 1 /\ DOMAIN more = 1 .. Len(told) + 1
      /\ more[Len(more)] = a /\ Len(told) \in Nat /\ DOMAIN told = 1 .. Len(told)
      /\ \A k \in 1 .. Len(told) : more[k] = told[k]
  OBVIOUS
<1>2. DriftsTo(more[Len(more)].new, a.new)
  BY <1>1, DriftSelf DEF Alert
<1>3. ASSUME NEW k \in 1 .. Len(told)
      PROVE  /\ Moved(more[k].prev, more[k].new)
             /\ k > 1 => DriftsTo(more[k - 1].new, more[k].prev)
  BY <1>1, <1>3 DEF Chained
<1>4. /\ Moved(more[Len(more)].prev, more[Len(more)].new)
      /\ Len(more) > 1 => DriftsTo(more[Len(more) - 1].new, more[Len(more)].prev)
  <2>1. Len(more) > 1 => told # <<>> /\ more[Len(more) - 1] = told[Len(told)]
    <3> SUFFICES ASSUME Len(more) > 1 PROVE told # <<>> /\ more[Len(more) - 1] = told[Len(told)]
      OBVIOUS
    <3>1. Len(told) \in 1 .. Len(told) /\ Len(more) - 1 = Len(told)
      BY <1>1
    <3>2. Len(told) # 0
      BY <3>1, <1>1
    <3> QED
      BY <3>1, <3>2, <1>1
  <2> QED
    BY <2>1, <1>1 DEF Chained
<1>5. \A k \in DOMAIN more : k \in 1 .. Len(told) \/ k = Len(more)
  BY <1>1
<1> HIDE DEF more
<1>6. \A k \in DOMAIN more : /\ Moved(more[k].prev, more[k].new)
                            /\ k > 1 => DriftsTo(more[k - 1].new, more[k].prev)
  BY <1>3, <1>4, <1>5
<1> QED
  BY <1>6, <1>2 DEF Chained, more

LEMMA NoneLeft ==
  ASSUME NEW told \in Seq(Alert), DOMAIN told = {}
  PROVE  told = <<>>
<1>1. Len(told) \in Nat /\ DOMAIN told = 1 .. Len(told)
  OBVIOUS
<1>2. Len(told) = 0
  <2> SUFFICES ASSUME Len(told) # 0 PROVE FALSE
    OBVIOUS
  <2>1. 1 \in DOMAIN told
    BY <1>1
  <2> QED
    BY <2>1
<1> QED
  BY <1>2

LEMMA NextChain ==
  Tables /\ NoGhostAlerts /\ Baselines /\ AlertChain /\ [Next]_vars
    => Baselines' /\ AlertChain'
<1> SUFFICES ASSUME Tables, NoGhostAlerts, Baselines, AlertChain, [Next]_vars
             PROVE  Baselines' /\ AlertChain'
  OBVIOUS
<1> DEFINE Good(w) == /\ alerts'[w] # <<>> => rows'[w].price \in Prices
                      /\ Live(w)' => Chained(alerts'[w], rows'[w].price)
<1>0. /\ (\A w \in Ids : Good(w)) => Baselines' /\ AlertChain'
      /\ \A w \in Ids : Live(w) => Chained(alerts[w], rows[w].price)
  BY DEF AlertChain, Baselines, Chained, LiveRows, Live
<1>t. \A w \in Ids : /\ alerts[w] \in Seq(Alert) /\ rows[w] \in Row
                    /\ alerts'[w] \in Seq(Alert) /\ rows'[w] \in Row
  BY NextTables DEF Tables
<1> SUFFICES ASSUME NEW w \in Ids PROVE Good(w)
  BY <1>0
<1>1. CASE rows'[w] = rows[w] /\ alerts'[w] = alerts[w]
  BY <1>1, <1>0 DEF Baselines, Live
<1>2. CASE alerts'[w] = <<>>
  BY <1>2 DEF Chained
<1>3. CASE Scan \/ Search \/ Record \/ (\E v \in Ids : BecomeDue(v))
  <2>1. Stays(w)
    BY <1>3, RowsStay
  <2>2. CASE rows'[w].price = rows[w].price /\ alerts'[w] = alerts[w]
    BY <2>1, <2>2, <1>0 DEF Stays, Baselines, Live
  <2>3. CASE Live(w) /\ Priced(w, rows'[w].price)
    <3> DEFINE new == rows'[w].price
               old == rows[w].price
               told == alerts[w]
    <3>1. new \in Prices /\ Chained(told, old) /\ (old \in Prices \/ told = <<>>)
      BY <2>3, <1>0 DEF Priced, Baselines
    <3>2. CASE old # 0 /\ Moved(old, new)
      <4>1. old \in Prices /\ rows[w].owner \in Owners
        BY <3>2, <1>t DEF Row
      <4>2. NewAlert(w, new) \in Alert /\ NewAlert(w, new).prev = old
            /\ NewAlert(w, new).new = new
        BY <4>1, <3>1 DEF NewAlert, Alert
      <4>3. alerts'[w] = Append(told, NewAlert(w, new))
        BY <2>3, <3>2 DEF Priced
      <4>4. told \in Seq(Alert)
        BY <1>t
      <4> HIDE DEF new, old, told
      <4>5. Chained(Append(told, NewAlert(w, new)), new)
        BY <4>1, <4>2, <4>4, <3>1, <3>2, ChainGrows
      <4> QED
        BY <4>3, <4>5, <3>1 DEF new
    <3>3. CASE old = 0
      <4>1. told = <<>> /\ alerts'[w] = <<>>
        BY <3>3, <3>1, <2>3 DEF Priced
      <4> QED
        BY <4>1, <1>2
    <3>4. CASE old # 0 /\ ~Moved(old, new)
      <4>1. old \in Prices /\ alerts'[w] = told /\ told \in Seq(Alert)
        BY <3>4, <2>3, <1>t DEF Priced, Row
      <4>3. told # <<>> => DriftsTo(told[Len(told)].new, old) /\ told[Len(told)].new \in Prices
        <5>1. told # <<>> => told[Len(told)] \in Alert
          BY <4>1
        <5> QED
          BY <5>1, <3>1 DEF Chained, Alert
      <4>4. told # <<>> => DriftsTo(told[Len(told)].new, new)
        BY <4>1, <4>3, <3>1, <3>4, DriftStep
      <4>5. Chained(told, new)
        BY <4>4, <3>1 DEF Chained
      <4> QED
        BY <4>5, <4>1, <3>1
    <3> QED
      BY <3>2, <3>3, <3>4
  <2> QED
    BY <2>1, <2>2, <2>3 DEF Stays
<1>4. ASSUME NEW v \in Ids, RemoveWatch(v) PROVE Good(w)
  <2>1. v # w => rows'[w] = rows[w] /\ alerts'[w] = alerts[w]
    BY <1>4 DEF RemoveWatch, Tables
  <2>2. v = w => alerts'[w] = <<>>
    BY <1>4 DEF RemoveWatch, Tables
  <2> QED
    BY <2>1, <2>2, <1>1, <1>2
<1>5. ASSUME NEW c \in Creators, Insert(c) PROVE Good(w)
  <2>1. PICK v \in Ids : rows[v].state = "free" /\ rows' = [rows EXCEPT ![v] = rows'[v]]
    BY <1>5, InsertRow
  <2>2. v # w => rows'[w] = rows[w]
    BY <2>1 DEF Tables
  <2>3. alerts' = alerts
    BY <1>5 DEF Insert
  <2>4. v = w => alerts[w] = <<>>
    <3>1. v = w => DOMAIN alerts[w] = {}
      BY <2>1 DEF NoGhostAlerts, Live
    <3> QED
      BY <3>1, <1>t, NoneLeft
  <2> QED
    BY <2>2, <2>3, <2>4, <1>1, <1>2
<1>6. CASE UNCHANGED <<rows, alerts>>
  BY <1>6, <1>1
<1>7. ASSUME NEW c \in Creators, NEW o \in Owners, NEW q \in Queries, SelectTwin(c, o, q)
      PROVE  UNCHANGED <<rows, alerts>>
  BY <1>7 DEF SelectTwin
<1> QED
  BY <1>3, <1>4, <1>5, <1>6, <1>7 DEF Next, Crash, vars

\* The alerts of each watch tell its price as a chain, through failed checks,
\* removals and restarts: what no alert tells of is a drift below the
\* threshold.
THEOREM AlertsChain == Spec => []AlertChain
<1>1. Init => Baselines /\ AlertChain
  <2> SUFFICES ASSUME Init, NEW w \in Ids PROVE alerts[w] = <<>> /\ ~Live(w)
    BY DEF AlertChain, LiveRows, Baselines
  <2> QED
    BY DEF Init, Live, FreeRow
<1>2. Tables /\ NoGhostAlerts /\ Baselines /\ AlertChain /\ [Next]_vars
        => (Tables /\ NoGhostAlerts /\ Baselines /\ AlertChain)'
  BY NextTables, NextGhosts, NextChain
<1> QED
  BY <1>1, <1>2, InitTables, InitGhosts, PTL DEF Spec

-----------------------------------------------------------------------------
(***************************************************************************)
(* The order of the rows.  A line has the watches of W, each once; what is *)
(* done to it keeps those that stay in their order.                        *)
(***************************************************************************)

Line(s, W) ==
  /\ s \in Seq(Ids)
  /\ {s[i] : i \in DOMAIN s} = W
  /\ \A i, j \in DOMAIN s : s[i] = s[j] => i = j

LEMMA LineCount ==
  ASSUME NEW s, NEW W, Line(s, W)
  PROVE  Len(s) = Cardinality(W)
<1> DEFINE n == Len(s)
<1>1. n \in Nat /\ DOMAIN s = 1 .. n
  BY DEF Line
<1>2. IsFiniteSet(1 .. n) /\ Cardinality(1 .. n) = n
  BY <1>1, FS_Interval
<1> DEFINE f == [i \in 1 .. n |-> s[i]]
<1>3. f \in Bijection(1 .. n, W)
  BY <1>1 DEF Line, Bijection, Injection, Surjection, IsInjective
<1>4. QED
  BY <1>2, <1>3, FS_Bijection DEF ExistsBijection

LEMMA OneBeforeTheOther ==
  ASSUME NEW s, NEW W, Line(s, W), NEW v, NEW w, Before(s, v, w)
  PROVE  ~Before(s, w, v)
<1>1. DOMAIN s = 1 .. Len(s) /\ Len(s) \in Nat
  BY DEF Line
<1> QED
  BY <1>1 DEF Line, Before

LEMMA LineAppend ==
  ASSUME NEW s, NEW W, Line(s, W), NEW c \in Ids, c \notin W
  PROVE  /\ Line(Append(s, c), W \cup {c})
         /\ \A v, w : Before(Append(s, c), v, w) => Before(s, v, w) \/ w = c
<1> DEFINE t == Append(s, c)
<1>1. /\ Len(s) \in Nat /\ DOMAIN s = 1 .. Len(s) /\ s \in Seq(Ids)
      /\ \A i \in DOMAIN s : s[i] \in W
  BY DEF Line
<1>2. /\ t \in Seq(Ids) /\ DOMAIN t = 1 .. Len(s) + 1 /\ t[Len(s) + 1] = c
      /\ \A i \in 1 .. Len(s) : t[i] = s[i]
  BY <1>1
<1> HIDE DEF t
<1>3. {t[i] : i \in DOMAIN t} = {s[i] : i \in DOMAIN s} \cup {c}
  BY <1>1, <1>2
<1>4. \A i, j \in DOMAIN t : t[i] = t[j] => i = j
  BY <1>1, <1>2 DEF Line
<1>5. Line(t, W \cup {c})
  BY <1>2, <1>3, <1>4 DEF Line
<1>6. ASSUME NEW v, NEW w, Before(t, v, w), w # c
      PROVE  Before(s, v, w)
  BY <1>1, <1>2, <1>6 DEF Before
<1> QED
  BY <1>5, <1>6 DEF t

LEMMA LineCut ==
  ASSUME NEW s, NEW W, Line(s, W), NEW k \in DOMAIN s
  PROVE  /\ Line(RemoveAt(s, k), W \ {s[k]})
         /\ \A v, w : Before(RemoveAt(s, k), v, w) => Before(s, v, w)
<1> DEFINE n == Len(s)
           t == RemoveAt(s, k)
<1>1. n \in Nat /\ DOMAIN s = 1 .. n /\ s \in Seq(Ids) /\ k \in 1 .. n
  BY DEF Line
<1> DEFINE a == SubSeq(s, 1, k - 1)
           b == SubSeq(s, k + 1, n)
<1>2. a \in Seq(Ids) /\ Len(a) = k - 1 /\ \A i \in 1 .. k - 1 : a[i] = s[i]
  BY <1>1
<1>3. b \in Seq(Ids) /\ Len(b) = n - k /\ \A i \in 1 .. n - k : b[i] = s[k + i]
  BY <1>1
<1>4. t = a \o b
  BY DEF RemoveAt
<1> HIDE DEF a, b, t
<1>5. /\ t \in Seq(Ids) /\ Len(t) = n - 1 /\ DOMAIN t = 1 .. n - 1
      /\ \A i \in 1 .. n - 1 : t[i] = IF i <= k - 1 THEN a[i] ELSE b[i - (k - 1)]
  <2>1. a \o b \in Seq(Ids) /\ Len(a \o b) = Len(a) + Len(b)
    BY <1>2, <1>3, ConcatProperties
  <2>2. \A i \in 1 .. Len(a) + Len(b) : (a \o b)[i] = IF i <= Len(a) THEN a[i] ELSE b[i - Len(a)]
    BY <1>2, <1>3, ConcatProperties
  <2>3. Len(a) + Len(b) = n - 1
    BY <1>1, <1>2, <1>3
  <2>4. QED
    BY <1>2, <1>4, <2>1, <2>2, <2>3
<1>6. ASSUME NEW i \in 1 .. n - 1 PROVE t[i] = IF i < k THEN s[i] ELSE s[i + 1]
  <2>1. CASE i < k
    BY <1>1, <1>2, <1>5, <2>1
  <2>2. CASE i >= k
    <3>1. i - (k - 1) \in 1 .. n - k /\ k + (i - (k - 1)) = i + 1
      BY <1>1, <2>2
    <3>2. b[i - (k - 1)] = s[i + 1]
      BY <1>3, <3>1
    <3>3. QED
      BY <1>1, <1>5, <2>2, <3>2
  <2>3. QED
    BY <1>1, <2>1, <2>2
<1>7. \A i \in DOMAIN t : \E g \in DOMAIN s : t[i] = s[g] /\ g = IF i < k THEN i ELSE i + 1
  BY <1>1, <1>5, <1>6
<1>8. \A i, j \in DOMAIN t : t[i] = t[j] => i = j
  BY <1>1, <1>5, <1>7 DEF Line
<1>9. \A i \in DOMAIN t : t[i] \in W \ {s[k]}
  BY <1>1, <1>5, <1>7 DEF Line
<1>10. ASSUME NEW c \in W \ {s[k]} PROVE \E i \in DOMAIN t : t[i] = c
  <2>1. PICK g \in DOMAIN s : s[g] = c
    BY DEF Line
  <2>2. CASE g < k
    <3>1. g \in DOMAIN t /\ t[g] = c
      BY <1>1, <1>5, <1>6, <2>1, <2>2
    <3>2. QED
      BY <3>1
  <2>3. CASE g > k
    <3>1. g - 1 \in DOMAIN t /\ t[g - 1] = c
      BY <1>1, <1>5, <1>6, <2>1, <2>3
    <3>2. QED
      BY <3>1
  <2>4. QED
    BY <1>1, <2>1, <2>2, <2>3
<1>11. {t[i] : i \in DOMAIN t} = W \ {s[k]}
  BY <1>9, <1>10
<1>12. ASSUME NEW v, NEW w, Before(t, v, w) PROVE Before(s, v, w)
  <2>1. PICK i \in DOMAIN t, j \in DOMAIN t : i < j /\ t[i] = v /\ t[j] = w
    BY <1>12 DEF Before
  <2>2. PICK g \in DOMAIN s : v = s[g] /\ g = IF i < k THEN i ELSE i + 1
    BY <1>7, <2>1
  <2>3. PICK h \in DOMAIN s : w = s[h] /\ h = IF j < k THEN j ELSE j + 1
    BY <1>7, <2>1
  <2>4. g < h
    BY <1>1, <1>5, <2>1, <2>2, <2>3
  <2>5. QED
    BY <2>2, <2>3, <2>4 DEF Before
<1>13. Line(t, W \ {s[k]})
  BY <1>5, <1>8, <1>11 DEF Line
<1>14. QED
  BY <1>12, <1>13 DEF t

LEMMA LineRemove ==
  ASSUME NEW s, NEW W, Line(s, W), NEW c
  PROVE  /\ Line(RemoveFirst(s, c), W \ {c})
         /\ \A v, w : Before(RemoveFirst(s, c), v, w) => Before(s, v, w)
<1>1. Len(s) \in Nat /\ DOMAIN s = 1 .. Len(s)
  BY DEF Line
<1>2. CASE \E i \in 1 .. Len(s) : s[i] = c
  <2> DEFINE I == {i \in 1 .. Len(s) : s[i] = c}
             k == SelectInSeq(s, LAMBDA v : v = c)
  <2>1. k = IF I # {} THEN CHOOSE x \in I : \A y \in I : x <= y ELSE 0
    BY DEF SelectInSeq, Min
  <2>2. PICK i \in I : TRUE
    BY <1>2
  <2>3. I = {i}
    BY <1>1, <2>2 DEF Line
  <2>4. k = i
    BY <1>1, <2>1, <2>3
  <2>5. RemoveFirst(s, c) = RemoveAt(s, i)
    BY <1>2, <2>4 DEF RemoveFirst
  <2>6. i \in DOMAIN s /\ s[i] = c
    BY <1>1, <2>2
  <2>7. QED
    BY <2>5, <2>6, LineCut
<1>3. CASE ~\E i \in 1 .. Len(s) : s[i] = c
  <2>1. RemoveFirst(s, c) = s /\ W \ {c} = W
    BY <1>1, <1>3 DEF RemoveFirst, Line
  <2>2. QED
    BY <2>1
<1>4. QED
  BY <1>2, <1>3

LEMMA LineInsert ==
  ASSUME NEW s, NEW W, Line(s, W), NEW c \in Ids, c \notin W, NEW k \in 1 .. Len(s) + 1
  PROVE  /\ Line(InsertAt(s, k, c), W \cup {c})
         /\ \A v, w : Before(InsertAt(s, k, c), v, w) => Before(s, v, w) \/ v = c \/ w = c
<1> DEFINE n == Len(s)
           t == InsertAt(s, k, c)
<1>1. n \in Nat /\ DOMAIN s = 1 .. n /\ s \in Seq(Ids) /\ k \in 1 .. n + 1
  BY DEF Line
<1> DEFINE a == SubSeq(s, 1, k - 1)
           b == SubSeq(s, k, n)
           ac == Append(a, c)
<1>2. a \in Seq(Ids) /\ Len(a) = k - 1 /\ \A i \in 1 .. k - 1 : a[i] = s[i]
  BY <1>1
<1>3. b \in Seq(Ids) /\ Len(b) = n - k + 1 /\ \A i \in 1 .. n - k + 1 : b[i] = s[k + i - 1]
  BY <1>1
<1>4. t = ac \o b
  <2>1. a \o <<c>> = Append(a, c)
    BY <1>2, AppendIsConcat
  <2>2. QED
    BY <2>1 DEF InsertAt
<1>5. /\ ac \in Seq(Ids) /\ Len(ac) = k
      /\ \A i \in 1 .. k : ac[i] = IF i = k THEN c ELSE s[i]
  BY <1>1, <1>2
<1> HIDE DEF a, b, ac, t
<1>6. /\ t \in Seq(Ids) /\ DOMAIN t = 1 .. n + 1
      /\ \A i \in 1 .. n + 1 : t[i] = IF i <= k THEN ac[i] ELSE b[i - k]
  <2>1. ac \o b \in Seq(Ids) /\ Len(ac \o b) = Len(ac) + Len(b)
    BY <1>3, <1>5, ConcatProperties
  <2>2. \A i \in 1 .. Len(ac) + Len(b) : (ac \o b)[i] = IF i <= Len(ac) THEN ac[i] ELSE b[i - Len(ac)]
    BY <1>3, <1>5, ConcatProperties
  <2>3. Len(ac) + Len(b) = n + 1
    BY <1>1, <1>3, <1>5
  <2>4. QED
    BY <1>4, <1>5, <2>1, <2>2, <2>3
<1>7. ASSUME NEW i \in 1 .. n + 1
      PROVE  t[i] = IF i < k THEN s[i] ELSE IF i = k THEN c ELSE s[i - 1]
  <2>1. CASE i <= k
    BY <1>1, <1>5, <1>6, <2>1
  <2>2. CASE i > k
    <3>1. i - k \in 1 .. n - k + 1 /\ k + (i - k) - 1 = i - 1
      BY <1>1, <2>2
    <3>2. b[i - k] = s[i - 1]
      BY <1>3, <3>1
    <3>3. QED
      BY <1>1, <1>6, <2>2, <3>2
  <2>3. QED
    BY <1>1, <2>1, <2>2
<1>8. \A i \in DOMAIN t : i # k =>
        \E g \in DOMAIN s : t[i] = s[g] /\ g = IF i < k THEN i ELSE i - 1
  BY <1>1, <1>6, <1>7
<1>9. k \in DOMAIN t /\ t[k] = c
  BY <1>1, <1>6, <1>7
<1>10. \A g \in DOMAIN s : s[g] \in W /\ s[g] # c
  BY DEF Line
<1>11. \A i, j \in DOMAIN t : t[i] = t[j] => i = j
  BY <1>1, <1>6, <1>8, <1>9, <1>10 DEF Line
<1>12. \A i \in DOMAIN t : t[i] \in W \cup {c}
  BY <1>8, <1>9, <1>10
<1>13. ASSUME NEW d \in W PROVE \E i \in DOMAIN t : t[i] = d
  <2>1. PICK g \in DOMAIN s : s[g] = d
    BY DEF Line
  <2>2. CASE g < k
    <3>1. g \in DOMAIN t /\ t[g] = d
      BY <1>1, <1>6, <1>7, <2>1, <2>2
    <3>2. QED
      BY <3>1
  <2>3. CASE g >= k
    <3>1. g + 1 \in DOMAIN t /\ t[g + 1] = d
      BY <1>1, <1>6, <1>7, <2>1, <2>3
    <3>2. QED
      BY <3>1
  <2>4. QED
    BY <1>1, <2>1, <2>2, <2>3
<1>14. {t[i] : i \in DOMAIN t} = W \cup {c}
  BY <1>9, <1>12, <1>13
<1>15. ASSUME NEW v, NEW w, Before(t, v, w), v # c, w # c PROVE Before(s, v, w)
  <2>1. PICK i \in DOMAIN t, j \in DOMAIN t : i < j /\ t[i] = v /\ t[j] = w
    BY <1>15 DEF Before
  <2>2. i # k /\ j # k
    BY <1>9, <1>15, <2>1
  <2>3. PICK g \in DOMAIN s : v = s[g] /\ g = IF i < k THEN i ELSE i - 1
    BY <1>8, <2>1, <2>2
  <2>4. PICK h \in DOMAIN s : w = s[h] /\ h = IF j < k THEN j ELSE j - 1
    BY <1>8, <2>1, <2>2
  <2>5. g < h
    BY <1>1, <1>6, <2>1, <2>2, <2>3, <2>4
  <2>6. QED
    BY <2>3, <2>4, <2>5 DEF Before
<1>16. Line(t, W \cup {c})
  BY <1>6, <1>11, <1>14 DEF Line
<1>17. QED
  BY <1>15, <1>16 DEF t

-----------------------------------------------------------------------------
(***************************************************************************)
(* What a tick takes: the n-th of the places that are due.                 *)
(***************************************************************************)

UpTo(i) == {j \in DuePlaces : j <= i}
PlaceOfDue(k) == CHOOSE i \in DuePlaces : Cardinality(UpTo(i)) = k

LEMMA LeastOf ==
  ASSUME NEW T \in SUBSET Nat, T # {}
  PROVE  \E x \in T : \A y \in T : x <= y
<1>1. IsWellFoundedOn(OpToRel(<, Nat), Nat)
  BY NatLessThanWellFounded
<1>2. PICK x \in T : \A y \in T : ~(<<y, x>> \in OpToRel(<, Nat))
  BY <1>1, WFMin
<1>3. \A y \in T : ~(y < x)
  BY <1>2 DEF OpToRel
<1> QED
  BY <1>3

LEMMA DueFinite ==
  ASSUME Line(order, LiveRows)
  PROVE  /\ Len(order) \in Nat /\ DuePlaces \subseteq 1 .. Len(order)
         /\ IsFiniteSet(DuePlaces) /\ Cardinality(DuePlaces) \in Nat
         /\ \A i : IsFiniteSet(UpTo(i)) /\ Cardinality(UpTo(i)) \in Nat
<1>1. Len(order) \in Nat /\ DuePlaces \subseteq 1 .. Len(order)
  BY DEF Line, DuePlaces
<1>2. IsFiniteSet(DuePlaces)
  <2>1. IsFiniteSet(1 .. Len(order))
    BY <1>1, FS_Interval
  <2>2. QED
    BY <1>1, <2>1, FS_Subset
<1>3. \A i : UpTo(i) \subseteq DuePlaces
  BY DEF UpTo
<1>4. \A i : IsFiniteSet(UpTo(i))
  BY <1>2, <1>3, FS_Subset
<1> QED
  BY <1>1, <1>2, <1>4, FS_CardinalityType

LEMMA UpToGrows ==
  ASSUME Line(order, LiveRows), NEW i \in DuePlaces, NEW j \in DuePlaces, i < j
  PROVE  Cardinality(UpTo(i)) < Cardinality(UpTo(j))
<1>1. i \in Nat /\ j \in Nat /\ DuePlaces \subseteq Nat
  BY DueFinite
<1>2. UpTo(i) \subseteq UpTo(j)
  <2>1. \A d \in DuePlaces : d <= i => d <= j
    BY <1>1
  <2>2. QED
    BY <2>1 DEF UpTo
<1>3. j \in UpTo(j) /\ j \notin UpTo(i)
  BY <1>1 DEF UpTo
<1>4. UpTo(i) # UpTo(j)
  BY <1>3
<1>5. /\ Cardinality(UpTo(i)) \in Nat /\ Cardinality(UpTo(j)) \in Nat
      /\ IsFiniteSet(UpTo(j))
  BY DueFinite
<1> QED
  BY <1>2, <1>4, <1>5, FS_Subset

LEMMA DueThere ==
  ASSUME Line(order, LiveRows), NEW k \in 1 .. Cardinality(DuePlaces)
  PROVE  PlaceOfDue(k) \in DuePlaces /\ Cardinality(UpTo(PlaceOfDue(k))) = k
<1> DEFINE n == Len(order)
           T == {i \in 1 .. n : Cardinality(UpTo(i)) >= k}
<1>1. /\ n \in Nat /\ \A j \in DuePlaces : j \in Nat /\ 1 <= j /\ j <= n
      /\ k \in Nat /\ k >= 1
  BY DueFinite
<1>0. \A i : IsFiniteSet(UpTo(i)) /\ Cardinality(UpTo(i)) \in Nat
  BY DueFinite
<1> HIDE DEF n
<1>2. DuePlaces # {} /\ Cardinality({}) = 0
  BY FS_EmptySet
<1>3. UpTo(n) = DuePlaces
  BY <1>1 DEF UpTo
<1>4. n \in T /\ T \subseteq Nat
  BY <1>1, <1>2, <1>3, DueFinite
<1>5. PICK i \in T : \A y \in T : i <= y
  BY <1>4, LeastOf
<1>6. Cardinality(UpTo(i - 1)) < k
  <2>1. CASE i = 1
    <3>1. UpTo(0) = {}
      BY <1>1 DEF UpTo
    <3>2. i - 1 = 0
      BY <2>1
    <3>3. QED
      BY <1>1, <1>2, <3>1, <3>2
  <2>2. CASE i > 1
    <3>1. i - 1 \in 1 .. n /\ i - 1 \notin T
      BY <1>1, <1>5, <2>2
    <3>2. QED
      BY <1>1, <1>0, <3>1
  <2>3. QED
    BY <1>1, <1>5, <2>1, <2>2
<1>7. i \in DuePlaces
  <2>1. SUFFICES ASSUME i \notin DuePlaces PROVE FALSE
    OBVIOUS
  <2>2. UpTo(i) = UpTo(i - 1)
    <3>1. \A j \in DuePlaces : j <= i <=> j <= i - 1
      BY <1>1, <1>4, <2>1
    <3>2. QED
      BY <3>1 DEF UpTo
  <2>3. QED
    BY <1>1, <1>5, <1>6, <1>0, <2>2
<1>8. UpTo(i) = UpTo(i - 1) \cup {i} /\ i \notin UpTo(i - 1)
  <2>1. \A j \in DuePlaces : j <= i <=> j <= i - 1 \/ j = i
    BY <1>1, <1>4
  <2>2. ~(i <= i - 1) /\ i <= i
    BY <1>4
  <2>3. QED
    BY <1>7, <2>1, <2>2 DEF UpTo
<1>9. Cardinality(UpTo(i)) = Cardinality(UpTo(i - 1)) + 1
  BY <1>0, <1>8, FS_AddElement
<1>10. Cardinality(UpTo(i)) = k
  BY <1>1, <1>5, <1>6, <1>9, <1>0
<1> QED
  BY <1>7, <1>10 DEF PlaceOfDue

LEMMA DueTaken ==
  ASSUME Line(order, LiveRows), rows \in [Ids -> Row]
  PROVE  /\ InTick \in Nat /\ InTick <= Cardinality(DuePlaces)
         /\ DueWatches \in Seq(Ids) /\ Len(DueWatches) = InTick
         /\ DOMAIN DueWatches = 1 .. InTick
         /\ \A k \in 1 .. InTick : DueWatches[k] = order[PlaceOfDue(k)]
<1>1. /\ Cardinality(DuePlaces) \in Nat /\ DuePlaces \subseteq DOMAIN order
      /\ \A i \in DOMAIN order : order[i] \in Ids
  BY DueFinite DEF DuePlaces, Line
<1>2. InTick \in Nat /\ InTick <= Cardinality(DuePlaces)
  <2>1. \E x \in {Parallel, Cardinality(DuePlaces)} :
          \A y \in {Parallel, Cardinality(DuePlaces)} : x <= y
    BY <1>1
  <2>2. /\ InTick \in {Parallel, Cardinality(DuePlaces)}
        /\ InTick <= Cardinality(DuePlaces)
    BY <2>1 DEF InTick, Min
  <2>3. QED
    BY <1>1, <2>2
<1>3. \A k \in 1 .. InTick : k \in 1 .. Cardinality(DuePlaces)
  BY <1>1, <1>2
<1>4. DueWatches = [k \in 1 .. InTick |-> order[PlaceOfDue(k)]]
  BY DEF DueWatches, PlaceOfDue, UpTo
<1>5. \A k \in 1 .. InTick : order[PlaceOfDue(k)] \in Ids
  BY <1>1, <1>3, DueThere
<1>6. DueWatches \in [1 .. InTick -> Ids]
  BY <1>4, <1>5
<1>7. DueWatches \in Seq(Ids) /\ Len(DueWatches) = InTick
  BY <1>2, <1>6
<1> QED
  BY <1>2, <1>4, <1>7

-----------------------------------------------------------------------------
(***************************************************************************)
(* The types of all variables.                                             *)
(***************************************************************************)

Tick ==
  /\ loop \in [pc: {"asleep", "search", "record"}, due: Seq(Ids),
               outcome: Prices \cup {NoPrice}]
  /\ loop.pc = "asleep" <=> loop.due = <<>>

IInv == Tables /\ Line(order, LiveRows) /\ Tick

LEMMA NextTick == IInv /\ [Next]_vars => Tick'
<1> SUFFICES ASSUME IInv, [Next]_vars PROVE Tick'
  OBVIOUS
<1> USE DEF IInv
<1>1. Asleep \in [pc: {"asleep"}, due: {<<>>}, outcome: {NoPrice}] /\ <<>> \in Seq(Ids)
  BY DEF Asleep
<1>2. CASE Scan
  <2>1. DueWatches \in Seq(Ids) /\ DueWatches # <<>>
    BY <1>2, DueTaken DEF Scan, Tables
  <2>2. loop' = [pc |-> "search", due |-> DueWatches, outcome |-> NoPrice]
    BY <1>2 DEF Scan, Asleep
  <2> QED
    BY <2>1, <2>2 DEF Tick
<1>3. CASE Search
  BY <1>3 DEF Search, Tick
<1>4. CASE Record
  <2>1. NextWatch /\ loop.due # <<>> /\ loop.due \in Seq(Ids)
    BY <1>4 DEF Record, Tick
  <2>2. CASE Len(loop.due) = 1
    BY <1>1, <2>1, <2>2 DEF NextWatch, Tick
  <2>3. CASE Len(loop.due) # 1
    <3>1. Tail(loop.due) \in Seq(Ids) /\ Tail(loop.due) # <<>>
      <4>1. /\ Tail(loop.due) \in Seq(Ids)
            /\ Len(Tail(loop.due)) = Len(loop.due) - 1 /\ Len(loop.due) \in Nat
        BY <2>1
      <4>2. Len(Tail(loop.due)) # 0
        BY <2>3, <4>1
      <4>3. Len(<<>>) = 0
        OBVIOUS
      <4>4. QED
        BY <4>1, <4>2, <4>3
    <3>2. loop' = [pc |-> "search", due |-> Tail(loop.due), outcome |-> NoPrice]
      BY <2>1, <2>3 DEF NextWatch, Asleep
    <3> QED
      BY <3>1, <3>2 DEF Tick
  <2> QED
    BY <2>2, <2>3
<1>5. CASE Crash
  BY <1>1, <1>5 DEF Crash, Tick
<1>6. CASE UNCHANGED loop
  BY <1>6 DEF Tick
<1> QED
  BY <1>2, <1>3, <1>4, <1>5, <1>6
     DEF Next, vars, BecomeDue, RemoveWatch, Insert, SelectTwin

\* What becomes of the order: of two watches that stay, the one behind gets
\* ahead only if the other is the one that was checked.
Keeps ==
  /\ Line(order, LiveRows)'
  /\ \A v, w \in LiveRows :
       Before(order', v, w)
         => Before(order, v, w) \/ (loop.pc = "record" /\ w = Head(loop.due))

LEMMA CheckedKeeps ==
  ASSUME IInv, NEW w \in LiveRows, w = Head(loop.due), loop.pc = "record",
         Checked(w), LiveRows' = LiveRows
  PROVE  Keeps
<1> DEFINE s == RemoveFirst(order, w)
<1>1. Line(s, LiveRows \ {w}) /\ \A u, v : Before(s, u, v) => Before(order, u, v)
  BY LineRemove DEF IInv
<1>2. w \in Ids /\ w \notin LiveRows \ {w} /\ (LiveRows \ {w}) \cup {w} = LiveRows
  BY DEF LiveRows
<1> HIDE DEF s
<1>3. /\ Line(Append(s, w), LiveRows)
      /\ \A u, v : Before(Append(s, w), u, v) => Before(s, u, v) \/ v = w
  <2>1. Line(Append(s, w), (LiveRows \ {w}) \cup {w})
    BY <1>1, <1>2, LineAppend
  <2>2. \A u, v : Before(Append(s, w), u, v) => Before(s, u, v) \/ v = w
    BY <1>1, <1>2, LineAppend
  <2> QED
    BY <1>2, <2>1, <2>2
<1>4. order' = Append(s, w)
  BY DEF Checked, s
<1>5. Line(order', LiveRows')
  BY <1>3, <1>4
<1>6. Line(order, LiveRows)'
  BY <1>5 DEF Line
<1> QED
  BY <1>1, <1>3, <1>4, <1>6 DEF Keeps

LEMMA SameKeeps ==
  ASSUME IInv, order' = order, LiveRows' = LiveRows
  PROVE  Keeps
BY DEF IInv, Keeps, Line

LEMMA NextKeeps == IInv /\ [Next]_vars => Keeps
<1> SUFFICES ASSUME IInv, [Next]_vars PROVE Keeps
  OBVIOUS
<1>1. Tables /\ Line(order, LiveRows)
  BY DEF IInv
<1>2. ASSUME \A w \in Ids : Stays(w) PROVE LiveRows' = LiveRows
  BY <1>2 DEF LiveRows, Live, Stays
<1>3. CASE Scan \/ Search \/ \E w \in Ids : BecomeDue(w)
  <2>1. order' = order /\ LiveRows' = LiveRows
    BY <1>1, <1>2, <1>3, RowsStay DEF Scan, Search, BecomeDue
  <2> QED
    BY <2>1, SameKeeps
<1>4. CASE Record
  <2>1. LiveRows' = LiveRows
    BY <1>1, <1>2, <1>4, RowsStay
  <2>2. loop.pc = "record" /\ Head(loop.due) \in Ids
    BY <1>4 DEF Record, IInv, Tick
  <2>3. \/ order' = order
        \/ Head(loop.due) \in LiveRows /\ Checked(Head(loop.due))
    BY <1>4, <2>2 DEF Record, LiveRows
  <2> QED
    BY <2>1, <2>2, <2>3, SameKeeps, CheckedKeeps
<1>5. ASSUME NEW w \in Ids, RemoveWatch(w) PROVE Keeps
  <2>1. LiveRows' = LiveRows \ {w}
    <3>1. rows' = [rows EXCEPT ![w] = [FreeRow EXCEPT !.state = "gone"]]
      BY <1>5 DEF RemoveWatch
    <3>2. rows'[w].state = "gone" /\ \A v \in Ids : v # w => rows'[v] = rows[v]
      BY <1>1, <3>1 DEF Tables, FreeRow
    <3> QED
      BY <3>2 DEF LiveRows, Live
  <2>2. order' = RemoveFirst(order, w)
    BY <1>5 DEF RemoveWatch
  <2>3. Line(order', LiveRows') /\ \A u, v : Before(order', u, v) => Before(order, u, v)
    BY <1>1, <2>1, <2>2, LineRemove
  <2>4. Line(order, LiveRows)'
    BY <2>3 DEF Line
  <2> QED
    BY <2>3, <2>4 DEF Keeps
<1>6. ASSUME NEW c \in Creators, Insert(c) PROVE Keeps
  <2>1. PICK w \in Ids, i \in 1 .. Len(order) + 1 :
          /\ rows[w].state = "free"
          /\ rows' = [rows EXCEPT ![w] = [FreeRow EXCEPT !.state = "live",
                                   !.owner = create[c].owner, !.query = create[c].query]]
          /\ order' = InsertAt(order, i, w)
    BY <1>6 DEF Insert
  <2>2. LiveRows' = LiveRows \cup {w} /\ w \notin LiveRows
    <3>1. rows'[w].state = "live" /\ \A v \in Ids : v # w => rows'[v] = rows[v]
      BY <1>1, <2>1 DEF Tables, FreeRow
    <3> QED
      BY <2>1, <3>1 DEF LiveRows, Live
  <2>3. /\ Line(order', LiveRows')
        /\ \A u, v : Before(order', u, v) => Before(order, u, v) \/ u = w \/ v = w
    <3>1. Line(InsertAt(order, i, w), LiveRows \cup {w})
      BY <1>1, <2>2, LineInsert
    <3>2. \A u, v : Before(InsertAt(order, i, w), u, v) => Before(order, u, v) \/ u = w \/ v = w
      BY <1>1, <2>2, LineInsert
    <3> QED
      BY <2>1, <2>2, <3>1, <3>2
  <2>4. Line(order, LiveRows)'
    BY <2>3 DEF Line
  <2> QED
    BY <2>2, <2>3, <2>4 DEF Keeps
<1>7. CASE order' = order /\ rows' = rows
  <2>1. LiveRows' = LiveRows
    BY <1>7 DEF LiveRows, Live
  <2> QED
    BY <1>7, <2>1, SameKeeps
<1> QED
  BY <1>3, <1>4, <1>5, <1>6, <1>7 DEF Next, vars, Crash, SelectTwin

LEMMA InitIInv == Init => IInv
<1> SUFFICES ASSUME Init PROVE IInv
  OBVIOUS
<1>1. order = <<>> /\ LiveRows = {}
  BY DEF Init, LiveRows, Live, FreeRow
<1>2. Line(order, LiveRows)
  BY <1>1 DEF Line
<1>3. Tick
  BY DEF Init, Tick, Asleep
<1> QED
  BY <1>2, <1>3, InitTables DEF IInv

LEMMA NextIInv == IInv /\ [Next]_vars => IInv'
  BY NextTables, NextKeeps, NextTick DEF IInv, Keeps

\* The order of the rows by their last check has each live watch, once; the
\* loop has something in hand just when it is not asleep.
THEOREM TypeCorrect == Spec => []TypeOK
<1>1. IInv => TypeOK
  <2> SUFFICES ASSUME IInv PROVE TypeOK
    OBVIOUS
  <2>1. Line(order, LiveRows)
    BY DEF IInv
  <2>2. Len(order) = Cardinality(LiveRows)
    BY <2>1, LineCount
  <2>3. order \in Seq(Ids) /\ ToSet(order) = LiveRows
    BY <2>1 DEF Line, ToSet
  <2> QED
    BY <2>2, <2>3 DEF TypeOK, IInv, Tables, Creating, Tick
<1> QED
  BY <1>1, InitIInv, NextIInv, PTL DEF Spec

LEMMA ScanTakes ==
  ASSUME IInv, Scan, NEW k \in DOMAIN loop'.due
  PROVE  TakenInTurn(loop'.due, k)
<1>1. Line(order, LiveRows) /\ rows \in [Ids -> Row]
  BY DEF IInv, Tables
<1>2. /\ loop'.due = DueWatches /\ InTick \in Nat /\ InTick <= Cardinality(DuePlaces)
      /\ DOMAIN DueWatches = 1 .. InTick
      /\ \A m \in 1 .. InTick : DueWatches[m] = order[PlaceOfDue(m)]
  BY <1>1, DueTaken DEF Scan, Asleep
<1>3. /\ DuePlaces \subseteq DOMAIN order /\ DOMAIN order = 1 .. Len(order) /\ Len(order) \in Nat
      /\ Cardinality(DuePlaces) \in Nat
      /\ \A i \in DOMAIN order : order[i] \in LiveRows
      /\ \A i, j \in DOMAIN order : order[i] = order[j] => i = j
  BY <1>1, DueFinite DEF DuePlaces, Line
<1>4. \A m \in 1 .. InTick : PlaceOfDue(m) \in DuePlaces /\ Cardinality(UpTo(PlaceOfDue(m))) = m
  BY <1>1, <1>2, <1>3, DueThere
<1>5. k \in 1 .. InTick
  BY <1>2
<1> DEFINE p == PlaceOfDue(k)
<1>6. p \in DuePlaces /\ loop'.due[k] = order[p] /\ Cardinality(UpTo(p)) = k
  BY <1>2, <1>4, <1>5
<1> HIDE DEF p
<1>7. Live(loop'.due[k]) /\ rows[loop'.due[k]].due
  BY <1>3, <1>6 DEF DuePlaces, LiveRows
<1>8. ASSUME NEW m \in 1 .. k - 1
      PROVE  /\ loop'.due[m] \in LiveRows /\ rows[loop'.due[m]].due
             /\ Before(order, loop'.due[m], loop'.due[k])
  <2>1. m \in 1 .. InTick /\ m < k
    BY <1>2, <1>5
  <2> DEFINE i == PlaceOfDue(m)
  <2>2. i \in DuePlaces /\ Cardinality(UpTo(i)) = m /\ loop'.due[m] = order[i]
    BY <1>2, <1>4, <2>1
  <2> HIDE DEF i
  <2>3. ~(p < i) /\ p # i
    BY <1>1, <1>2, <1>5, <1>6, <2>1, <2>2, UpToGrows
  <2>4. i < p
    BY <1>3, <1>6, <2>2, <2>3
  <2> QED
    BY <1>3, <1>6, <2>2, <2>4 DEF Before, DuePlaces
<1>9. ASSUME NEW v \in LiveRows, rows[v].due, Before(order, v, loop'.due[k])
      PROVE  \E m \in 1 .. k - 1 : loop'.due[m] = v
  <2>1. PICK i \in DOMAIN order, j \in DOMAIN order :
          i < j /\ order[i] = v /\ order[j] = loop'.due[k]
    BY <1>9 DEF Before
  <2>2. j = p /\ i \in DuePlaces /\ i < p
    BY <1>3, <1>6, <1>9, <2>1 DEF DuePlaces
  <2> DEFINE m == Cardinality(UpTo(i))
  <2>3. m \in Nat /\ m < k
    BY <1>1, <1>6, <2>2, UpToGrows, DueFinite
  <2>4. m # 0
    <3>1. i \in UpTo(i) /\ IsFiniteSet(UpTo(i))
      BY <1>1, <1>3, <2>2, DueFinite DEF UpTo
    <3> QED
      BY <3>1, FS_EmptySet
  <2>5. m \in 1 .. k - 1 /\ m \in 1 .. InTick
    BY <1>2, <1>5, <2>3, <2>4
  <2>6. PlaceOfDue(m) = i
    <3>1. PlaceOfDue(m) \in DuePlaces /\ Cardinality(UpTo(PlaceOfDue(m))) = m
      BY <1>4, <2>5
    <3>2. ~(PlaceOfDue(m) < i) /\ ~(i < PlaceOfDue(m))
      BY <1>1, <2>2, <2>3, <3>1, UpToGrows
    <3> QED
      BY <1>3, <2>2, <3>1, <3>2
  <2>7. loop'.due[m] = v
    BY <1>2, <2>1, <2>5, <2>6
  <2> QED
    BY <2>5, <2>7
<1> QED
  BY <1>7, <1>8, <1>9 DEF TakenInTurn

\* The order by last_check_at is a queue: nobody gets ahead of a watch that
\* waits, and a tick takes the due ones from its front.
THEOREM OldestAreFirst == Spec => OldestFirst
<1>1. ASSUME IInv, [Next]_vars
      PROVE  \A v, w \in LiveRows :
               Overtakes(v, w) => loop.pc = "record" /\ w = Head(loop.due)
  BY <1>1, NextKeeps, OneBeforeTheOther DEF Keeps, IInv, Overtakes
<1>2. ASSUME IInv, [Next]_vars, loop.pc = "asleep", loop'.pc = "search"
      PROVE  Scan
  <2>1. loop' # loop
    BY <1>2
  <2>2. ~Search /\ ~Record
    BY <1>2 DEF Search, Record
  <2>3. ~Crash
    BY <1>2 DEF Crash, Asleep
  <2>4. QED
    BY <1>2, <2>1, <2>2, <2>3
       DEF Next, vars, BecomeDue, RemoveWatch, Insert, SelectTwin
<1>3. ASSUME IInv, [Next]_vars, loop.pc = "asleep", loop'.pc = "search",
             NEW k \in DOMAIN loop'.due
      PROVE  TakenInTurn(loop'.due, k)
  BY <1>2, <1>3, ScanTakes
<1>4. ASSUME IInv, [Next]_vars
      PROVE  /\ \A v, w \in LiveRows :
                  Overtakes(v, w) => loop.pc = "record" /\ w = Head(loop.due)
             /\ loop.pc = "asleep" /\ loop'.pc = "search" =>
                  \A k \in DOMAIN loop'.due : TakenInTurn(loop'.due, k)
  BY <1>1, <1>3, <1>4
<1> QED
  BY <1>4, InitIInv, NextIInv, PTL DEF Spec, OldestFirst
=============================================================================
