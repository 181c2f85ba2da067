------------------------------- MODULE Watcher -------------------------------
(***************************************************************************)
(* Price watches: the background loop of watcher/loop.py and the endpoints *)
(* of api/routes/watches.py, over the tables price_watches and             *)
(* price_alerts (storage/models.py) in Postgres.                           *)
(*                                                                         *)
(* The loop scans for due watches, searches for each in turn and records   *)
(* what it found in one transaction; meanwhile owners create and remove    *)
(* watches.  A transaction is one step: whatever it read of the row is     *)
(* still so when it commits, or the row is gone, which db.get or the flush *)
(* notices.  Marking alerts read touches nothing else and is left out.     *)
(* Alerts are kept by the watch they refer to; that they are listed        *)
(* together, the newest first, is left out.                                *)
(*                                                                         *)
(* Of last_check_at two things matter: the order it puts the rows in, kept *)
(* in `order`, and whether interval_min have passed since, kept in a flag  *)
(* of the row.  Intervals differ, so rows become due in any order.         *)
(*                                                                         *)
(* An operator that is used nowhere, like RecordFirstBaseline, is the one  *)
(* that follows it with a mistake the code could well have made: put in    *)
(* its place, it shows which property would notice.                        *)
(***************************************************************************)
EXTENDS Integers, Sequences, FiniteSets, SequencesExt

CONSTANTS
  Owners, Queries,
  Poison,     \* queries whose results the database refuses: recording raises
  Prices,     \* prices of a best offer
  Threshold,  \* threshold_pct
  Parallel,   \* WATCHER_PARALLEL: watches processed per tick
  Creators,   \* concurrent create requests
  MaxRows,    \* bound of the model: watches ever created
  MaxAlerts   \* bound of the model: alerts at a time

ASSUME PoisonAssumption == Poison \subseteq Queries
ASSUME PricesAssumption == Prices \subseteq Nat \ {0}
ASSUME OwnersAssumption == Owners # {} /\ Queries # {} /\ IsFiniteSet(Creators)
ASSUME BoundsAssumption ==
  /\ Threshold \in Nat \ {0} /\ Parallel \in Nat \ {0}
  /\ MaxRows \in Nat /\ MaxAlerts \in Nat

VARIABLES
  rows,     \* price_watches
  order,    \* the live rows by last_check_at, nulls first
  alerts,   \* alerts[w]: what price_alerts has of watch w, by id
  loop,     \* run_forever
  create    \* create[c]: a POST /watches between its select and its insert

vars == <<rows, order, alerts, loop, create>>

Ids == 1 .. MaxRows

Row == [state: {"free", "live", "gone"}, owner: Owners, query: Queries,
        price: Prices \cup {0},  \* last_best_price, 0 for NULL
        fresh: BOOLEAN,          \* last_check_at is NULL
        due: BOOLEAN]

Alert == [owner: Owners, prev: Prices, new: Prices]

\* A search's outcome: the price of the best offer, or that there is none,
\* as nothing was found or the search raised: the row only keeps the text of it.
NoPrice == 0

Live(w) == rows[w].state = "live"
LiveRows == {w \in Ids : Live(w)}

TypeOK ==
  /\ rows \in [Ids -> Row]
  /\ order \in Seq(Ids)
  /\ ToSet(order) = LiveRows /\ Len(order) = Cardinality(LiveRows)
  /\ alerts \in [Ids -> Seq(Alert)]
  /\ loop \in [pc: {"asleep", "search", "record"}, due: Seq(Ids),
               outcome: Prices \cup {NoPrice}]
  /\ loop.pc = "asleep" <=> loop.due = <<>>
  /\ create \in [Creators -> [pc: {"idle", "insert"}, owner: Owners, query: Queries]]

Asleep == [pc |-> "asleep", due |-> <<>>, outcome |-> NoPrice]
NoCreate == [pc |-> "idle", owner |-> CHOOSE o \in Owners : TRUE,
             query |-> CHOOSE q \in Queries : TRUE]
FreeRow == [state |-> "free", owner |-> NoCreate.owner, query |-> NoCreate.query,
            price |-> 0, fresh |-> TRUE, due |-> TRUE]

Init ==
  /\ rows = [w \in Ids |-> FreeRow]
  /\ order = <<>>
  /\ alerts = [w \in Ids |-> <<>>]
  /\ loop = Asleep
  /\ create = [c \in Creators |-> NoCreate]

-----------------------------------------------------------------------------
(***************************************************************************)
(* The loop.                                                               *)
(***************************************************************************)

\* interval_min have passed since the last check of w.
BecomeDue(w) ==
  /\ Live(w) /\ ~rows[w].due
  /\ rows' = [rows EXCEPT ![w].due = TRUE]
  /\ UNCHANGED <<order, alerts, loop, create>>

\* The places in the order of the rows that are due.
DuePlaces == {i \in DOMAIN order : rows[order[i]].due}
InTick == Min({Parallel, Cardinality(DuePlaces)})

DueWatchesNewestFirst ==
  [k \in 1 .. InTick |->
     order[CHOOSE i \in DuePlaces : Cardinality({j \in DuePlaces : j >= i}) = k]]

\* _due_watches: the k-th of them in the order, as many as a tick has room for.
DueWatches ==
  [k \in 1 .. InTick |->
     order[CHOOSE i \in DuePlaces : Cardinality({j \in DuePlaces : j <= i}) = k]]

\* A tick of the loop that finds something to do.
Scan ==
  /\ loop.pc = "asleep"
  /\ DueWatches # <<>>
  /\ loop' = [Asleep EXCEPT !.pc = "search", !.due = DueWatches]
  /\ UNCHANGED <<rows, order, alerts, create>>

\* abs(diff_pct) >= threshold_pct
Moved(prev, new) ==
  100 * (IF new >= prev THEN new - prev ELSE prev - new) >= Threshold * prev

\* Every alert there is, by its watch and its place.
AllAlerts == UNION {{w} \X DOMAIN alerts[w] : w \in Ids}

\* The search of _process_one ends: it finds offers, or none, or raises.  Of
\* a watch that was removed since the scan it is made all the same.
Search ==
  /\ loop.pc = "search"
  /\ \E o \in Prices \cup {NoPrice} :
        /\ o \in Prices => Cardinality(AllAlerts) < MaxAlerts
        /\ loop' = [loop EXCEPT !.pc = "record", !.outcome = o]
  /\ UNCHANGED <<rows, order, alerts, create>>

\* The watch at hand is done with.
NextWatch ==
  loop' = IF Len(loop.due) = 1 THEN Asleep
          ELSE [Asleep EXCEPT !.pc = "search", !.due = Tail(loop.due)]

\* last_check_at = now: w is the row checked last.
Checked(w) == order' = Append(RemoveFirst(order, w), w)

NewAlert(w, new) == [owner |-> rows[w].owner, prev |-> rows[w].price, new |-> new]

RecordFirstBaseline(w, new) ==
  /\ rows' = [rows EXCEPT ![w].fresh = FALSE, ![w].due = FALSE,
                          ![w].price = IF @ = 0 THEN new ELSE @]
  /\ alerts' = IF rows[w].price # 0 /\ Moved(rows[w].price, new)
               THEN [alerts EXCEPT ![w] = Append(@, NewAlert(w, new))] ELSE alerts

\* A successful check: the baseline moves on, with an alert or without.
RecordPrice(w, new) ==
  /\ rows' = [rows EXCEPT ![w].fresh = FALSE, ![w].due = FALSE,
                          ![w].price = new]
  /\ alerts' = IF rows[w].price # 0 /\ Moved(rows[w].price, new)
               THEN [alerts EXCEPT ![w] = Append(@, NewAlert(w, new))] ELSE alerts

\* No offers, or the search raised: the baseline stays.  (last_error, a text
\* for the owner, is left out.)
RecordError(w) ==
  /\ rows' = [rows EXCEPT ![w].fresh = FALSE, ![w].due = FALSE]
  /\ UNCHANGED alerts

\* The transaction that ends _process_one.  A row that is gone is left alone.
\* Should the database refuse the results, _tick catches the exception and
\* goes on: the row stays as it is, last_check_at included.
Record ==
  /\ loop.pc = "record"
  /\ LET w == Head(loop.due) IN
       \/ /\ Live(w) /\ loop.outcome \in Prices /\ rows[w].query \notin Poison
          /\ RecordPrice(w, loop.outcome)
          /\ Checked(w)
       \/ /\ Live(w) /\ loop.outcome \notin Prices
          /\ RecordError(w)
          /\ Checked(w)
       \/ /\ ~Live(w) \/ (loop.outcome \in Prices /\ rows[w].query \in Poison)
          /\ UNCHANGED <<rows, order, alerts>>
  /\ NextWatch
  /\ UNCHANGED create

-----------------------------------------------------------------------------
(***************************************************************************)
(* The endpoints, and the process.                                         *)
(***************************************************************************)

SelectTwinChecked(c, o, q) ==
  /\ create[c].pc = "idle"
  /\ ~\E w \in Ids : Live(w) /\ rows[w].owner = o /\ rows[w].query = q /\ ~rows[w].fresh
  /\ create' = [create EXCEPT ![c] = [pc |-> "insert", owner |-> o, query |-> q]]
  /\ UNCHANGED <<rows, order, alerts, loop>>

\* The select of create_watch: a twin is returned, and nothing changes.
SelectTwin(c, o, q) ==
  /\ create[c].pc = "idle"
  /\ ~\E w \in Ids : Live(w) /\ rows[w].owner = o /\ rows[w].query = q
  /\ create' = [create EXCEPT ![c] = [pc |-> "insert", owner |-> o, query |-> q]]
  /\ UNCHANGED <<rows, order, alerts, loop>>

\* The insert, a transaction later.  A new row comes first in the order, or
\* among those that were never checked either: the query leaves the order of
\* those open, and here one is chosen once for all.
Insert(c) ==
  /\ create[c].pc = "insert"
  /\ \E w \in Ids :
        /\ rows[w].state = "free" /\ \A v \in Ids : v < w => rows[v].state # "free"
        /\ rows' = [rows EXCEPT ![w] = [FreeRow EXCEPT !.state = "live",
                                          !.owner = create[c].owner, !.query = create[c].query]]
        /\ \E i \in 1 .. Len(order) + 1 :
              /\ \A j \in 1 .. i - 1 : rows[order[j]].fresh
              /\ order' = InsertAt(order, i, w)
  /\ create' = [create EXCEPT ![c] = NoCreate]
  /\ UNCHANGED <<alerts, loop>>

RemoveWatchKeepsAlerts(w) ==
  /\ Live(w)
  /\ rows' = [rows EXCEPT ![w] = [FreeRow EXCEPT !.state = "gone"]]
  /\ order' = RemoveFirst(order, w)
  /\ UNCHANGED <<alerts, loop, create>>

\* remove_watch, by the owner; the foreign key takes the alerts along.
RemoveWatch(w) ==
  /\ Live(w)
  /\ rows' = [rows EXCEPT ![w] = [FreeRow EXCEPT !.state = "gone"]]
  /\ order' = RemoveFirst(order, w)
  /\ alerts' = [alerts EXCEPT ![w] = <<>>]
  /\ UNCHANGED <<loop, create>>

\* The process dies and is started again: what it had in hand is lost.
Crash ==
  /\ loop' = Asleep
  /\ create' = [c \in Creators |-> NoCreate]
  /\ UNCHANGED <<rows, order, alerts>>

Next ==
  \/ Scan
  \/ Search
  \/ Record
  \/ Crash
  \/ \E w \in Ids : BecomeDue(w) \/ RemoveWatch(w)
  \/ \E c \in Creators : Insert(c) \/ \E o \in Owners, q \in Queries : SelectTwin(c, o, q)

Spec == Init /\ [][Next]_vars

\* The loop sleeps for tick_sec only, a search ends, and the database
\* answers; some day the process stops crashing.  Nobody need create or
\* remove anything.
Fairness ==
  WF_vars(Scan) /\ WF_vars(Search) /\ WF_vars(Record) /\ <>[][~Crash]_vars

FairSpec == Spec /\ Fairness

-----------------------------------------------------------------------------
(***************************************************************************)
(* What the watches promise.                                               *)
(***************************************************************************)

\* No alert outlives its watch, nor is raised for one that was removed while
\* it was being searched for.
NoGhostAlerts ==
  \A w \in Ids : \A k \in DOMAIN alerts[w] :
    Live(w) /\ alerts[w][k].owner = rows[w].owner

\* "Dedup by (owner, normalized-ish query)": nothing but the select keeps an
\* owner from a second watch of the same query, so that only requests that
\* overlap make twins; over any sequence of creations, removals and restarts
\* there are never more of them than requests can overlap.
TwinsOverlapped ==
  \A o \in Owners, q \in Queries :
    Cardinality({w \in LiveRows : rows[w].owner = o /\ rows[w].query = q})
      + Cardinality({c \in Creators : create[c] = [pc |-> "insert", owner |-> o, query |-> q]})
      <= Cardinality(Creators)

\* A price that is at p can come to q by moves below the threshold, each from
\* where the one before it ended: q is in whatever contains p and is closed
\* under such moves.
DriftsTo(p, q) ==
  \A S \in SUBSET Prices :
    p \in S /\ (\A a \in S, b \in Prices : ~Moved(a, b) => b \in S) => q \in S

\* The alerts of a watch tell the whole history of its price, across failed
\* checks and restarts: each starts from where the one before it ended, the
\* last one ends at the baseline, moves below the threshold excepted, and
\* none is told twice.
AlertChain ==
  \A w \in LiveRows :
    LET told == alerts[w]
    IN  /\ \A k \in DOMAIN told :
             /\ Moved(told[k].prev, told[k].new)
             /\ k > 1 => DriftsTo(told[k - 1].new, told[k].prev)
        /\ told # <<>> => DriftsTo(told[Len(told)].new, rows[w].price)

\* In the order, v comes before w.
Before(s, v, w) == \E i, j \in DOMAIN s : i < j /\ s[i] = v /\ s[j] = w

\* v, which was behind w in the order, gets before it.
Overtakes(v, w) == Before(order, w, v) /\ Before(order', v, w)

\* The k-th of the watches that a tick takes is due, and just those due ones
\* that are before it in the order were taken before it.
TakenInTurn(due, k) ==
  /\ Live(due[k]) /\ rows[due[k]].due
  /\ \A v \in LiveRows :
       rows[v].due /\ Before(order, v, due[k]) <=> \E m \in 1 .. k - 1 : due[m] = v

\* "oldest first": a watch is only ever overtaken when it was just checked,
\* and a tick takes watches in turn.  A new one may come before all others.
OldestFirst ==
  [][/\ \A v, w \in LiveRows :
          Overtakes(v, w) => loop.pc = "record" /\ w = Head(loop.due)
     /\ loop.pc = "asleep" /\ loop'.pc = "search" =>
          \A k \in DOMAIN loop'.due : TakenInTurn(loop'.due, k)]_vars

Broken(w) == Live(w) /\ rows[w].query \in Poison

RoomForAll == Cardinality({w \in Ids : Broken(w)}) < Parallel

\* "one broken watch can't kill the loop": while there are fewer broken
\* watches than a tick has room for, every other watch that is due is
\* checked, or removed.
DueIsChecked ==
  \A w \in Ids :
    Live(w) /\ rows[w].due /\ ~Broken(w) ~> ~Live(w) \/ ~rows[w].due \/ ~RoomForAll

=============================================================================
