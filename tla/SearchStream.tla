---------------------------- MODULE SearchStream ----------------------------
(***************************************************************************)
(* One streaming search: SearchOrchestrator.stream and what it calls in    *)
(* orchestrator/search.py.                                                 *)
(*                                                                         *)
(* The request fans out to one _drive task per source, gathered by the     *)
(* _drain task.  The tasks put events into an unbounded queue, the         *)
(* generator takes them out and yields them to the SSE response until it   *)
(* meets the sentinel.  An action is the code between two awaits that      *)
(* really suspend: a put into the unbounded queue never does, so a cache   *)
(* hit, for instance, emits all its offers and its source_finished in one  *)
(* step.                                                                   *)
(*                                                                         *)
(* Prices are counted in regional adjustments: an offer leaves the adapter *)
(* with none, and each adjust_offer_for_region adds one (it multiplies and *)
(* rounds, so two are not one).  The ranking, the statistics and the texts *)
(* of the events are left out.                                             *)
(*                                                                         *)
(* An operator that is used nowhere, like StaleHitRecached, is the one     *)
(* that follows it with a mistake the code could well have made: put in    *)
(* its place, it shows which property would notice.                        *)
(***************************************************************************)
EXTENDS Integers, Sequences, FiniteSets

CONSTANTS
  Sources,    \* the registered sources
  WB,         \* the one whose stale copy is served on an error
  MaxOffers   \* bound of the model: offers in one answer of each adapter

ASSUME SourcesAssumption == WB \in Sources /\ IsFiniteSet(Sources)
ASSUME BoundsAssumption == MaxOffers \in [Sources -> Nat \ {0}]

VARIABLES
  req,     \* the request: regional (region_id # 213), alternates (synonyms
           \* were found), cache (Redis answered when the process first asked)
  cache,   \* cache[s]: the entry of the request's key for source s
  stale,   \* stale[s]: the longer-lived copy under "stale:" + that key
  drive,   \* drive[s]: the _drive task of source s and its scrape
  drainer, \* the _drain task
  queue,   \* the asyncio.Queue between the tasks and the generator
  client,  \* where the generator stands, which the SSE response iterates
  sent,    \* sent[s]: the events of source s yielded so far
  closing  \* the closing events yielded: top_deals, then done

vars == <<req, cache, stale, drive, drainer, queue, client, sent, closing>>
redisVars == <<cache, stale>>
outVars == <<client, sent, closing>>

Offer == [n: Nat \ {0}, adj: 0 .. 1, scored: BOOLEAN]
Offers == Seq(Offer)
Result == [offers: Offers, error: BOOLEAN, cached: BOOLEAN]
NoResult == [offers |-> <<>>, error |-> FALSE, cached |-> FALSE]
Failed == [offers |-> <<>>, error |-> TRUE, cached |-> FALSE]

Entry == [kind: {"none", "offers", "old"}, offers: Offers]
NoEntry == [kind |-> "none", offers |-> <<>>]
OldEntry == [kind |-> "old", offers |-> <<>>]
Payload(offers) == [kind |-> "offers", offers |-> offers]

Active == {"start", "lookup", "limit", "search", "retry", "serve", "set", "setstale"}
Drive == [pc: Active \cup {"finished", "raised", "cancelled"},
          emitted: Nat,     \* offers of the running search so far
          retried: BOOLEAN,         \* a synonym retry was made
          deaf: BOOLEAN,            \* a cancellation was swallowed
          result: Result]

\* `done` apart, which is never queued, and the two events that precede the
\* fan-out, query_normalized and query_clarified.
Event ==
  [kind: {"top_deals", "sentinel"}]
    \cup [kind: {"source_started"}, source: Sources]
    \cup [kind: {"offer"}, source: Sources, offer: Offer]
    \cup [kind: {"source_finished"}, source: Sources, count: Nat,
          error: BOOLEAN, cached: BOOLEAN]

TypeOK ==
  /\ req \in [regional: BOOLEAN, alternates: BOOLEAN, cache: BOOLEAN]
  /\ cache \in [Sources -> Entry]
  /\ stale \in [Sources -> Entry]
  /\ drive \in [Sources -> Drive]
  /\ drainer \in {"absent", "gather", "done", "failed", "cancelled"}
  /\ queue \in Seq(Event)
  /\ client \in {"normalize", "clarify", "relay", "closing", "done", "gone"}
  /\ sent \in [Sources -> Seq(Event)]
  /\ closing \in Seq({"top_deals", "done"})

-----------------------------------------------------------------------------
(***************************************************************************)
(* Offers and the events that carry them.                                  *)
(***************************************************************************)

Scraped(n) == [n |-> n, adj |-> 0, scored |-> FALSE]

\* adjust_offer_for_region: identity for the default region.
Adjust(o) == IF req.regional THEN [o EXCEPT !.adj = @ + 1] ELSE o

\* _attach_relevance
Score(o) == [o EXCEPT !.scored = TRUE]

Map(f(_), seq) == [i \in DOMAIN seq |-> f(seq[i])]

ScrapedUpTo(n) == [i \in 1 .. n |-> Scraped(i)]

\* What _fetch_source makes of the n offers an adapter returned.
Finalise(n) == Map(Score, Map(Adjust, ScrapedUpTo(n)))

OnOfferUnpriced(o) == Score(o)

\* The callback given to the adapter's first search, and the one given to
\* the synonym retry.
OnOffer(o) == Score(Adjust(o))
OnOfferOfRetry(o) == Score(o)

OfferEvent(s, o) == [kind |-> "offer", source |-> s, offer |-> o]
OfferEvents(s, offers) == [i \in DOMAIN offers |-> OfferEvent(s, offers[i])]

FinishedEvent(s, res) ==
  [kind |-> "source_finished", source |-> s, count |-> Len(res.offers),
   error |-> res.error, cached |-> res.cached]

\* What this request may find in Redis: no entry, n offers as an earlier
\* _fetch_source finalised them, or an entry that an earlier release of the
\* program wrote and ProductOffer no longer validates.
Legacy(s) ==
  {NoEntry, OldEntry} \cup {Payload(Finalise(n)) : n \in 1 .. MaxOffers[s]}

Init ==
  /\ req \in [regional: BOOLEAN, alternates: BOOLEAN, cache: BOOLEAN]
  /\ cache \in [Sources -> UNION {Legacy(s) : s \in Sources}]
  /\ stale \in [Sources -> UNION {Legacy(s) : s \in Sources}]
  /\ \A s \in Sources : cache[s] \in Legacy(s) /\ stale[s] \in Legacy(s)
  /\ req.cache \/ cache = [s \in Sources |-> NoEntry]
  \* Only WB's stale copy is ever read.
  /\ \A s \in Sources : s # WB \/ ~req.cache => stale[s] = NoEntry
  /\ drive = [s \in Sources |-> [pc |-> "start", emitted |-> 0,
                                 retried |-> FALSE, deaf |-> FALSE,
                                 result |-> NoResult]]
  /\ drainer = "absent"
  /\ queue = <<>>
  /\ client = "normalize"
  /\ sent = [s \in Sources |-> <<>>]
  /\ closing = <<>>

-----------------------------------------------------------------------------
(***************************************************************************)
(* The scrape of one source: _drive, _safe_call and _fetch_source.         *)
(***************************************************************************)

\* The task of source s, at pc, gets to run: _drain still gathers, or has
\* failed and left its children to themselves, or has been cancelled and the
\* task ignored it.
Runs(s, pc) ==
  drive[s].pc = pc /\ (drainer \in {"gather", "failed"} \/ drive[s].deaf)

\* WB's browser catches BaseException around its navigation (dom_search in
\* antibot/wb_browser.py): a cancellation that arrives there becomes an error
\* of the search, and the task goes on.
Swallows(s, pc) ==
  s = WB /\ drainer = "cancelled" /\ drive[s].pc = pc /\ drive[s].emitted = 0

Goto(s, pc) == drive' = [drive EXCEPT ![s].pc = pc]

Put(events) == queue' = queue \o events

FinishFirst(s, res, events) ==
  /\ drive' = [drive EXCEPT ![s].pc = "finished", ![s].result = res]
  /\ Put(<<FinishedEvent(s, res)>> \o events)

\* _safe_call returns res to _drive, having put events just before.
Finish(s, res, events) ==
  /\ drive' = [drive EXCEPT ![s].pc = "finished", ![s].result = res]
  /\ Put(events \o <<FinishedEvent(s, res)>>)

\* An exception leaves _drive: gather hands it to _drain, which ends with
\* it, and the other tasks run on, unless they were cancelled before.
Raise(s) ==
  /\ Goto(s, "raised")
  /\ drainer' = IF drainer = "gather" THEN "failed" ELSE drainer
  /\ UNCHANGED queue

Start(s) ==
  /\ Runs(s, "start")
  /\ Put(<<[kind |-> "source_started", source |-> s]>>)
  /\ Goto(s, IF req.cache THEN "lookup" ELSE "limit")
  /\ UNCHANGED <<req, redisVars, drainer, outVars>>

LookupHitAdjusted(s) ==
  /\ Runs(s, "lookup")
  /\ cache[s].kind = "offers"
  /\ Finish(s, [offers |-> Map(Adjust, cache[s].offers), error |-> FALSE, cached |-> TRUE],
            OfferEvents(s, Map(Adjust, cache[s].offers)))
  /\ UNCHANGED <<req, redisVars, drainer, outVars>>

\* The entry is validated, emitted and returned.
LookupHit(s) ==
  /\ Runs(s, "lookup")
  /\ cache[s].kind = "offers"
  /\ Finish(s, [offers |-> Map(Score, cache[s].offers), error |-> FALSE, cached |-> TRUE],
            OfferEvents(s, Map(Score, cache[s].offers)))
  /\ UNCHANGED <<req, redisVars, drainer, outVars>>

\* Nothing there, or Redis raises, which is caught.
LookupMiss(s) ==
  /\ Runs(s, "lookup")
  /\ Goto(s, "limit")
  /\ UNCHANGED <<req, redisVars, drainer, queue, outVars>>

\* model_validate raises, which nothing in _safe_call catches.
LookupOld(s) ==
  /\ Runs(s, "lookup")
  /\ cache[s].kind = "old"
  /\ Raise(s)
  /\ UNCHANGED <<req, redisVars, outVars>>

\* The rate limiter returns.
Granted(s) ==
  /\ Runs(s, "limit")
  /\ Goto(s, "search")
  /\ UNCHANGED <<req, redisVars, drainer, queue, outVars>>

\* The running search of the adapter reports an offer.
AdapterEmits(s) ==
  /\ \E pc \in {"search", "retry"} :
        /\ Runs(s, pc)
        /\ drive[s].emitted < MaxOffers[s]
        /\ LET o == Scraped(drive[s].emitted + 1)
           IN  Put(<<OfferEvent(s, IF pc = "search" THEN OnOffer(o)
                                   ELSE OnOfferOfRetry(o))>>)
  /\ drive' = [drive EXCEPT ![s].emitted = @ + 1]
  /\ UNCHANGED <<req, redisVars, drainer, outVars>>

\* What _safe_call does with the result of the fetch: look for WB's stale
\* copy, write the cache, or return.
Settle(s, res) ==
  \/ /\ req.cache
     /\ \/ res.error /\ s = WB
        \/ ~res.error /\ res.offers # <<>>
     /\ drive' = [drive EXCEPT ![s].pc = IF res.error THEN "serve" ELSE "set",
                               ![s].deaf = drainer = "cancelled",
                               ![s].result = res]
     /\ UNCHANGED queue
  \/ /\ \/ ~req.cache
        \/ res.error /\ s # WB
        \/ ~res.error /\ res.offers = <<>>
     /\ Finish(s, res, <<>>)

\* The search returns what it reported.  An empty answer is searched again,
\* once, under the first synonym.
AdapterReturns(s) ==
  /\ Runs(s, "search")
  /\ IF drive[s].emitted = 0 /\ req.alternates
     THEN /\ drive' = [drive EXCEPT ![s].pc = "retry", ![s].retried = TRUE]
          /\ UNCHANGED queue
     ELSE Settle(s, [NoResult EXCEPT !.offers = Finalise(drive[s].emitted)])
  /\ UNCHANGED <<req, redisVars, drainer, outVars>>

AdapterFailsUncaught(s) ==
  /\ Runs(s, "search")
  /\ Raise(s)
  /\ UNCHANGED <<req, redisVars, outVars>>

\* The search returns an error, or raises, be it after some offers; but
\* Wildberries' has reported none by then (EachOnItsOwn of WBSource).
AdapterFails(s) ==
  /\ Runs(s, "search") \/ Swallows(s, "search")
  /\ s = WB => drive[s].emitted = 0
  /\ Settle(s, Failed)
  /\ UNCHANGED <<req, redisVars, drainer, outVars>>

RetryReturns(s) ==
  /\ Runs(s, "retry")
  /\ Settle(s, [NoResult EXCEPT !.offers = Finalise(drive[s].emitted)])
  /\ UNCHANGED <<req, redisVars, drainer, outVars>>

\* The retry returns an error or raises: the first, empty, answer stands.
RetryFails(s) ==
  /\ Runs(s, "retry") \/ Swallows(s, "retry")
  /\ Settle(s, NoResult)
  /\ UNCHANGED <<req, redisVars, drainer, outVars>>

StaleHitRecached(s) ==
  /\ Runs(s, "serve")
  /\ stale[s].kind = "offers"
  /\ drive' = [drive EXCEPT ![s].pc = "set", ![s].result =
                  [offers |-> stale[s].offers, error |-> FALSE, cached |-> TRUE]]
  /\ Put(OfferEvents(s, stale[s].offers))
  /\ UNCHANGED <<req, redisVars, drainer, outVars>>

\* _get_stale_result finds the copy, emits its offers and returns them.
StaleHit(s) ==
  /\ Runs(s, "serve")
  /\ stale[s].kind = "offers"
  /\ Finish(s, [offers |-> stale[s].offers, error |-> FALSE, cached |-> TRUE],
            OfferEvents(s, stale[s].offers))
  /\ UNCHANGED <<req, redisVars, drainer, outVars>>

\* No copy, or Redis raises: the error stands.
StaleMiss(s) ==
  /\ Runs(s, "serve")
  /\ Finish(s, drive[s].result, <<>>)
  /\ UNCHANGED <<req, redisVars, drainer, outVars>>

StaleOld(s) ==
  /\ Runs(s, "serve")
  /\ stale[s].kind = "old"
  /\ Raise(s)
  /\ UNCHANGED <<req, redisVars, outVars>>

\* What a write does in Redis.
WriteCache(s) == cache' = [cache EXCEPT ![s] = Payload(drive[s].result.offers)]
WriteStale(s) == stale' = [stale EXCEPT ![s] = Payload(drive[s].result.offers)]

SetCache(s) ==
  /\ Runs(s, "set")
  /\ WriteCache(s)
  /\ Goto(s, "setstale")
  /\ UNCHANGED <<req, stale, drainer, queue, outVars>>

SetStale(s) ==
  /\ Runs(s, "setstale")
  /\ WriteStale(s)
  /\ Finish(s, drive[s].result, <<>>)
  /\ UNCHANGED <<req, cache, drainer, outVars>>

\* Either write raises, whether or not Redis made it: the other is skipped
\* and the result is returned all the same.
SetFails(s) ==
  /\ \/ /\ Runs(s, "set")
        /\ UNCHANGED cache \/ WriteCache(s)
        /\ UNCHANGED stale
     \/ /\ Runs(s, "setstale")
        /\ UNCHANGED redisVars
  /\ Finish(s, drive[s].result, <<>>)
  /\ UNCHANGED <<req, drainer, outVars>>

\* A cancelled task runs once more, to be told.  The scrape it awaits is
\* cancelled with it; a write that is under way Redis may have made.
Cancelled(s) ==
  /\ drainer = "cancelled" /\ ~drive[s].deaf
  /\ drive[s].pc \in Active
  /\ \/ UNCHANGED redisVars
     \/ drive[s].pc = "set" /\ WriteCache(s) /\ UNCHANGED stale
     \/ drive[s].pc = "setstale" /\ WriteStale(s) /\ UNCHANGED cache
  /\ Goto(s, "cancelled")
  /\ UNCHANGED <<req, drainer, queue, outVars>>

DriveStep(s) ==
  \/ Start(s)
  \/ LookupHit(s)
  \/ LookupMiss(s)
  \/ LookupOld(s)
  \/ Granted(s)
  \/ AdapterEmits(s)
  \/ AdapterReturns(s)
  \/ AdapterFails(s)
  \/ RetryReturns(s)
  \/ RetryFails(s)
  \/ StaleHit(s)
  \/ StaleMiss(s)
  \/ StaleOld(s)
  \/ SetCache(s)
  \/ SetStale(s)
  \/ SetFails(s)
  \/ Cancelled(s)

-----------------------------------------------------------------------------
(***************************************************************************)
(* The tasks around it.                                                    *)
(***************************************************************************)

Kind(k) == [kind |-> k]

\* The gather in _drain returns: rank, and put the sentinel.
Drain ==
  /\ drainer = "gather"
  /\ \A s \in Sources : drive[s].pc = "finished"
  /\ Put(<<Kind("top_deals"), Kind("sentinel")>>)
  /\ drainer' = "done"
  /\ UNCHANGED <<req, redisVars, drive, outVars>>

\* normalize_query returns, whatever failed inside it.
Normalize ==
  /\ client = "normalize"
  /\ client' = "clarify"
  /\ UNCHANGED <<req, redisVars, drive, drainer, queue, sent, closing>>

\* The clarification task ends, and an exception of it is not relayed.  The
\* fan-out starts.
Clarify ==
  /\ client = "clarify"
  /\ client' = "relay"
  /\ drainer' = "gather"
  /\ UNCHANGED <<req, redisVars, drive, queue, sent, closing>>

\* The generator takes an item: yield it or, at the sentinel, leave the
\* loop and yield `done`.  _drain put the sentinel last and is no longer
\* running, so the finally clause finds nothing to cancel.
Relay ==
  /\ client = "relay"
  /\ queue # <<>>
  /\ queue' = Tail(queue)
  /\ LET event == Head(queue)
     IN  CASE event.kind = "sentinel" ->
                /\ closing' = Append(closing, "done")
                /\ client' = "done"
                /\ UNCHANGED sent
           [] event.kind = "top_deals" ->
                /\ closing' = Append(closing, "top_deals")
                /\ UNCHANGED <<client, sent>>
           [] OTHER ->
                /\ sent' = [sent EXCEPT ![event.source] = Append(@, event)]
                /\ UNCHANGED <<client, closing>>
  /\ UNCHANGED <<req, redisVars, drive, drainer>>

DisconnectUncancelled ==
  /\ client \in {"normalize", "clarify", "relay"}
  /\ client' = "gone"
  /\ UNCHANGED <<req, redisVars, drive, drainer, queue, sent, closing>>

\* The browser closes the connection and the generator is closed where it
\* stands.  Its finally clause cancels _drain, which reaches the children
\* of the gather only if that still runs.
Disconnect ==
  /\ client \in {"normalize", "clarify", "relay"}
  /\ client' = IF client = "relay" THEN "closing" ELSE "gone"
  /\ drainer' = IF drainer = "gather" THEN "cancelled" ELSE drainer
  /\ UNCHANGED <<req, redisVars, drive, queue, sent, closing>>

\* A cancelled gather, without return_exceptions, ends with the first of its
\* children that ends cancelled or with an exception, or else with the last.
GatherEnds ==
  \/ \E s \in Sources : drive[s].pc \in {"cancelled", "raised"}
  \/ \A s \in Sources : drive[s].pc \notin Active

\* `await drainer` in the finally clause.  Of the other children some may not
\* have been told yet, and one that swallowed its cancellation runs on.
Close ==
  /\ client = "closing"
  /\ drainer = "cancelled" => GatherEnds
  /\ client' = "gone"
  /\ UNCHANGED <<req, redisVars, drive, drainer, queue, sent, closing>>

Next ==
  \/ Normalize
  \/ Clarify
  \/ Relay
  \/ Disconnect
  \/ Close
  \/ Drain
  \/ \E s \in Sources : DriveStep(s)

Spec == Init /\ [][Next]_vars

\* The event loop runs every task that can run, adapters and Redis answer or
\* raise, and the client reads what it is sent or disconnects, which it need
\* not do.
Fairness ==
  /\ WF_vars(Normalize)
  /\ WF_vars(Clarify)
  /\ WF_vars(Relay)
  /\ WF_vars(Close)
  /\ WF_vars(Drain)
  /\ \A s \in Sources : WF_vars(DriveStep(s))

FairSpec == Spec /\ Fairness

-----------------------------------------------------------------------------
(***************************************************************************)
(* What a search promises.                                                 *)
(***************************************************************************)

Ended == client \in {"done", "gone"}

IsKind(s, i, kind) == sent[s][i].kind = kind

\* The offers streamed for source s.
Streamed(s) == {sent[s][i].offer : i \in {j \in DOMAIN sent[s] : IsKind(s, j, "offer")}}

FinishedAt(s, i) == i \in DOMAIN sent[s] /\ IsKind(s, i, "source_finished")

Listed(s) == LET offers == drive[s].result.offers IN {offers[k] : k \in DOMAIN offers}

\* The client is told of a source, of its offers, and that it is finished, in
\* this order however the sources interleave; the ranking comes when every
\* source is finished, and `done` after it, as the last event.
WellFormed ==
  /\ \A s \in Sources : \A i \in DOMAIN sent[s] :
        /\ IsKind(s, i, "source_started") <=> i = 1
        /\ IsKind(s, i, "source_finished") => i = Len(sent[s])
  /\ closing # <<>> => \A s \in Sources : FinishedAt(s, Len(sent[s]))
  /\ closing \in {<<>>, <<"top_deals">>, <<"top_deals", "done">>}
  /\ client = "done" <=> Len(closing) = 2

\* When a source reports that it is finished, without an error, the offers
\* streamed for it are those of its group, price and relevance included, and
\* the count says so: be they scraped, cached or stale.  A synonym retry is
\* the exception, see Converge.
StreamAgrees ==
  \A s \in Sources : \A i \in DOMAIN sent[s] :
    FinishedAt(s, i) /\ ~sent[s][i].error /\ ~drive[s].retried =>
      /\ Streamed(s) = Listed(s)
      /\ sent[s][i].count = Cardinality(Streamed(s))

\* Comment at the regional pricing of _fetch_source: the SSE stream and the
\* final list converge on the same numbers.  No offer is streamed at one
\* price and listed, ranked and cached at another.
Converge ==
  \A s \in Sources : \A i \in DOMAIN sent[s] :
    FinishedAt(s, i) =>
      \A o \in Streamed(s), l \in Listed(s) : o.n = l.n => o.adj = l.adj

\* The regional adjustment is not idempotent, and the cached payload is
\* replayed by later requests of the same region: every offer in a group, in
\* the cache or in the stale copy has been adjusted exactly once, and scored.
AdjustedOnce ==
  LET Right(offers) == \A k \in DOMAIN offers :
        offers[k].scored /\ offers[k].adj = IF req.regional THEN 1 ELSE 0
  IN  \A s \in Sources :
        Right(cache[s].offers) /\ Right(stale[s].offers) /\ Right(drive[s].result.offers)

\* Only what a source has just answered enters the cache: a stale copy, an
\* error or an empty answer never starts a new time to live.
CacheKeepsAnswers ==
  [][\A s \in Sources :
       cache'[s] # cache[s] \/ stale'[s] # stale[s] =>
         LET res == drive[s].result
         IN  res.offers # <<>> /\ ~res.error /\ ~res.cached]_vars

\* The drive of source s steps from one place to another.
Steps(s, from, to) == drive[s].pc \in from /\ drive'[s].pc \in to

\* It is told to end, or has swallowed that and looks for a stale copy.
Leaves(s) ==
  \/ Steps(s, Active, {"cancelled"})
  \/ s = WB /\ Steps(s, {"search", "retry"}, {"serve", "finished"})
  \/ s = WB /\ Steps(s, {"serve"}, {"finished", "raised"})

\* Once the stream is over, by itself or by a disconnect wherever its scrapes
\* stand, nothing of it goes on: those that are left are told to end, and the
\* one that swallowed it, WB's, looks for a stale copy at most.  None of them
\* starts a search or a write to Redis any more, nor reports an offer it found.
\* Only an exception that ended the gather before leaves the others uncancelled.
NothingAfterEnd ==
  [][Ended /\ drainer # "failed" =>
       \A s \in Sources : drive'[s] # drive[s] => Leaves(s)]_vars

\* Every stream ends, whatever adapters and Redis do, if Redis holds no
\* entries of an earlier release.
StreamCompletes ==
  (\A s \in Sources : cache[s].kind # "old" /\ stale[s].kind # "old") => <>Ended

\* "per-adapter exception isolation", "cache failures never break a search":
\* the same, without that condition.
EveryStreamCompletes == <>Ended

=============================================================================
