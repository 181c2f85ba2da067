# PricePulse: TLA+ models and proofs

PricePulse searches Russian marketplaces for a product and compares the prices.
A FastAPI backend (`src/backend/src/pricepulse`) fans a query out to adapters
that scrape through HTTP or through a real Chrome, streams what they find over
SSE, caches it in Redis, and re-checks prices that a user watches; a Next.js
frontend (`src/frontend`) renders the stream.  Everything in the backend is
cooperative concurrency: tasks on one event loop, interleaving at each `await`,
cancelled when a client goes away; several worker processes share one Redis.

This directory holds TLA+ modules translated from that code, TLC configurations
that check them on small instances, and proofs checked by TLAPS.

```
tlc -workers 2 -config MCBrowserPool.cfg MCBrowserPool     # a run
tlapm BrowserPool_proofs.tla                               # a proof
```

`PROJECT.json` lists components, runs, hazards, findings and theorems, and gives
for every definition the lines it was translated from.

## 1. Inventory

Paths are relative to `src/backend/src/pricepulse` unless they say otherwise.

| Component | State it keeps | Operations | Talks to | What is hard |
|---|---|---|---|---|
| Rate limiter, `antibot/ratelimit.py` | a bucket per source in Redis; per process `_redis`, `_local` | `acquire` | Redis (Lua), every adapter call waits for it | scripts of several workers reordered, `eval` that raises after it ran, key expiry, give-up |
| Search orchestrator, `orchestrator/search.py` | per request: event queue, `_drain`, one `_drive` per source, `_inflight` | `stream`, `run`, `_safe_call`, `_fetch_source` | limiter, cascade, adapters, Redis cache, SSE response | order of events, exceptions in a `gather`, disconnects, three places that adjust prices |
| Redis cache, `cache/redis_cache.py` | `offers:*` and `stale:*` keys | `get`, `set`, `get_stale`, `set_stale` | orchestrator | entries of earlier releases, writes that fail in part |
| Regional pricing, `analytics/regional_pricing.py` | none | `adjust_offer_for_region` | orchestrator | not idempotent |
| Browser pool, `antibot/browser_pool.py` | `_browser`, `_lock`, `_sem` | `acquire`, `_ensure_browser`, `_reset_browser`, `aclose` | Chrome over CDP | death and cancellation at each of nine awaits |
| Cookie warmer and fetch, `antibot/browser_fetch.py` | cookies in memory and in a file, `_lock` | `get_cookies`, `invalidate`, `_warm`, `fetch_ozon_via_browser` | browser pool, Ozon adapter | exports from a browser that another task replaced, refusals by several searches, restarts |
| Ozon adapter, `scrapers/ozon.py` | none of its own | `search` | cookie warmer, browser pool, Ozon over HTTP | two attempts and a fallback, two rounds of enrichment |
| One-tab browsers, `antibot/{wb,yandex,google}_browser.py` | `_browser`, `_tab`, `_init_lock`, `_lock` | `dom_search`, `resolve_card_url`, `_ensure_started`, `_reset`, `aclose` | Chrome over CDP | two locks, recovery inside one of them, launch in two awaits |
| Price watcher, `watcher/loop.py`, `api/routes/watches.py` | tables `price_watches`, `price_alerts` | `_tick`, `_process_one`, create, remove, list, mark read | orchestrator `run`, database | removal during a search, failures at commit, restarts |
| Lifespan, `main.py` | the singletons | pre-warm, start and stop of the loop, close | all of the above | order of shutdown |
| Cascade router, `antibot/cascade.py` | escalation level per source | `current`, `record` | orchestrator | lives for one request only |
| WB adapter, `scrapers/wb*.py` | per search: a stub, a task and a result for each product | `search`, `fetch_card`, `fetch_wb_feedbacks` | WB's tab, the CDN, reviews | one task per product behind a semaphore, the shard of a card is guessed |
| Runet adapter, `scrapers/runet.py` | per search: two sub-searches, a task per shop page | `search` | Google's and Yandex's tabs, shops | two engines at once, a merge, exceptions in a `gather` |
| Yandex Market adapter, `scrapers/yandex_market.py` | none | `search` | HTTP | a product that raises after others were reported (it is not registered, `search.py:76-88`) |
| Redis client, `api/cache.py` | `_cache`, `_cache_failed`, `_cache_lock` | `get_search_cache` | every search route | the first requests race for it, a ping that fails or is cancelled |
| Query normalisation, `enrichment/normalize.py` | a cache of normalised queries | `normalize_query` | spellcheck service | degraded results cached |
| Clarification, `enrichment/query_clarification.py` | none | `check_and_clarify_query` | LLM | a heuristic and a model that disagree |
| NMCK, `analytics/nmck.py` | none | `compute`, `_select_kp` | orchestrator | which offers are chosen when few sellers have a price |
| Ranking, statistics, `analytics/*.py` | none | pure functions | orchestrator, routes | floating point, models |
| Price history, `analytics/price_history.py` | Redis sorted sets | record, read | Redis | none beyond one pipeline |
| Image cache, `storage/s3.py` | `_known`, objects in S3 | get or fetch | S3, sources | `_known` outlives the objects |
| Chat agent, `agent/*.py` | sessions in Redis | one turn: load, rounds of tool calls, save | LLM, orchestrator | two turns of one session |
| Accounts, favourites, `auth`, `api/routes/favorites.py` | tables | CRUD | database | check, then insert |
| LLM and vision routes, spellcheck service, queue stub, configuration | none | one call each | LLM | data only |
| Frontend, `src/frontend/src` | React state of the search page, the bell, the chat | effects and event handlers | SSE, REST | effects that race with URL changes |

What makes each of them correct:

* limiter: the workers together stay within the budget of a source; a caller is
  never stalled beyond `max_wait_s`, and never let through early without a token;
* search: events of a source in order, the ranking after all sources, one
  `done`; what is streamed is what is listed and cached; prices adjusted once;
  only fresh answers enter the cache; when the stream is over, what is left of its
  scrapes ends and starts nothing; the stream ends;
* browsers: one Chrome per profile, none stopped that works, permits and locks
  come back whatever fails or is cancelled, no deadlock between the locks, a
  tab is used by one call at a time;
* Ozon: no search with cookies past their time to live, a second attempt with
  newer ones, a lock that is passed on, each offer reported and listed once;
* the other adapters: one product's card costs no other product anything, a card
  within reach is found, merging repeats and loses nothing, and each keeps the
  protocol that the orchestrator is written against;
* watches: no alert for a watch that is gone, alerts that tell a consistent
  history across failures and restarts, no watch starved by a broken one, no
  twins but from requests that overlap;
* services: one Redis client per process, an outage of the spellcheck service
  that passes, a redirect that leads to an image, a chat history of whole turns,
  an obvious double query that is clarified, and commercial offers that can be
  defended.

## 2. Modules

| Module | Models | Checked by | Proofs |
|---|---|---|---|
| `RateLimiter` | the limiter, several processes and Redis | `MCServices` | `RateLimiter_proofs` |
| `SearchStream` | one streaming search with its cache | `MCSearchStream` (3 cfgs) | `SearchStream_proofs` |
| `BrowserPool` | the pool, its fetch, the cookie warmer | `MCBrowserPool` (2 cfgs) | `BrowserPool_proofs` |
| `TabBrowser` | the three one-tab browsers | `MCTabBrowser` (2 cfgs) | `TabBrowser_proofs` |
| `SharedBrowser` | what an adapter relies on in either kind of browser (abstract) | through `BrowserPool` and `TabBrowser` | the refinements, in `BrowserPool_proofs` and `TabBrowser_proofs` |
| `OzonSource` | Ozon's adapter and the cookies it lives on | `MCAdapters` | `OzonSource_proofs` |
| `Listing` | the loop at the end of an adapter: list an offer and report it | through `Sources` | `Sources_proofs` |
| `WBSource`, `RunetSource`, `MarketSource` | the adapters of Wildberries, of Google with Yandex, and of Yandex Market | through `Sources` | `Sources_proofs` |
| `Sources` | the three side by side, and their refinement of `Adapter` | `MCAdapters` | `Sources_proofs` |
| `Adapter` | what the orchestrator relies on in any adapter (abstract) | through `OzonSource` and `Sources` | the refinements, in `OzonSource_proofs` and `Sources_proofs` |
| `Watcher` | the watch loop and endpoints | `MCWatcher` | `Watcher_proofs` |
| `ChatSession`, `ImageCache`, `QueryIntake`, `Clarification`, `Nmck` | the chat agent, the image proxy, the Redis client with the cached query, the clarification, the choice of commercial offers | through `Services` (`ImageCache` and `Clarification` also by a cfg of their own) | their safety properties, in `Services_proofs` |
| `Services` | the five side by side | `MCServices` (3 cfgs) | `Services_proofs` |

How they fit together: `SearchStream` waits for the `RateLimiter` and then calls
an adapter, of which it assumes what `Adapter` says; `OzonSource` and the three
adapters of `Sources` implement `Adapter`.  Ozon's warm-ups and browser fetches
are the tasks of `BrowserPool`, whose `AcquireEnds` is why a warm-up ends; the
searches of the other adapters are the calls of `TabBrowser`, whose `CallReturns`
is why their browsers answer.  To its callers either kind is a `SharedBrowser`.
`QueryIntake` and `Clarification` are what a
stream awaits before it starts and while it runs; `Watcher`'s searches, the tools
of `ChatSession` and the offers of `Nmck` come from the same orchestrator.

In all of them an action is the code between two awaits that can really suspend
(or one transaction, for the database), so the interleavings are those of the
event loop.  Some modules contain an operator that nothing uses, such as
`LeaveKeepsPermit` before `Leave`: it is the operator that follows it, with a
mistake the code could have; replacing one by the other shows which property
notices.  `MCAdapters` and `MCServices` put modules that share no state side by
side, so `RateLimiter` and `Sources` name their `Init`, `Next` and `Spec` after
themselves.

### RateLimiter

`Acquire`, `Wake` and `Attempt` are the loop of `acquire`; `RunScript` is the Lua
script, `ConsumeLocal` is `_consume_local`.  Reading the clock (`stamp`) and the
execution of the script are separate steps, so scripts arrive in another order
than their clock readings.  `EvalFails` is the `except` around `eval`: it forgets
Redis for good and serves this very round locally; `EvalReplyLost` is the case in
which the script ran first.  `SharedNow` is the key's time to live.  Token amounts
are multiplied by the number of ticks in a minute, which makes every quantity of
the code an exact integer.  The wall clock and the monotonic clock are one `now`.
`gaveUp`, `since`, `late` and `lsince` observe only.

### SearchStream

`drive[s]` is the `_drive` task of a source together with the `_safe_call` and
`_fetch_source` it awaits; `drainer` is `_drain`, `queue` the `asyncio.Queue`,
`client` the generator that the SSE route iterates.  `Start` to `SetFails` follow
`_safe_call` line by line: lookup, limiter, search, synonym retry, stale copy,
the two cache writes; `Raise` is an exception that leaves `_drive`.  `Disconnect`
closes the generator; its `finally` cancels `_drain`, and with it the children if
the gather still runs.  `Cancelled` is a child that is told and ends, which leaves a
write that was under way made or not.  `Swallows` is the `except BaseException` of
the WB browser, which turns the cancellation into an error of the search; the drive
is then `deaf` and goes on to the stale copy.  The cancelled `gather` has no
`return_exceptions`, so it ends with the first child that ends cancelled or with an
exception (`GatherEnds`), and `Close`, the `await drainer` of the `finally`, waits for
no other: some may not have been told yet, and a deaf drive may still be waiting for
Redis when the generator is closed (the comment at `search.py:215-216`, "so we don't
leak the task", is about the drainer alone).  `NothingAfterEnd` says what may still
happen then.
Prices are counted in regional adjustments, because multiplying and rounding
twice is not the same as once.  Adapters emit exactly the offers that they
return, or fail, which is what `Adapter` says and what `OzonSource_proofs` and
`Sources_proofs` prove of all four.  `AdapterFails` also needs that a search of
Wildberries that fails has reported nothing, for its offers would be streamed
again from the stale copy: this is the first conjunct of `EachOnItsOwn` of
`WBSource`.  Within one stream no two drives share a
key, so the branch that joins a scrape in flight (lines 263-281) is unreachable
and left out.

### BrowserPool

`call[t].pc` is the await at which a task stands: the semaphore (`permit`),
`_lock` (`ensure`, `reset`, `drop`), `uc.start` (`starting`), the new tab
(`opening`), the caller's work (`using`), the warmer's own lock (`cookies`) and
its export of cookies (`export`).  A call remembers the Chrome it asked (`on`),
and whether this is the second attempt (`again`).  "dead" means that the CDP
connection of a Chrome has dropped.  `Cancel` may strike at every await; during
`uc.start` it may leave a Chrome that nobody knows (`orphaned`).

### TabBrowser

The same style, for the browsers that share one tab: `Begin`/`Ensure` are
`_ensure_started` with its check before and after `_init_lock`, `TakeLock`,
`NavOk`, `NavDead`, `NavFails` and `Read` the body of `dom_search` under
`_lock`, `Reset` is `_reset`; `StartOk` and `OpenOk` are the two awaits of a launch, with
`_browser` assigned between them.  A call of kind "resolve" is Google's
`resolve_card_url`, which does not recover.  The entries of the map cite all
three files, which are alike there.  `Init` has every outcome of the pre-warm of
`main.py`.

### SharedBrowser

What both of them promise, without locks, retries or the order of the awaits: at
most `MaxUsers` calls are in the browser, each is given its page in the one Chrome
that is shared, while it runs (`Serve`), a Chrome is launched for sharing only when
no other one runs (`Launch`), except for those whose launch was broken off
(`Stray`).  For the pool `MaxUsers` is the number of tabs, `users` are the tasks
past the semaphore and `page` is the tab that a task works in; for the one-tab
browsers it is 1, `users` is the holder of `_lock` and `page` the tab it reads.

### OzonSource and Adapter

`mem` is `_cookies` with `_warmed_at`, `file` is `ozon_cookies.json`; a jar of
cookies is the number of the export it came from, whether it is empty, and its
time stamp.  `line` is the FIFO queue of `_lock`: a task that finds the lock free
and nobody waiting does not suspend, which is why `Search` and `Refused` have a
branch without a wait.  `GetCookies`, `Invalidate`, `WarmEnds` and `WarmFails` are
the warmer; `Search`, `Answered`, `Refused`, `Escalates`, `Fails`, `Enrich`,
`Browse`, `Emit` and `Return` are `search` from top to bottom.  What Ozon answers
is free: products, none, no answer, or a body that makes the parser raise.
`Crash` keeps the file only.  `born`, `exports` and `refused` observe the cookies
and guard nothing, but for the bound `MaxExports`.

`Adapter` is the protocol in `scrapers/base.py` as an abstract specification: a
search reports offers, each once, and then returns just these or an error, unless
it is cancelled.  `Shown` is the refinement mapping.

### Listing, WBSource, RunetSource, MarketSource, Sources

`Listing` is the loop that ends the three adapters: `next` is the result it looks
at, `out` what it has appended to `offers`, `emitted` what it has called
`on_offer` with.  `Sources` maps the three lists to `Adapter` (`search`).

`WBSource`: `wb.stub` is what the search page shows (`PageAnswers`), and
`wb.task[i]` is `_enrich_one` for product `i`, let in by the semaphore (`Enters`),
at one request of `fetch_card` after another (`AsksShard`) and then at the reviews
(`AsksReviews`).  `BasketFor` is `basket_for`, `Tries` are the candidates of
`fetch_card`, among which a computed shard that does not exist comes first as it
does in the code.  `Gathered` is the `gather` that keeps exceptions, `Converts` a round
of the loop over its results.  A product is its facts: what its page and its card
say, whether its card breaks the parser, whether `ProductOffer` refuses it.

`RunetSource`: `GoogleEnds` is `_google_subsearch`; `YandexAnswers`, `PageStarts`,
`PageEnds` and `YandexEnds` are `_yandex_subsearch` with its pages behind the
semaphore, and `YandexRaises` the one exception that leaves it; `BothEnded` is the
`gather` of `search`, `Merges` a round of the merge.  An offer is its
`_dedup_key`: the seller and the first 50 characters of the name.

`MarketSource`: one request, and a `Round` for each product of the page, which may
raise out of the loop after others were reported.

### Services

Five small machines.  Each action is again the code between two awaits.

`ChatSession`: a turn goes through `Pings` (the route's dependency), `Loads`,
`ModelAnswers` and `ToolsEnd` in rounds, and `Saves`; `stored` is the key
`chat:{session_id}`.  `Expires` and `ChatCrash` may come at any time.  A message
is who wrote it and of what kind it is.

`ImageCache`: a view goes through `Views`, `HeadEnds`, `FetchEnds` and `PutEnds`
as in `ensure_cached`; `known` is `_known`, `bucket` what S3 has, `gone` (observed
only) what expired there.  Nothing holds two views of one image apart.

`QueryIntake`: `cache`, `failed`, `holder` and `line` are `_cache`,
`_cache_failed` and `_cache_lock`; a request gets its client (`AsksForCache`,
`HasLock`, `PingAnswered`, `PingFails`, `Closed`), then its query (`GetEnds`,
`SpellEnds`, `SetEnds`).  `RequestCancelled` may strike at each await, and
`except Exception` does not see it.  `EntryAges` is the time to live.

`Clarification`: `Heuristic`, `EnsureOptions` and `Combined` are
`_heuristic_clarification`, `_ensure_three_options` and what
`check_and_clarify_query` makes of both; the model says anything or fails.  An option
is the query as typed (`literal`) or another one.

`Nmck`: `Pool`, `Median2`, `InBand`, `Realistic` and `SelectKp` are `_select_kp`,
step by step, over integers (the median is kept doubled); `Homogeneous` is the
bound on the coefficient of variation without roots.  `KpDefensible` says what a
choice must be without saying how it is made, and the dispersion by pairs of
prices (`Pairs`) instead of by the mean.

### Watcher

`Scan` is `_due_watches`, of which `DueWatches` says what it returns: the k-th of
the rows that are due (`DuePlaces`), as many as a tick has room for; `order` stands
for the `order_by` of its query.  `Search` is the `run` of a search (that nothing was
found and that it raised are one outcome, since they differ in the text of
`last_error` only), `Record` the transaction
that ends `_process_one`, which re-reads the row.  `SelectTwin` and `Insert` are
the two transactions of `create_watch`; `RemoveWatch` takes the alerts along by
the foreign key, as Postgres does (the SQLite of local development enforces no
foreign keys; it is not modelled).  Alerts are kept by watch, in the order they
were raised.  `Poison` are queries whose results the database refuses at the
commit: `_tick` catches the exception, and `last_check_at` stays.  One watcher
runs, as there is one uvicorn process.

## 3. Runs

| Run | Instance | Distinct states, time | Shows |
|---|---|---|---|
| `stream` | WB with two offers and another source with one, every content of Redis, regional or not, synonyms or not | 3.9 million, 170 s | `WellFormed`, `StreamAgrees`, `AdjustedOnce`, `NothingAfterEnd`, `CacheKeepsAnswers`, `StreamCompletes` |
| `stream_converge` | the same | | `Converge` is violated |
| `stream_isolation` | the same, fair | | `EveryStreamCompletes` is violated |
| `pool` | 3 tasks, 2 permits, 3 Chromes | 129,000, 60 s | `ImplementsSharedBrowser`, `PermitsConserved`, `SingleBrowser`, `LostToLateReset`, `AcquireEnds` |
| `pool_reset` | the same | | `ResetDropsDead` is violated |
| `tab` | 3 calls, 3 Chromes | 41,000, 17 s | `ImplementsSharedBrowser`, `OneAtTheTab`, `NoOtherLeak`, `ResetDropsDead`, `CallReturns` |
| `tab_single` | the same | | `NoSecondLaunch` is violated |
| `watches` | 1 owner, 3 rows, 2 queries, one of them poisoned, 2 requests that create, room for 2 per tick, 3 prices, 2 alerts | 820,000, 190 s | `NoGhostAlerts`, `AlertChain`, `TwinsOverlapped`, `OldestFirst`, `DueIsChecked` |
| `adapters` | Ozon: 2 searches, 2 products, 2 exports, time to live 2, clock to 2.  WB: 7 products on a table of 2 shards, pages of up to 3.  Runet: 2 Google cards, 3 Yandex results, 2 hosts.  Market: 5 products | 346,000, 150 s | `TypeOK`, `RetryFresh`, `WithinTtl`, `RefusedOnlyFromDisk`, `ImplementsAdapter`, `SearchEnds`; `EachOnItsOwn`; `MergedOnce`; `AdaptersImplemented` |
| `services` | 3 turns; 2 images and 2 viewers; 2 requests, 2 clients, a life of 2 ticks; 5 options; 4 offers of 4 prices and 2 trusts, 3 of them chosen; the limiter with 2 processes, one caller each, 2 tokens a minute of 3 ticks, window opening at 1, clock to 4 | 1.1 million, 140 s | `HistoryKept`; `RedirectLands`; `OneClient`, `OutagePasses`; `ObviousClarified`; `KpDefensible`; `SharedBudget`, `LocalBudget`, `PatientGiveUp`, `AcquireReturns` |
| `images` | the same | | `SomeImage` is violated |
| `clarification` | the same | | `AlwaysThree` is violated |

### Bounds

* `stream`: two sources, WB, which has a stale copy, and one that has not.  WB
  answers with up to `MaxOffers` = 2 offers, so that it may go on after the first
  was relayed, and may have a stale copy that is shorter than what it found; the
  other with one.  What varies is the interleaving, the cache contents (none,
  offers, unreadable) and the failures.  For the default region the adjustment is
  the identity, and its requests are checked with an empty Redis only.
* `pool`: three tasks on two permits make one wait for the semaphore while two
  race for the lock; three launches allow the first Chrome, its successor, and
  the one that follows a late reset.  `MaxStarts` bounds the history, not the
  protocol: when it is used up, launches only fail.
* `tab`: three calls are needed for one to recover under `_lock`, one to wait
  for `_lock` and one to wait for `_init_lock`.
* `watches`: three rows and two per tick let one broken row share each tick with
  others.  `MaxRows` bounds the rows ever created (so that a watch overtaken for ever
  by new ones, which go first, is outside of the instance), `MaxAlerts` the alerts at a
  time; prices are chosen one step below and well above the threshold.  Two
  requests at once are the least that make a twin.
* `adapters`, `services`: the parts share no state, so the instance chooses one of
  them and lets it alone move (`moves` in `MCAdapters` and `MCServices`): what is
  true of it then is true of it while the others move, which the proofs do not
  need, as they are about the whole.
* Ozon in `adapters`: two searches meet at the lock in every pair of states, two exports
  are a first and a forced one, and a clock that reaches the time to live lets
  cookies expire in memory and in the file.  `MaxExports` bounds the history:
  when it is used up, warm-ups only raise.  A third export (several minutes) and
  more searches are left to the proofs.
* The other adapters there: `MCProducts` has a product for each case of a
  card: complete or missing facts; on the computed shard, beside it, at the edge of
  `Reach`, past the last shard (computed so, or only beside the computed one), on
  none; one that breaks the parser; and a product that `ProductOffer` refuses.  Three
  Yandex results over two hosts, one of them excluded, repeat a host; a list of two
  (`Cap`) fills up.
* The limiter in `services`: the clock stops at `Horizon`, and no call begins whose deadline it
  would not reach.  Within the horizon a bucket is drained, refilled, expires
  (`Ttl` is 4 ticks), a caller polls, is overtaken and gives up, and either
  process loses Redis, also after its script ran.  Larger instances are covered
  by the proofs.
* The others there: three turns let one be lost between two that are kept; one round
  of tools (`MaxRounds`) ends a turn by the limit.  `MaxClients` bounds the clients a
  process makes: when they are used up nobody opens another.  Four offers make a pool
  larger than the limit of three (five in the code), and prices 1, 2 and 5 fall in and
  out of the band; with a limit of three the clause of `KpDefensible` on a full choice
  has few cases, and is left to the theorem.

Deadlock checking is off where the system may rest: calls are not obliged to
come, the bounded clock stops, a stream or a turn is over.

### Fairness

Every fairness condition is on steps of the program or on an answer that its
awaits are certain to get, never on a client, an owner, or a favourable outcome.

* The event loop runs each task that is ready: weak fairness per task.  Where a run
  lets one part move, fairness is asked of this part (`MCLimiterFairness`).
* asyncio's `Lock` and `Semaphore` wake their waiters in FIFO order, so a task
  that waits while the lock is free again and again is served: strong fairness
  of `Waits`.
* An `await` on Redis, Chrome, Ozon or an adapter ends with an answer or an
  exception: `EvalReplies \/ EvalFails`, `Proceeds`, `DriveStep` are disjunctions
  of both outcomes, and the choice is free.  This assumes that nobody waits
  forever on a connection (the HTTP clients and the CDP calls have timeouts).
* `Watcher`: the loop sleeps a bounded time; the process stops crashing at some
  point, without which nothing is ever finished.
* `QueryIntake`: time passes, for an entry of the cache (`EntryAges`); no request
  and no service is obliged to anything.  `OutagePasses` assumes in its statement
  that the outage ends.

### Findings

1. `Converge` (`orchestrator/search.py:363`): the synonym retry streams offers
   through the caller's callback rather than the wrapped one, so outside region
   213 the stream shows unadjusted prices while list, ranking and cache hold
   adjusted ones.  The comment at lines 374-375 says that they converge.
   `StreamAgrees` states what holds of all other answers.
2. `EveryStreamCompletes` (`orchestrator/search.py:253`): a cache entry that no
   longer validates raises outside the `try` of the cache, ends the gather, and
   the sentinel is never put; the stream hangs until the client leaves.
   `StreamCompletes` states what holds without such entries.
3. `ResetDropsDead` of the pool (`antibot/browser_pool.py:208`): a reset stops
   whichever Chrome is current.  `LostToLateReset` states exactly which resets
   do so, and `TabBrowser` has the same property hold, thanks to `_lock`.
4. `NoSecondLaunch` (`antibot/wb_browser.py:246`): a launch whose first page
   fails leaves a Chrome running and unused, and another is launched on the same
   profile.  `NoOtherLeak` says that this is the only way to leak one.
5. `SomeImage` (`storage/s3.py:88`): `_known` is never asked again, so an image whose
   object has expired, or whose bucket is down, is redirected there by every process
   that has seen it, where `api/routes/images.py:8-10` promises the original URL and
   "so the user always sees *some* image".  `RedirectLands` says when exactly a
   redirect goes wrong.  The same text promises the original URL when "the origin
   returns garbage", which is stored like an image if it comes with the status 200
   and is not empty (`s3.py:109`).
6. `AlwaysThree` (`enrichment/query_clarification.py:216`): the docstring (197-199)
   promises three options, the query as typed last.  Nothing pads, so two options are
   possible; a query as typed that the model put elsewhere is not moved, and may be
   cut.  `src/backend/tests/unit/test_query_clarification.py:40` expects two options
   of an answer of which the code makes three.  `ObviousClarified` states what holds.

## 4. Proofs

TLC checks the instances above; the theorems hold for every value of the
constants that satisfies the named assumptions (`ProcOfAssumption`,
`RpmAssumption`, `TimeAssumption`; `CallsAssumption`, `BoundsAssumption`, and
those of the other modules, which only type the constants; for
Ozon's cookies the time to live is at least one tick, or cookies just exported
would be too old).  All are invariants, action properties or refinements of
`Spec`, without fairness.

**RateLimiter** (`TypeCorrect`, `SharedBudgetHolds`, `LocalBudgetHolds`,
`GiveUpIsPatient`).  `SharedBudget` is not inductive: it says nothing of what is
in the bucket.  `SharedCount` in `Inv` adds it: what has been granted since the
window opened, plus what the bucket holds, is at most one burst plus the refill
of the window up to the time stamp of the bucket, plus what late clock readings
refill twice.  Three steps matter: the script with a reading that is `d` ticks
old moves `ts` back by at most what `late` grows (`RunScriptKeepsCount`); an
expired key counts as a full bucket, and `Clocks` shows that it would be full
anyway, as `Ttl` exceeds a full refill after the last write; and the window
opens on a bucket that holds a burst at most.  `LocalCount` is the same without
delays, since the local bucket reads the clock when it consumes.  The only
non-linear arithmetic, multiplication by `Rpm`, is isolated in `RpmDistributes`
and `RpmMonotone`.

**BrowserPool** (`TypeCorrect`, `PermitsComeBack`, `OneBrowser`, `LateReset`,
`PoolIsShared`).
`IInv` adds two facts.  `LockHeld`: the lock is held exactly by a task that is
launching, hence there is no browser then, and no two tasks launch.
`TabsLaunched`: a task only ever asks a Chrome that was launched, and one that
waits to reset saw a dead one, which stays dead, so the Chrome that its reset stops alive is a
different one.  Permits are counted with the finite-set theorems: each step adds
one task to `Users` or takes one away as it changes the semaphore.  For the
refinement of `SharedBrowser` each action is mapped to one of its steps or to a
stutter; `Enter` needs the permits, `Launch` that no Chrome but strays runs, and
`Serve` one more invariant, `GivenOut`: a task that asks a Chrome which is up asks
the current one, and never one left by a cancelled launch.  That a served task's
Chrome may be stopped under it by a late reset (finding 3) is a step `Stop` there,
which promises a page and not that it lasts.

**TabBrowser** (`TypeCorrect`, `TabSerialised`, `LeaksExplained`,
`ResetOnlyDead`, `TabIsShared`).  `IInv` has `LocksHeld` (who holds which lock at which await),
`TabKnown` (while a task uses the tab or waits to reset, the tab belongs to the
current Chrome, and a task that resets found just this one dead), and `Halfway`
(a browser without a tab is being opened by the holder of `_init_lock`, or was
left by a spoilt launch).  That a reset never stops a live Chrome, which fails
for the pool, then follows, and so does the refinement of `SharedBrowser` with room
for one call.

**OzonSource** (`TypeCorrect`, `RetriesAreFresh`, `CookiesAreWithinTtl`, `RefusedComeFromDisk`,
`AdapterImplemented`).  `IInv` has `JarsTrue` (memory and file hold exports with
the time they were made at, and only exports are ever refused), `MemoryClean`
(nothing refused is in memory, unless it is in the file too, from where it was
loaded), and for each search `CookiesOf` (a second attempt has later cookies) and
`OffersOf` (listed and reported are the same offers, and what is still to be
listed has not been).  `GivenFrom` then says where the cookies of a first attempt
come from, on which the two action properties rest, and `ShownNext` maps each
step to one of `Adapter` or to a stutter.  None of this needs the lock: the
invariant does not mention who holds it.  `TypeCorrect` is about the lock: `LineInv`
says that `line` has each task that waits for it, once, and no other, and that the
lock is held by the one that warms, if any.  The operations on the line (append,
take the first, `RemoveFirst` for a cancelled waiter) each have a lemma on what
becomes of that.

**SearchStream** (`TypesKept`, `ToldInOrder`, `StreamAndGroup`, `PricedOnce`,
`EndIsTheEnd`, `OnlyAnswersCached`).  What the client has been told says
nothing of what is still in the queue, so `IInv` relates the two for each source:
`Task` says, for every place a drive can be at, what has been yielded of it
(`sent[s]`) and which of its events lie in the queue, in this order and among
those of others (`Ordered`, `Told`, `Final`), and `Content` that together they are
just the offers reported so far.  `Stores` says that what was found in Redis or
written there is adjusted once; `Ending` that ranking and sentinel are the last
things in the queue, and only there when every drive is done; `Flow` what the drainer
and the client can be while which drives run, and that only WB's drive is ever deaf,
at the stale copy or past it, and only under a cancelled drainer.  `EndIsTheEnd`
follows from the last: once the client is gone the gather does not run (`Flow`), so
what moves is told to end, has just swallowed that, or is deaf (`OneMoves`,
`Uncancelled`).  A step of one drive changes the queue
by an event of its own at the end (`PutOwn`, and `PutOthers` for all the others),
the relay takes one from the front (`RelayOwn`, `RelayOthers`); on these four
lemmas every action's proof rests.

**Sources** (`EachAlone`, `MergeIsSound`, `AllImplement`).  For Wildberries
`TaskFine` says that the shards asked so far have not got the card, or that the
one that has gave no answer, whence a task that ends without the card has lost it
or it is out of reach.  For the merge the invariant is `MergedOnce` of the part of
the list that was gone through, with `seen` the keys of what is listed.  All three
refinements are one: `ListStep` says what a step may do to a `Listing`, each
action is shown to do just that, and `StepShown` maps it to `Adapter`.

**Services** (`OneClientOnly`, `RedirectsLand`, `ObviousAreClarified`,
`HistoriesKept`, `ChoiceDefensible`).
`ClientInv` says for each await of `get_search_cache` who holds the lock, whether
the client in hand is open, and that it is the process's one (`Place`); it does
not need the line for the lock.  `KnownStored`: a key in `_known` was in the
bucket, and is there still or expired; that a redirect without such a key needs a
bucket that is up is read off the steps.  `CombinedClear` takes the model's answer
apart by its length.

`HistoryKept` is about the stored history only; `HistoryInv` says the same of what
each turn holds on its way: a turn past `Loads` has a history that was stored when
it looked, followed by what it said itself in one piece (`Speaks`, `Talking`), and
every turn that was saved is in it, in one piece, unless it was undone, by an
expiry or by a later save of a turn that had loaded before (`Kept`, `Undone`).

`KpDefensible` is proved of the definitions, since the state only keeps what they
yield (`NmckInv`).  Three arguments carry it.  The pool has one offer of each
seller with a price, so that the two have the same number.  A median exists: the
n-th price is the least one with n offers at or below it, found as the least
element of a set of integers.  `Preferred` is a total order on the pool, by the
place of a seller in the dict in the end, so the rank of an offer (how many are
preferred to it) is another for each, and those of rank below the limit are just
as many as the limit or all there are (`FirstCount`).  That the sum over pairs of
prices measures the same as the deviations from the mean (`HomogeneousByPairs`:
n times the sum over all pairs is twice the sum of the squares of n times the price
less the total) needs sums over a finite set, which the library states by a CHOOSE;
`SumExists` and `SumLinear` characterise them by a least counterexample among the
sizes of the sets, which is how an induction can be put without an operator
parameter.

**Watcher** (`TypeCorrect`, `OldestAreFirst`, `TwinsOnlyOverlap`, `NoGhosts`,
`AlertsChain`).  `IInv` says what the tables, the order of the rows and the tick at
hand are; the order is a line in which each live watch is just once.  Appending,
inserting and `RemoveFirst` each have a lemma (`LineAppend`, `LineInsert`,
`LineRemove`) that says who is in the line then and that the others keep their
order, from which `OldestAreFirst` has its first half: only the watch that was just
checked is put behind others.  The second half, that a tick takes the due
watches in turn and leaves out none that is before one it took, is what `DueTaken`
says of `DueWatches`; that there is a k-th due place is shown with the least place
up to which there are k (`UpToGrows`, `DueThere`).  This is the safety side of
`DueIsChecked`.  For twins, each
live row and each request that is about to insert has a place of its own among the
creators.  Ghosts and the chain follow from what becomes of one row in a step
(`Stays`, `Priced`).  The baseline follows moves below the threshold, which nobody
is told of and which may add up between two alerts: `DriftsTo` is the closure under
such moves, so that `AlertsChain` holds of any prices, and where the
prices lie far apart, as 101 and 200 do in `MCWatcher`, it hides nothing.

**Only model-checked**: the liveness properties `AcquireReturns`, `AcquireEnds`,
`CallReturns`, `StreamCompletes`, `SearchEnds`, `DueIsChecked` and `OutagePasses`,
which rest on fairness and `ENABLED`, out of the prover's reach.  Every invariant,
action property and refinement that a passing run checks is stated by a theorem.
`TypeOK` of `RateLimiter`, `BrowserPool`, `TabBrowser` and `Watcher` is proved and
not run; those of the machines of `Services` are neither run nor proved as a
whole: the proofs use the parts they need.  What a recursive
definition computes for every input is out of reach as well, unless it can be put
as above, by a least counterexample over a set.

## 5. What is not modelled

* Content: HTML and JSON parsing, prices as numbers, relevance, ranking,
  morphology, prompts, the workbook of the NMCK (`nmck.py:160-512`).  These are
  functions of their inputs, and the properties
  above do not tell their results apart.
* Time, except in the limiter, for Ozon's cookies and for a normalised query:
  expiry of an answer is its absence from the
  start, the interval of a watch is a flag.
* Several requests on one key.  `run()` with a source named twice is the only way
  to the join of lines 263-281; the two tasks are then of one request and the
  joiner gets no stale copy.  Its `gather` has no `return_exceptions`.
* The cascade router: its state lives for one request and nothing reads it but a
  log line.  The price history: no adapter is given the store it would write to.
* The MCP server, accounts and favourites, LLM and vision routes, the
  spellcheck service, the queue stub, configuration: one call or one statement
  each, without state of their own (the check-then-insert of favourites is that
  of watches).
* The frontend: it takes events in the order they come.
* Framework code: FastAPI, fastapi-users, SQLAlchemy, nodriver, Redis itself
  beyond the atomicity of one command or script.

### Read, not run

Places where the code and its text differ, met while modelling.  The models have
what the code does; no run refutes the text.

* `scrapers/runet.py:79-80` keeps the marketplaces out, but only of Yandex's
  results: Google's cards name sellers, and Ozon or WB may be among them.
* `scrapers/runet.py:585-586` says that a failure raises nothing, but `urlparse`
  may raise on the URL of a result (`YandexRaises`); and two engines that are both
  down look like an answer with no offers.
* The merge tells shops apart by the seller's name for Google's cards and by the
  host for Yandex's: the same shop may appear under both.
* `agent/tools.py:127-139` and `enrichment/sentiment.py:77-88` iterate over a
  `WbFeedbacksPage`, which is no sequence.
* `scrapers/wb_feedbacks.py:141` says that it never raises; the parser of a page
  may.
* `analytics/nmck.py:103-104` gives an offer without a rating half the credit;
  line 143 gives it a rating of 4.
* `api/cache.py:13-14`: never two clients; a cancelled ping leaves one open that
  nobody uses or closes.
* `agent/chat.py`: a history with objects of the client library in it may be
  refused by `json.dumps`; the turn then fails after its reply.  `ChatResponse`
  drops `truncated`.
* `antibot/browser_pool.py:208-214`: a `stop()` that raises is swallowed, and leaves a
  Chrome that nobody refers to; in `BrowserPool` it succeeds.
* `orchestrator/search.py:199-206`: the drives beside one that raised run on after the
  stream's client has left, since the gather that could cancel them has ended
  (`drainer # "failed"` in `NothingAfterEnd`).

## 6. Plan

What is left, in order of importance:

1. Several requests at once: `run()` with a source named twice, and the
   composition of streams with the limiter, for the second request of a synonym
   retry (`search.py:363`) and the tables that live for one request
   (`search.py:104`).
2. `SearchPage`: the effects of `src/frontend/src/app/search/page.tsx` (289-456:
   `skipNextFetch`, the cancelled flag, reconnects of `EventSource`), composed with
   the events of `SearchStream`.
3. Refinement: `RateLimiter` of an abstract budget, `SearchStream` of "a sequence
   of answers, then the end".
4. The order of the ranking.
