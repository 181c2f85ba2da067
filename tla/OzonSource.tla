----------------------------- MODULE OzonSource -----------------------------
(***************************************************************************)
(* Ozon's adapter (scrapers/ozon.py) and the cookies it lives on, kept by  *)
(* the OzonCookieWarmer of antibot/browser_fetch.py.                       *)
(*                                                                         *)
(* A search asks the warmer for cookies, which has them in memory, on disk *)
(* or from a browser that visits ozon.ru; it searches over HTTP with these *)
(* (L1), once more with fresh ones when it gets no answer, and then from   *)
(* within the browser (L2); what it finds it enriches over HTTP or else in *)
(* the browser.  All searches share the warmer and its lock.  What the     *)
(* browser does is the subject of BrowserPool; here a warm-up exports      *)
(* cookies, or none, or raises.                                            *)
(*                                                                         *)
(* asyncio.Lock does not suspend a task that finds it free with nobody     *)
(* waiting, and serves those that wait in turn: hence `line`.              *)
(*                                                                         *)
(* An operator that is used nowhere, like LoadedAnew, is the one that      *)
(* follows it with a mistake the code could well have made: put in its     *)
(* place, it shows which property would notice.                            *)
(***************************************************************************)
EXTENDS Integers, Sequences, FiniteSets, SequencesExt

CONSTANTS
  Calls,       \* concurrent searches, each made again and again
  None,        \* nobody holds the lock
  Stubs,       \* the products of an answer of Ozon
  Ttl,         \* ozon_cookie_ttl_sec, in ticks
  MaxExports,  \* bound of the model: warm-ups that succeed
  Horizon      \* bound of the model: the clock stops there

ASSUME CallsAssumption == None \notin Calls
ASSUME BoundsAssumption == Ttl \in Nat \ {0} /\ MaxExports \in Nat /\ Horizon \in Nat

VARIABLES
  now,      \* time.time()
  mem,      \* _cookies with _warmed_at
  file,     \* ozon_cookies.json
  lock,     \* who holds _lock, during a warm-up
  line,     \* who waits for it
  call,     \* call[c]: where search c stands
  \* What follows observes the cookies and never guards a step of the code.
  born,     \* born[g]: when the g-th export was made
  exports,  \* exports made so far
  refused   \* the exports that some search got no answer with and invalidated

cookieVars == <<mem, file, born, exports>>
lockVars == <<lock, line>>
vars == <<now, mem, file, lock, line, call, born, exports, refused>>

Exports == 1 .. MaxExports

\* The cookies of an export (0: there are none), and their time stamp.
Jar == [export: 0 .. MaxExports, empty: BOOLEAN, at: Nat]
NoJar == [export |-> 0, empty |-> TRUE, at |-> 0]

Call == [pc: {"idle", "get", "invalidate", "force", "warm", "rewarm",
              "l1", "l1again", "l2", "enrich", "browse", "emit"},
         with: 0 .. MaxExports,   \* the export whose cookies it was given
         first: 0 .. MaxExports,  \* those of its first attempt
         ready: SUBSET Stubs,     \* enriched, and not yet converted
         bare: SUBSET Stubs,      \* those without a name after L1
         out: [Stubs -> 0 .. 1],  \* how often the list to be returned has an offer
         emitted: [Stubs -> 0 .. 1],  \* how often on_offer was called with it
         outcome: {"none", "offers", "error"}]

Waiting == {"get", "invalidate", "force"}
Warming == {"warm", "rewarm"}

Never == [o \in Stubs |-> 0]
NoCall == [pc |-> "idle", with |-> 0, first |-> 0, ready |-> {}, bare |-> {},
           out |-> Never, emitted |-> Never, outcome |-> "none"]

TypeOK ==
  /\ now \in Nat
  /\ mem \in Jar /\ file \in Jar
  /\ lock \in Calls \cup {None}
  /\ line \in Seq(Calls)
  /\ call \in [Calls -> Call]
  /\ born \in [Exports -> Nat]
  /\ exports \in 0 .. MaxExports
  /\ refused \subseteq Exports
  /\ \A c \in Calls : lock = c <=> call[c].pc \in Warming
  \* Who waits is in the line, once, and nobody else.
  /\ {line[i] : i \in DOMAIN line} = {c \in Calls : call[c].pc \in Waiting}
  /\ Len(line) = Cardinality({c \in Calls : call[c].pc \in Waiting})

Init ==
  /\ now = 0
  /\ mem = NoJar
  /\ file = NoJar
  /\ lock = None
  /\ line = <<>>
  /\ call = [c \in Calls |-> NoCall]
  /\ born = [g \in Exports |-> 0]
  /\ exports = 0
  /\ refused = {}

Goto(c, pc) == call' = [call EXCEPT ![c].pc = pc]

\* The search of c ends, and what it has reported stays reported.
Ends(c, outcome) ==
  call' = [call EXCEPT ![c] = [NoCall EXCEPT !.outcome = outcome, !.out = call[c].out,
                                             !.emitted = call[c].emitted]]

\* The lock can be had without waiting.
Free == lock = None /\ line = <<>>

-----------------------------------------------------------------------------
(***************************************************************************)
(* The warmer.                                                             *)
(***************************************************************************)

Fresh(jar) == now - jar.at < Ttl

LoadedAnew == [file EXCEPT !.at = now]

\* What is read from disk has the time stamp it was written with.
Loaded == file

OnDiskForced(force) == mem.export = 0 /\ file.export # 0 /\ Fresh(file)

\* The two ways not to warm.
InMemory(force) == ~force /\ mem.export # 0 /\ ~mem.empty /\ Fresh(mem)
OnDisk(force) == ~force /\ mem.export = 0 /\ file.export # 0 /\ Fresh(file)

\* Cookies are handed to search c, and it goes on.
Hand(c, jar, force) ==
  IF force
  THEN call' = [call EXCEPT ![c].pc = "l1again", ![c].with = jar.export]
  ELSE IF jar.empty THEN Ends(c, "error")
  ELSE call' = [call EXCEPT ![c].pc = "l1", ![c].with = jar.export, ![c].first = jar.export]

\* get_cookies of c, from the moment it has the lock to its next await.  The
\* file may turn out to be unreadable.
GetCookies(c, force) ==
  \/ /\ InMemory(force)
     /\ Hand(c, mem, force)
     /\ UNCHANGED <<mem, lock>>
  \/ /\ OnDisk(force)
     /\ mem' = Loaded
     /\ Hand(c, Loaded, force)
     /\ UNCHANGED lock
  \/ /\ ~InMemory(force)
     /\ lock' = c
     /\ Goto(c, IF force THEN "rewarm" ELSE "warm")
     /\ UNCHANGED mem

ForgottenNever == mem

\* What invalidate leaves in memory.  The file stays as it is.
Forgotten == NoJar

\* invalidate of c, which has the lock, and the get_cookies(force=True) that
\* follows: without a pause if nobody waits, or else at the end of the line.
Invalidate(c, others) ==
  /\ refused' = refused \cup {call[c].first}
  /\ IF others = <<>>
     THEN /\ mem' = Forgotten
          /\ lock' = c
          /\ line' = <<>>
          /\ Goto(c, "rewarm")
     ELSE /\ mem' = Forgotten
          /\ line' = Append(others, c)
          /\ Goto(c, "force")
          /\ UNCHANGED lock

\* The lock is passed to the first in the line.
TakeLock(c) ==
  /\ lock = None
  /\ line # <<>> /\ c = Head(line)
  /\ \/ /\ call[c].pc = "get"
        /\ GetCookies(c, FALSE)
        /\ line' = Tail(line)
        /\ UNCHANGED refused
     \/ /\ call[c].pc = "force"
        /\ GetCookies(c, TRUE)
        /\ line' = Tail(line)
        /\ UNCHANGED refused
     \/ /\ call[c].pc = "invalidate"
        /\ Invalidate(c, Tail(line))
  /\ UNCHANGED <<now, file, born, exports>>

\* _warm returns cookies, possibly none; they are stamped and written, which
\* may fail and then may spoil the file.
WarmEnds(c) ==
  /\ call[c].pc \in Warming
  /\ exports < MaxExports
  /\ \E empty \in BOOLEAN :
        /\ mem' = [export |-> exports + 1, empty |-> empty, at |-> now]
        /\ file' \in {mem', file, NoJar}
        /\ Hand(c, mem', call[c].pc = "rewarm")
  /\ exports' = exports + 1
  /\ born' = [born EXCEPT ![exports + 1] = now]
  /\ lock' = None
  /\ UNCHANGED <<now, line, refused>>

\* _warm raises, since no browser could be had: an error of the search,
\* whether search catches it or, at the second attempt, its caller.
WarmFailsLocked(c) ==
  /\ call[c].pc \in Warming
  /\ Ends(c, "error")
  /\ UNCHANGED <<now, cookieVars, lockVars, refused>>

WarmFails(c) ==
  /\ call[c].pc \in Warming
  /\ lock' = None
  /\ Ends(c, "error")
  /\ UNCHANGED <<now, cookieVars, line, refused>>

-----------------------------------------------------------------------------
(***************************************************************************)
(* A search.                                                               *)
(***************************************************************************)

\* search is called, and asks for cookies.
Search(c) ==
  /\ call[c] = NoCall
  /\ \/ /\ Free
        /\ GetCookies(c, FALSE)
        /\ UNCHANGED line
     \/ /\ ~Free
        /\ line' = Append(line, c)
        /\ Goto(c, "get")
        /\ UNCHANGED <<mem, lock>>
  /\ UNCHANGED <<now, file, born, exports, refused>>

\* Ozon answers L1 or L2 with some products, or none; the latter ends the
\* search.  Which cookies it was made with is of no interest any more.
Answered(c) ==
  /\ call[c].pc \in {"l1", "l1again", "l2"}
  /\ \/ \E stubs \in SUBSET Stubs \ {{}} :
           call' = [call EXCEPT ![c] = [NoCall EXCEPT !.pc = "enrich", !.bare = stubs]]
     \/ Ends(c, "offers")
  /\ UNCHANGED <<now, cookieVars, lockVars, refused>>

\* No answer at the first attempt, whatever the reason: the cookies are
\* invalidated and had anew.
Refused(c) ==
  /\ call[c].pc = "l1"
  /\ \/ /\ Free
        /\ Invalidate(c, <<>>)
     \/ /\ ~Free
        /\ line' = Append(line, c)
        /\ Goto(c, "invalidate")
        /\ UNCHANGED <<mem, lock, refused>>
  /\ UNCHANGED <<now, file, born, exports>>

\* No answer at the second attempt: the browser is asked.
Escalates(c) ==
  /\ call[c].pc = "l1again"
  /\ Goto(c, "l2")
  /\ UNCHANGED <<now, cookieVars, lockVars, refused>>

\* No answer from within the browser; or, at any attempt, an answer of a shape
\* that the parser does not expect, or a browser that cannot be had, raises.
Fails(c) ==
  /\ call[c].pc \in {"l1", "l1again", "l2"}
  /\ Ends(c, "error")
  /\ UNCHANGED <<now, cookieVars, lockVars, refused>>

EnrichKeepsBare(c) ==
  /\ call[c].pc = "enrich"
  /\ \E named, bare \in SUBSET call[c].bare :
        /\ named \cap bare = {}
        /\ call' = [call EXCEPT ![c].pc = IF bare = {} THEN "emit" ELSE "browse",
                               ![c].ready = named \cup bare, ![c].bare = bare]
  /\ UNCHANGED <<now, cookieVars, lockVars, refused>>

\* _enrich_all over HTTP: a stub comes back with a name or without one, or its
\* enrichment raises and it is dropped.
Enrich(c) ==
  /\ call[c].pc = "enrich"
  /\ \E named, bare \in SUBSET call[c].bare :
        /\ named \cap bare = {}
        /\ call' = [call EXCEPT ![c].pc = IF bare = {} THEN "emit" ELSE "browse",
                               ![c].ready = named, ![c].bare = bare]
  /\ UNCHANGED <<now, cookieVars, lockVars, refused>>

\* Those without a name are enriched in the browser, which may raise too.
Browse(c) ==
  /\ call[c].pc = "browse"
  /\ \E kept \in SUBSET call[c].bare :
        call' = [call EXCEPT ![c].pc = "emit", ![c].bare = kept]
  /\ UNCHANGED <<now, cookieVars, lockVars, refused>>

\* The next stub that makes an offer is listed and reported: first those
\* enriched over HTTP.  Those before it that make none are dropped.
Emit(c) ==
  /\ call[c].pc = "emit"
  /\ \E o \in call[c].ready \cup call[c].bare :
        call' = [call EXCEPT ![c].out[o] = @ + 1, ![c].emitted[o] = @ + 1,
                   ![c].ready = IF o \in @ THEN @ \ {o} ELSE {},
                   ![c].bare = IF o \in call[c].ready THEN @ ELSE @ \ {o}]
  /\ UNCHANGED <<now, cookieVars, lockVars, refused>>

\* What is left makes no offer, and search returns.
Return(c) ==
  /\ call[c].pc = "emit"
  /\ Ends(c, "offers")
  /\ UNCHANGED <<now, cookieVars, lockVars, refused>>

\* The orchestrator has the result, and may search again.
Taken(c) ==
  /\ call[c].outcome # "none"
  /\ call' = [call EXCEPT ![c] = NoCall]
  /\ UNCHANGED <<now, cookieVars, lockVars, refused>>

CancelInLine(c) ==
  /\ call[c].pc # "idle"
  /\ call' = [call EXCEPT ![c] = NoCall]
  /\ lock' = IF lock = c THEN None ELSE lock
  /\ UNCHANGED <<now, cookieVars, line, refused>>

\* The client is gone, and the search is cancelled at its await.
Cancel(c) ==
  /\ call[c].pc # "idle"
  /\ call' = [call EXCEPT ![c] = NoCall]
  /\ lock' = IF lock = c THEN None ELSE lock
  /\ line' = RemoveFirst(line, c)
  /\ UNCHANGED <<now, cookieVars, refused>>

-----------------------------------------------------------------------------

Tick ==
  /\ now < Horizon
  /\ now' = now + 1
  /\ UNCHANGED <<cookieVars, lockVars, call, refused>>

\* The process ends and is started again: the file is what remains.
Crash ==
  /\ mem' = NoJar
  /\ lock' = None
  /\ line' = <<>>
  /\ call' = [c \in Calls |-> NoCall]
  /\ UNCHANGED <<now, file, born, exports, refused>>

Proceeds(c) ==
  \/ TakeLock(c)
  \/ WarmEnds(c)
  \/ WarmFails(c)
  \/ Answered(c)
  \/ Refused(c)
  \/ Escalates(c)
  \/ Fails(c)
  \/ Enrich(c)
  \/ Browse(c)
  \/ Emit(c)
  \/ Return(c)

Next ==
  \/ \E c \in Calls : Search(c) \/ Proceeds(c) \/ Taken(c) \/ Cancel(c)
  \/ Tick
  \/ Crash

Spec == Init /\ [][Next]_vars

\* The lock goes to the first in line, a warm-up ends one way or the other
\* (BrowserPool, AcquireEnds), and so does what is asked of Ozon.
Fairness == \A c \in Calls : WF_vars(Proceeds(c))

FairSpec == Spec /\ Fairness

-----------------------------------------------------------------------------
(***************************************************************************)
(* What the adapter promises.                                              *)
(***************************************************************************)

\* Search c is given the cookies of an export, for its first attempt.
Given(c) == call'[c].pc = "l1" /\ call[c].pc # "l1"

\* "retry with refreshed cookies": the second attempt is made with cookies
\* that were exported after those of the first, whoever else refreshes, loses
\* or reads them from disk meanwhile.
RetryFresh ==
  \A c \in Calls : call[c].pc \in {"l1again", "l2"} => call[c].with > call[c].first

\* "Warm the browser profile ONCE per TTL": no search starts with cookies
\* that are older, be it after a restart that read them from disk.
WithinTtl ==
  [][\A c \in Calls : Given(c) => now - born'[call'[c].with] < Ttl]_vars

\* Cookies that failed a search and were invalidated are handed out again
\* only if they are still in the file, which invalidate leaves alone.
RefusedOnlyFromDisk ==
  [][\A c \in Calls : Given(c) /\ call'[c].with \in refused =>
                        call'[c].with = file.export]_vars

\* What the orchestrator sees of a search.
Shown(r) == [emitted |-> r.emitted, outcome |-> r.outcome,
             returned |-> IF r.outcome = "offers" THEN r.out ELSE Never]

search == [c \in Calls |-> Shown(call[c])]

Protocol == INSTANCE Adapter WITH Offers <- Stubs

\* The adapter keeps the protocol that SearchStream relies on: what it
\* reports is what it returns, each offer once, however it was enriched.
ImplementsAdapter == Protocol!Spec

\* Every search ends: the warmer's lock is passed on by whoever has it.
SearchEnds == \A c \in Calls : call[c].pc # "idle" ~> call[c].pc = "idle"

=============================================================================
