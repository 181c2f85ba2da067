----------------------------- MODULE QueryIntake -----------------------------
(***************************************************************************)
(* How a request comes by its Redis client and its normalised query:       *)
(* get_search_cache of api/cache.py, the first thing every search route    *)
(* awaits, and normalize_query of enrichment/normalize.py with the         *)
(* spellcheck service's client, for requests with the same query.          *)
(*                                                                         *)
(* The client is made by the first request under a lock and pinged; if the *)
(* ping fails the process does without for good.  A normalised query is    *)
(* kept for a day, also one that was made while the service was down.      *)
(***************************************************************************)
EXTENDS Naturals, Sequences

CONSTANTS
  Requests,    \* concurrent requests, each made again and again
  Nobody,      \* the lock is free
  Lifetime,    \* _CACHE_TTL_S, in ticks
  MaxClients   \* bound of the model: clients made by one process

ASSUME IntakeAssumption ==
  Nobody \notin Requests /\ Lifetime \in Nat \ {0} /\ MaxClients \in Nat

VARIABLE intake  \* the process, its requests, and what Redis has of the query

Clients == 1 .. MaxClients

Request == [pc: {"idle", "line", "ping", "close", "get", "spell", "set", "done", "failed"},
            client: 0 .. MaxClients,            \* the one it was given (0: none)
            query: {"none", "full", "degraded"}]  \* what it searches for

\* The entry of the query: complete, made without the service, or such that
\* NormalizedQuery refuses it; and its age.
Entry == [what: {"none", "full", "degraded", "broken"}, age: 0 .. Lifetime]

Intake == [cache: 0 .. MaxClients,   \* _cache (0: None)
           failed: BOOLEAN,          \* _cache_failed
           holder: Requests \cup {Nobody}, line: Seq(Requests),  \* _cache_lock
           client: [Clients -> {"unmade", "open", "closed"}],
           request: [Requests -> Request],
           entry: Entry,
           spell: BOOLEAN]           \* whether the spellcheck service answers

NoRequest == [pc |-> "idle", client |-> 0, query |-> "none"]
NoEntry == [what |-> "none", age |-> 0]

IntakeTypeOK == intake \in Intake

IntakeInit ==
  \E what \in {"none", "broken"}, up \in BOOLEAN :
    intake = [cache |-> 0, failed |-> FALSE, holder |-> Nobody, line |-> <<>>,
              client |-> [n \in Clients |-> "unmade"],
              request |-> [r \in Requests |-> NoRequest],
              entry |-> [what |-> what, age |-> 0], spell |-> up]

InPlace(r, pc) == intake.request[r].pc = pc

-----------------------------------------------------------------------------
(***************************************************************************)
(* The client.                                                             *)
(***************************************************************************)

Settled == intake.cache # 0 \/ intake.failed

\* A request goes on with client n or, n being 0, without one.
GoesOn(n) == [pc |-> IF n = 0 THEN "spell" ELSE "get", client |-> n, query |-> "none"]

Unmade == {n \in Clients : intake.client[n] = "unmade"}

\* RedisCache(...) is made, and pinged with the lock held.
MakesClient(r, line) ==
  \E n \in Unmade :
    /\ \A m \in Unmade : n <= m
    /\ intake' = [intake EXCEPT !.holder = r, !.line = line, !.client[n] = "open",
                    !.request[r] = [pc |-> "ping", client |-> n, query |-> "none"]]

\* get_search_cache, up to its first await.
AsksForCache(r) ==
  /\ intake.request[r] = NoRequest
  /\ \/ /\ Settled
        /\ intake' = [intake EXCEPT !.request[r] = GoesOn(intake.cache)]
     \/ /\ ~Settled /\ intake.holder = Nobody /\ intake.line = <<>>
        /\ MakesClient(r, <<>>)
     \/ /\ ~Settled /\ (intake.holder # Nobody \/ intake.line # <<>>)
        /\ intake' = [intake EXCEPT !.line = Append(@, r), !.request[r].pc = "line"]

FoundUnchecked == FALSE

\* "double-check under the lock".
FoundSettled == Settled

\* The lock is passed to the first in the line.
HasLock(r) ==
  /\ intake.holder = Nobody
  /\ intake.line # <<>> /\ r = Head(intake.line)
  /\ \/ /\ FoundSettled
        /\ intake' = [intake EXCEPT !.line = Tail(@), !.request[r] = GoesOn(intake.cache)]
     \/ /\ ~FoundSettled
        /\ MakesClient(r, Tail(intake.line))

PingAnswered(r) ==
  /\ InPlace(r, "ping")
  /\ LET n == intake.request[r].client IN
       intake' = [intake EXCEPT !.cache = n, !.holder = Nobody,
                                !.request[r] = GoesOn(n)]

\* The flag is set before the client is closed, with the lock held still.
PingFails(r) ==
  /\ InPlace(r, "ping")
  /\ intake' = [intake EXCEPT !.failed = TRUE, !.request[r].pc = "close"]

Closed(r) ==
  /\ InPlace(r, "close")
  /\ LET n == intake.request[r].client IN
       intake' = [intake EXCEPT !.client[n] = "closed", !.holder = Nobody,
                                !.request[r] = GoesOn(0)]

-----------------------------------------------------------------------------
(***************************************************************************)
(* The query.                                                              *)
(***************************************************************************)

HitRefreshing == [intake.entry EXCEPT !.age = 0]

\* What a hit leaves in Redis: the entry as it is, its time running on.
HitLeaves == intake.entry

\* The entry is read.  A failure of Redis is a miss, but an entry that does
\* not validate is the end of the request.
GetEnds(r) ==
  /\ InPlace(r, "get")
  /\ \/ /\ intake.entry.what \in {"full", "degraded"}
        /\ intake' = [intake EXCEPT !.entry = HitLeaves, !.request[r].pc = "done",
                                    !.request[r].query = intake.entry.what]
     \/ /\ intake.entry.what = "broken"
        /\ intake' = [intake EXCEPT !.request[r].pc = "failed"]
     \/ intake' = [intake EXCEPT !.request[r].pc = "spell"]

\* SpellCheckClient.fix has an answer, or the text stays as it was.
SpellEnds(r) ==
  /\ InPlace(r, "spell")
  /\ intake' = [intake EXCEPT !.request[r].query = IF intake.spell THEN "full" ELSE "degraded",
                  !.request[r].pc = IF intake.request[r].client = 0 THEN "done" ELSE "set"]

\* _maybe_store, which may come to nothing.
SetEnds(r) ==
  /\ InPlace(r, "set")
  /\ \E entry \in {intake.entry, [what |-> intake.request[r].query, age |-> 0]} :
        intake' = [intake EXCEPT !.entry = entry, !.request[r].pc = "done"]

-----------------------------------------------------------------------------

RequestOver(r) ==
  /\ intake.request[r].pc \in {"done", "failed"}
  /\ intake' = [intake EXCEPT !.request[r] = NoRequest]

\* The client of an event stream is gone, and its request is cancelled where
\* it awaits: `except Exception` does not see that, so that a Redis client
\* that is being pinged or closed stays as it is, and the lock is let go.
RequestCancelled(r) ==
  /\ intake.request[r].pc \in {"line", "ping", "close", "get", "spell", "set"}
  /\ intake' = [intake EXCEPT !.request[r] = NoRequest,
                  !.holder = IF @ = r THEN Nobody ELSE @,
                  !.line = SelectSeq(@, LAMBDA q : q # r)]

\* A day passes by ticks; Redis drops the entry at its end.
EntryAges ==
  /\ intake.entry.what # "none"
  /\ intake' = [intake EXCEPT !.entry =
                  IF @.age + 1 = Lifetime THEN NoEntry ELSE [@ EXCEPT !.age = @ + 1]]

SpellChanges == intake' = [intake EXCEPT !.spell = ~@]

\* The process ends and is started again; the entry is still there.
IntakeRestart ==
  /\ intake' = [intake EXCEPT !.cache = 0, !.failed = FALSE, !.holder = Nobody, !.line = <<>>,
                  !.client = [n \in Clients |-> "unmade"],
                  !.request = [r \in Requests |-> NoRequest]]

Handles(r) ==
  \/ HasLock(r)
  \/ PingAnswered(r)
  \/ PingFails(r)
  \/ Closed(r)
  \/ GetEnds(r)
  \/ SpellEnds(r)
  \/ SetEnds(r)

IntakeNext ==
  \/ \E r \in Requests :
        AsksForCache(r) \/ Handles(r) \/ RequestOver(r) \/ RequestCancelled(r)
  \/ EntryAges
  \/ SpellChanges
  \/ IntakeRestart

IntakeSpec == IntakeInit /\ [][IntakeNext]_intake

\* Time passes.
IntakeFairness == WF_intake(EntryAges)

-----------------------------------------------------------------------------

Given == {r \in Requests : intake.request[r].pc \in {"get", "set"}}

\* "Two concurrent first requests never produce two clients": the requests
\* that use a client all use the process's one, which is open; while a client
\* is pinged there is no other in use; and a request goes without only after
\* a ping of this process had failed, from when on all of them do.
OneClient ==
  /\ \A r \in Given : /\ intake.request[r].client = intake.cache
                      /\ intake.client[intake.cache] = "open"
  /\ \A r \in Requests : InPlace(r, "ping") => ~Settled /\ intake.holder = r
  /\ \A r \in Requests :
        intake.request[r].pc \in {"spell", "done"} /\ intake.request[r].client = 0 =>
          intake.failed
  /\ intake.failed => intake.cache = 0

\* An outage of the spellcheck service passes: if it stays up from some time
\* on, then from some time on nobody finds a query that was made without it,
\* however often the query is asked for meanwhile.
OutagePasses ==
  <>[](intake.spell) => <>[](intake.entry.what # "degraded")

=============================================================================
