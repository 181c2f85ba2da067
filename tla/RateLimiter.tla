---------------------------- MODULE RateLimiter ----------------------------
(***************************************************************************)
(* The token-bucket limiter of antibot/ratelimit.py, for one source.       *)
(*                                                                         *)
(* Every worker process holds one RateLimiter (api/cache.py), and every    *)
(* process runs several concurrent acquire() calls, the Callers.  The      *)
(* bucket of the source lives in Redis and is updated by one atomic Lua    *)
(* script; a process whose eval() fails forgets Redis for good and         *)
(* switches to a bucket of its own.                                        *)
(*                                                                         *)
(* An eval() is two steps: the caller reads the clock (the Lua argument    *)
(* `now`) and sends the command, and Redis executes it some time later.    *)
(* Commands of different callers may therefore reach Redis in another      *)
(* order than their clock readings.                                        *)
(*                                                                         *)
(* Units.  Time is in ticks, Minute of them to a minute.  Token amounts    *)
(* are multiplied by Minute, so that a bucket refills by the integer Rpm   *)
(* per tick, one request costs Minute, and the capacity of Rpm requests is *)
(* Rpm * Minute: the code's floating-point quantities, exactly.            *)
(*                                                                         *)
(* An operator that is used nowhere, like SleepUncapped, is the one that   *)
(* follows it with a mistake the code could well have made: put in its     *)
(* place, it shows which property would notice.                            *)
(***************************************************************************)
EXTENDS Integers

CONSTANTS
  Procs,     \* worker processes; one that is restarted counts as another
  Callers,   \* concurrent acquire() calls, over all processes
  ProcOf,    \* ProcOf[c]: the process that runs caller c
  Rpm,       \* requests per minute: the capacity and the refill basis
  Minute,    \* ticks per minute
  Poll,      \* longest single sleep of the acquire loop (1 s in the code)
  MaxWait,   \* max_wait_s, after which acquire gives up (30 s)
  Slack,     \* added to the key's time to live (1 s)
  Open,      \* when the window opens in which grants are counted
  Horizon    \* bound of the model: the clock stops there

ASSUME ProcOfAssumption == ProcOf \in [Callers -> Procs]
ASSUME RpmAssumption == Rpm \in Nat \ {0}
ASSUME TimeAssumption ==
  /\ Minute \in Nat \ {0}
  /\ Poll \in Nat \ {0}
  /\ MaxWait \in Nat
  /\ Poll <= MaxWait
  /\ Slack \in Nat
  /\ Open \in Nat
  /\ Horizon \in Nat

Cap == Rpm * Minute
Cost == Minute
Ttl == Minute + Slack

VARIABLES
  now,      \* the wall clock, shared by the processes and by Redis
  shared,   \* the Redis hash: tokens, ts, and when it was last written
  redis,    \* redis[p]: process p still talks to Redis (_redis is not None)
  local,    \* local[p]: the entry of p's _local dict
  call,     \* call[c]: where the acquire() of c stands
  \* What follows observes the limiter and never guards a step of it.
  gaveUp,   \* the callers that gave up in the last step
  since,    \* tokens granted by Redis since Open
  late,     \* total delay, from clock reading to execution, of those evals
  lsince    \* lsince[p]: tokens granted by p's own bucket since then

redisVars == <<shared, redis>>
ghosts == <<since, late, lsince>>
vars == <<now, shared, redis, local, call, gaveUp, since, late, lsince>>

Lesser(a, b) == IF a <= b THEN a ELSE b
Greater(a, b) == IF a >= b THEN a ELSE b

Bucket == [here: BOOLEAN, tokens: 0 .. Cap, ts: Nat]
SharedBucket == [here: BOOLEAN, tokens: 0 .. Cap, ts: Nat, written: Nat]
NoBucket == [here |-> FALSE, tokens |-> 0, ts |-> 0]
Idle == [pc |-> "idle", stamp |-> 0, wake |-> 0, deadline |-> 0]
Call == [pc: {"idle", "eval", "lost", "sleep"}, stamp: Nat, wake: Nat, deadline: Nat]

TypeOK ==
  /\ now \in Nat
  /\ shared \in SharedBucket
  /\ redis \in [Procs -> BOOLEAN]
  /\ local \in [Procs -> Bucket]
  /\ call \in [Callers -> Call]
  /\ gaveUp \subseteq Callers
  /\ since \in Nat
  /\ late \in Nat
  /\ lsince \in [Procs -> Nat]

LimiterInit ==
  /\ now = 0
  /\ shared = [here |-> FALSE, tokens |-> 0, ts |-> 0, written |-> 0]
  /\ redis = [p \in Procs |-> TRUE]
  /\ local = [p \in Procs |-> NoBucket]
  /\ call = [c \in Callers |-> Idle]
  /\ gaveUp = {}
  /\ since = 0
  /\ late = 0
  /\ lsince = [p \in Procs |-> 0]

-----------------------------------------------------------------------------
(***************************************************************************)
(* The bucket arithmetic, common to the script and to _consume_local.      *)
(***************************************************************************)

\* What bucket b holds at time t.  A bucket that is not there is full.
Refill(b, t) ==
  IF b.here THEN Lesser(Cap, b.tokens + Greater(0, t - b.ts) * Rpm) ELSE Cap

Grants(b, t) == Refill(b, t) >= Cost

Left(b, t) == IF Grants(b, t) THEN Refill(b, t) - Cost ELSE Refill(b, t)

ConsumedUnstamped(b, t) == [here |-> TRUE, ts |-> b.ts, tokens |-> Left(b, t)]

\* A process's own bucket b after a request at time t.
Consumed(b, t) == [here |-> TRUE, ts |-> t, tokens |-> Left(b, t)]

\* The ticks until bucket b, holding too little at time t, has a token.
WaitFor(b, t) == (Cost - Refill(b, t) + Rpm - 1) \div Rpm

\* The hash as the script finds it: gone once its time to live, counted by
\* Redis from the last write, has passed.
SharedNow == [shared EXCEPT !.here = @ /\ now < shared.written + Ttl]

SleepUncapped(b, t) == WaitFor(b, t)

SleepFor(b, t) == Lesser(WaitFor(b, t), Poll)

Observed == now >= Open

-----------------------------------------------------------------------------
(***************************************************************************)
(* The acquire loop.                                                       *)
(***************************************************************************)

ConcludeForever(c, b, t, deadline) ==
  /\ call' = [call EXCEPT ![c] =
                 IF Grants(b, t) THEN Idle
                 ELSE [pc |-> "sleep", stamp |-> 0,
                       wake |-> now + SleepFor(b, t), deadline |-> deadline]]
  /\ gaveUp' = {}

\* What acquire does with the answer of a bucket b consulted for time t:
\* return with the token, give up and return without one, or sleep.
Conclude(c, b, t, deadline) ==
  \/ /\ Grants(b, t)
     /\ call' = [call EXCEPT ![c] = Idle]
     /\ gaveUp' = {}
  \/ /\ ~Grants(b, t)
     /\ now + SleepFor(b, t) > deadline
     /\ call' = [call EXCEPT ![c] = Idle]
     /\ gaveUp' = {c}
  \/ /\ ~Grants(b, t)
     /\ now + SleepFor(b, t) <= deadline
     /\ call' = [call EXCEPT ![c] = [pc |-> "sleep", stamp |-> 0,
                     wake |-> now + SleepFor(b, t), deadline |-> deadline]]
     /\ gaveUp' = {}

\* _consume_local: no await between the reads and the writes, so one step.
ConsumeLocal(c, deadline) ==
  LET p == ProcOf[c]
  IN  /\ Conclude(c, local[p], now, deadline)
      /\ local' = [local EXCEPT ![p] = Consumed(local[p], now)]
      /\ lsince' = IF Grants(local[p], now) /\ Observed
                   THEN [lsince EXCEPT ![p] = @ + 1]
                   ELSE lsince
      /\ UNCHANGED <<now, since, late>>

\* One round of the loop: read the clock and send the script, or consume
\* from the process's own bucket when Redis has been given up.
Attempt(c, deadline) ==
  \/ /\ redis[ProcOf[c]]
     /\ call' = [call EXCEPT ![c] = [pc |-> "eval", stamp |-> now,
                                     wake |-> 0, deadline |-> deadline]]
     /\ gaveUp' = {}
     /\ UNCHANGED <<now, shared, redis, local, ghosts>>
  \/ /\ ~redis[ProcOf[c]]
     /\ ConsumeLocal(c, deadline)
     /\ UNCHANGED redisVars

\* acquire is called.  Horizon bounds the calls to those whose deadline
\* the clock of the model reaches.
Acquire(c) ==
  /\ call[c].pc = "idle"
  /\ now + MaxWait <= Horizon
  /\ Attempt(c, now + MaxWait)

\* The sleep is over and the loop starts another round.
Wake(c) ==
  /\ call[c].pc = "sleep"
  /\ now >= call[c].wake
  /\ Attempt(c, call[c].deadline)

-----------------------------------------------------------------------------
(***************************************************************************)
(* The script.                                                             *)
(***************************************************************************)

RunScriptLocalClock(stamp) ==
  /\ shared' = [here |-> TRUE, ts |-> shared.ts, written |-> now,
                tokens |-> Left(SharedNow, stamp)]
  /\ since' = IF Grants(SharedNow, stamp) /\ Observed THEN since + 1 ELSE since
  /\ late' = IF Observed THEN late + (now - stamp) ELSE late

\* The script executes with the caller's clock reading.
RunScript(stamp) ==
  /\ shared' = [here |-> TRUE, ts |-> stamp, written |-> now,
                tokens |-> Left(SharedNow, stamp)]
  /\ since' = IF Grants(SharedNow, stamp) /\ Observed THEN since + 1 ELSE since
  /\ late' = IF Observed THEN late + (now - stamp) ELSE late

\* Redis executes the script and the answer reaches the caller.
EvalReplies(c) ==
  /\ call[c].pc = "eval"
  /\ Conclude(c, SharedNow, call[c].stamp, call[c].deadline)
  /\ RunScript(call[c].stamp)
  /\ UNCHANGED <<now, redis, local, lsince>>

\* The script runs, and the connection breaks before its answer arrives: the
\* token it took is gone.
EvalReplyLost(c) ==
  /\ call[c].pc = "eval"
  /\ RunScript(call[c].stamp)
  /\ call' = [call EXCEPT ![c].pc = "lost"]
  /\ gaveUp' = {}
  /\ UNCHANGED <<now, redis, local, lsince>>

\* eval raises, whether or not the script ran: Redis is forgotten for good
\* and this very round is served from the process's own bucket.
EvalFails(c) ==
  /\ call[c].pc \in {"eval", "lost"}
  /\ redis' = [redis EXCEPT ![ProcOf[c]] = FALSE]
  /\ ConsumeLocal(c, call[c].deadline)
  /\ UNCHANGED shared

-----------------------------------------------------------------------------
(***************************************************************************)
(* The environment.                                                        *)
(***************************************************************************)

Tick ==
  /\ now < Horizon
  /\ now' = now + 1
  /\ gaveUp' = {}
  /\ UNCHANGED <<shared, redis, local, call, ghosts>>

LimiterNext ==
  \/ Tick
  \/ \E c \in Callers :
        \/ Acquire(c)
        \/ Wake(c)
        \/ EvalReplies(c)
        \/ EvalFails(c)
        \/ EvalReplyLost(c)

LimiterSpec == LimiterInit /\ [][LimiterNext]_vars

\* Time passes, a sleep ends, and an eval() returns or raises.
LimiterFairness ==
  /\ WF_vars(Tick)
  /\ \A c \in Callers :
        /\ WF_vars(Wake(c))
        /\ WF_vars(EvalReplies(c) \/ EvalFails(c))

LimiterFairSpec == LimiterSpec /\ LimiterFairness

-----------------------------------------------------------------------------
(***************************************************************************)
(* What the limiter promises.                                              *)
(***************************************************************************)

\* "one budget, not N x budget" (api/cache.py): in any window the workers
\* together get from Redis no more than one burst and the refill of the
\* window.  Exactly that only when eval() takes no time: a clock reading
\* that is d ticks old when the script runs can refill those d ticks twice,
\* since the script moves ts back to it.
SharedBudget ==
  now >= Open => since * Minute <= Cap + Rpm * (now - Open + late)

\* A process that lost Redis stays within a budget of its own.
LocalBudget ==
  now >= Open =>
    \A p \in Procs : lsince[p] * Minute <= Cap + Rpm * (now - Open)

\* A request goes out without a token only when its caller has waited, less
\* one poll at most, for all of max_wait_s.
PatientGiveUp ==
  [][\A c \in gaveUp' :
       call[c].pc # "idle" /\ now + Poll > call[c].deadline]_vars

\* acquire never stalls a search: every call returns, by its deadline if the
\* event loop and Redis are not late, however its rivals drain the buckets.
AcquireReturns ==
  \A c \in Callers : call[c].pc # "idle" ~> call[c].pc = "idle"

=============================================================================
