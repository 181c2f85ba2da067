------------------------ MODULE RateLimiter_proofs ------------------------
(***************************************************************************)
(* Proofs about RateLimiter, for any number of processes and callers, any  *)
(* rate, any clock granularity and any observed window.                    *)
(***************************************************************************)
EXTENDS RateLimiter, TLAPS

USE ProcOfAssumption, RpmAssumption, TimeAssumption

(***************************************************************************)
(* Multiplication by Rpm, the only arithmetic below that is not linear.    *)
(***************************************************************************)

LEMMA RpmDistributes ==
  ASSUME NEW x \in Int, NEW y \in Int
  PROVE  Rpm * (x + y) = Rpm * x + Rpm * y
OBVIOUS

LEMMA RpmMonotone ==
  ASSUME NEW x \in Int, NEW y \in Int, x <= y
  PROVE  Rpm * x <= Rpm * y
OBVIOUS

LEMMA CapFacts == Cap \in Nat /\ Cost \in Nat /\ Cost <= Cap /\ Ttl \in Nat
BY DEF Cap, Cost, Ttl

(***************************************************************************)
(* A bucket never holds more than its capacity, and refills by at most Rpm *)
(* per tick.                                                               *)
(***************************************************************************)

LEMMA RefillFacts ==
  ASSUME NEW b, b.here \in BOOLEAN, b.tokens \in 0 .. Cap, b.ts \in Nat,
         NEW t \in Nat
  PROVE  /\ Refill(b, t) \in 0 .. Cap
         /\ Left(b, t) \in 0 .. Cap
         /\ Grants(b, t) => Left(b, t) = Refill(b, t) - Cost
         /\ ~Grants(b, t) => Left(b, t) = Refill(b, t)
         /\ b.here /\ t >= b.ts =>
              Refill(b, t) <= b.tokens + Rpm * (t - b.ts)
         /\ b.here /\ t < b.ts => Refill(b, t) = b.tokens
<1>1. Greater(0, t - b.ts) \in Nat
  BY DEF Greater
<1>2. Greater(0, t - b.ts) * Rpm \in Nat
  BY <1>1
<1>3. Refill(b, t) \in 0 .. Cap
  BY <1>2, CapFacts DEF Refill, Lesser
<1>4. Left(b, t) \in 0 .. Cap
  BY <1>3, CapFacts DEF Left, Grants
<1>5. ASSUME b.here, t >= b.ts
      PROVE  Refill(b, t) <= b.tokens + Rpm * (t - b.ts)
  <2>1. Greater(0, t - b.ts) = t - b.ts
    BY <1>5 DEF Greater
  <2>2. (t - b.ts) * Rpm = Rpm * (t - b.ts)
    OBVIOUS
  <2>3. QED
    BY <1>5, <2>1, <2>2, <1>2, CapFacts DEF Refill, Lesser
<1>6. ASSUME b.here, t < b.ts
      PROVE  Refill(b, t) = b.tokens
  <2>1. Greater(0, t - b.ts) = 0
    BY <1>6 DEF Greater
  <2>2. QED
    BY <1>6, <2>1, CapFacts DEF Refill, Lesser
<1>7. QED
  BY <1>3, <1>4, <1>5, <1>6 DEF Left

LEMMA SleepFacts ==
  ASSUME NEW b, b.here \in BOOLEAN, b.tokens \in 0 .. Cap, b.ts \in Nat,
         NEW t \in Nat, ~Grants(b, t)
  PROVE  SleepFor(b, t) \in 0 .. Poll
<1>0. Refill(b, t) \in 0 .. Cap
  BY RefillFacts
<1>1. Refill(b, t) \in 0 .. Cap /\ Refill(b, t) < Cost
  BY <1>0, CapFacts DEF Grants
<1> DEFINE n == Cost - Refill(b, t) + Rpm - 1
<1>2. n \in Nat
  BY <1>1, CapFacts
<1>3. n \div Rpm \in Nat
  <2> HIDE DEF n
  <2> QED BY <1>2
<1>4. QED
  BY <1>3 DEF SleepFor, WaitFor, Lesser

(***************************************************************************)
(* Whatever acquire does with an answer, the calls stay well formed and no *)
(* call enters Redis.                                                      *)
(***************************************************************************)

InRedis(c) == call[c].pc \in {"eval", "lost"}

LEMMA ConcludeFacts ==
  ASSUME TypeOK, NEW c \in Callers, NEW deadline \in Nat,
         NEW STATE b, b.here \in BOOLEAN, b.tokens \in 0 .. Cap, b.ts \in Nat,
         NEW STATE t, t \in Nat,
         Conclude(c, b, t, deadline)
  PROVE  /\ call' \in [Callers -> Call]
         /\ gaveUp' \subseteq Callers
         /\ \A k \in Callers : InRedis(k)' =>
              InRedis(k) /\ call'[k].stamp = call[k].stamp
<1>1. CASE call' = [call EXCEPT ![c] = Idle]
  BY <1>1 DEF Conclude, TypeOK, Call, Idle, InRedis
<1>2. CASE /\ ~Grants(b, t)
           /\ call' = [call EXCEPT ![c] = [pc |-> "sleep", stamp |-> 0,
                           wake |-> now + SleepFor(b, t),
                           deadline |-> deadline]]
  <2>1. SleepFor(b, t) \in Nat
    BY <1>2, SleepFacts
  <2>2. now + SleepFor(b, t) \in Nat
    BY <2>1 DEF TypeOK
  <2>3. QED
    BY <1>2, <2>2 DEF Conclude, TypeOK, Call, InRedis
<1>3. gaveUp' \subseteq Callers
  BY DEF Conclude
<1>4. QED
  BY <1>1, <1>2, <1>3 DEF Conclude

LEMMA SharedNowFacts ==
  ASSUME TypeOK
  PROVE  /\ SharedNow \in SharedBucket
         /\ SharedNow.here \in BOOLEAN
         /\ SharedNow.tokens \in 0 .. Cap
         /\ SharedNow.ts \in Nat
         /\ SharedNow.tokens = shared.tokens
         /\ SharedNow.ts = shared.ts
         /\ SharedNow.here <=> shared.here /\ now < shared.written + Ttl
BY CapFacts DEF TypeOK, SharedBucket, SharedNow

(***************************************************************************)
(* Type correctness, with the ordering of the clock readings that it       *)
(* needs: a reading is never ahead of the clock.                           *)
(***************************************************************************)

Clocks ==
  /\ shared.ts <= shared.written /\ shared.written <= now
  /\ \A p \in Procs : local[p].ts <= now
  /\ \A c \in Callers : InRedis(c) => call[c].stamp <= now

TypeInv == TypeOK /\ Clocks

LEMMA ConsumeLocalTypeInv ==
  ASSUME TypeInv, NEW c \in Callers, NEW deadline \in Nat,
         ConsumeLocal(c, deadline), UNCHANGED shared,
         redis' \in [Procs -> BOOLEAN]
  PROVE  TypeInv'
<1> USE DEF TypeInv, TypeOK
<1>1. PICK p \in Procs : p = ProcOf[c]
  OBVIOUS
<1>2. /\ local[p].here \in BOOLEAN
      /\ local[p].tokens \in 0 .. Cap
      /\ local[p].ts \in Nat
  BY DEF Bucket
<1>3. Left(local[p], now) \in 0 .. Cap
  BY <1>2, RefillFacts
<1>4. local' = [local EXCEPT ![p] = [here |-> TRUE, ts |-> now,
                                     tokens |-> Left(local[p], now)]]
  BY <1>1 DEF ConsumeLocal, Consumed
<1>5. local' \in [Procs -> Bucket]
  BY <1>3, <1>4 DEF Bucket
<1>6. lsince' \in [Procs -> Nat]
  BY <1>1 DEF ConsumeLocal
<1>7. Conclude(c, local[p], now, deadline)
  BY <1>1 DEF ConsumeLocal
<1>8. /\ call' \in [Callers -> Call]
      /\ gaveUp' \subseteq Callers
      /\ \A k \in Callers : InRedis(k)' =>
            InRedis(k) /\ call'[k].stamp = call[k].stamp
  BY <1>2, <1>7, ConcludeFacts
<1>9. now' = now /\ since' = since /\ late' = late
  BY DEF ConsumeLocal
<1>10. TypeOK'
  BY <1>5, <1>6, <1>8, <1>9
<1>11. Clocks'
  BY <1>4, <1>8, <1>9 DEF Clocks, InRedis
<1>12. QED
  BY <1>10, <1>11

LEMMA AttemptTypeInv ==
  ASSUME TypeInv, NEW c \in Callers, NEW deadline \in Nat,
         Attempt(c, deadline)
  PROVE  TypeInv'
<1>1. CASE /\ call' = [call EXCEPT ![c] = [pc |-> "eval", stamp |-> now,
                                           wake |-> 0, deadline |-> deadline]]
           /\ gaveUp' = {}
           /\ UNCHANGED <<now, shared, redis, local, ghosts>>
  <2>1. call' \in [Callers -> Call]
    BY <1>1 DEF TypeInv, TypeOK, Call
  <2>2. TypeOK'
    BY <1>1, <2>1 DEF TypeInv, TypeOK, ghosts
  <2>3. Clocks'
    BY <1>1 DEF TypeInv, TypeOK, Clocks, InRedis, Call
  <2>4. QED
    BY <2>2, <2>3 DEF TypeInv
<1>2. CASE ConsumeLocal(c, deadline) /\ UNCHANGED redisVars
  BY <1>2, ConsumeLocalTypeInv DEF redisVars, TypeInv, TypeOK
<1>3. QED
  BY <1>1, <1>2 DEF Attempt

LEMMA RunScriptFacts ==
  ASSUME TypeInv, NEW c \in Callers, InRedis(c), RunScript(call[c].stamp),
         UNCHANGED now
  PROVE  /\ shared' \in SharedBucket
         /\ shared'.ts <= shared'.written /\ shared'.written <= now'
         /\ since' \in Nat
         /\ late' \in Nat
<1> DEFINE s == call[c].stamp
<1>1. s \in Nat /\ s <= now /\ now \in Nat
  BY DEF TypeInv, TypeOK, Clocks, Call
<1>2. Left(SharedNow, s) \in 0 .. Cap
  BY <1>1, SharedNowFacts, RefillFacts DEF TypeInv
<1>3. shared' = [here |-> TRUE, ts |-> s, written |-> now,
                 tokens |-> Left(SharedNow, s)]
  BY DEF RunScript
<1>4. since' \in Nat /\ late' \in Nat
  BY <1>1 DEF RunScript, TypeInv, TypeOK
<1>5. QED
  BY <1>1, <1>2, <1>3, <1>4 DEF SharedBucket

LEMMA TypeInvStep == TypeInv /\ [LimiterNext]_vars => TypeInv'
<1> SUFFICES ASSUME TypeInv, [LimiterNext]_vars
             PROVE  TypeInv'
  OBVIOUS
<1>1. CASE Tick
  <2>1. TypeOK'
    BY <1>1 DEF Tick, TypeInv, TypeOK, ghosts
  <2>2. Clocks'
    BY <1>1 DEF Tick, TypeInv, TypeOK, Clocks, InRedis, Call, Bucket,
                SharedBucket
  <2>3. QED
    BY <2>1, <2>2 DEF TypeInv
<1>2. ASSUME NEW c \in Callers, Acquire(c)
      PROVE  TypeInv'
  <2>1. now + MaxWait \in Nat
    BY DEF TypeInv, TypeOK
  <2>2. QED
    BY <1>2, <2>1, AttemptTypeInv DEF Acquire
<1>3. ASSUME NEW c \in Callers, Wake(c)
      PROVE  TypeInv'
  <2>1. call[c].deadline \in Nat
    BY DEF TypeInv, TypeOK, Call
  <2>2. PICK d \in Nat : d = call[c].deadline
    BY <2>1
  <2>3. Attempt(c, d)
    BY <1>3, <2>2 DEF Wake
  <2>4. QED
    BY <2>3, AttemptTypeInv
<1>4. ASSUME NEW c \in Callers, EvalReplies(c)
      PROVE  TypeInv'
  <2>1. InRedis(c) /\ RunScript(call[c].stamp) /\ UNCHANGED now
    BY <1>4 DEF EvalReplies, InRedis
  <2>2. /\ shared' \in SharedBucket
        /\ shared'.ts <= shared'.written /\ shared'.written <= now'
        /\ since' \in Nat
        /\ late' \in Nat
    BY <2>1, RunScriptFacts
  <2>3. call[c].deadline \in Nat /\ call[c].stamp \in Nat
    BY DEF TypeInv, TypeOK, Call
  <2>4. PICK d \in Nat : d = call[c].deadline
    BY <2>3
  <2>5. Conclude(c, SharedNow, call[c].stamp, d)
    BY <1>4, <2>4 DEF EvalReplies
  <2>6. /\ call' \in [Callers -> Call]
        /\ gaveUp' \subseteq Callers
        /\ \A k \in Callers : InRedis(k)' =>
              InRedis(k) /\ call'[k].stamp = call[k].stamp
    <3>1. TypeOK
      BY DEF TypeInv
    <3>2. /\ SharedNow.here \in BOOLEAN
          /\ SharedNow.tokens \in 0 .. Cap
          /\ SharedNow.ts \in Nat
      BY <3>1, SharedNowFacts
    <3>3. QED
      BY <3>1, <3>2, <2>3, <2>5, ConcludeFacts
  <2>7. TypeOK'
    BY <1>4, <2>2, <2>6 DEF EvalReplies, TypeInv, TypeOK
  <2>8. Clocks'
    BY <1>4, <2>2, <2>6 DEF EvalReplies, TypeInv, TypeOK, Clocks, InRedis
  <2>9. QED
    BY <2>7, <2>8 DEF TypeInv
<1>5. ASSUME NEW c \in Callers, EvalReplyLost(c)
      PROVE  TypeInv'
  <2>1. InRedis(c) /\ RunScript(call[c].stamp) /\ UNCHANGED now
    BY <1>5 DEF EvalReplyLost, InRedis
  <2>2. /\ shared' \in SharedBucket
        /\ shared'.ts <= shared'.written /\ shared'.written <= now'
        /\ since' \in Nat
        /\ late' \in Nat
    BY <2>1, RunScriptFacts
  <2>3. TypeOK'
    BY <1>5, <2>2 DEF EvalReplyLost, TypeInv, TypeOK, Call
  <2>4. Clocks'
    BY <1>5, <2>2 DEF EvalReplyLost, TypeInv, TypeOK, Clocks, InRedis, Call
  <2>5. QED
    BY <2>3, <2>4 DEF TypeInv
<1>6. ASSUME NEW c \in Callers, EvalFails(c)
      PROVE  TypeInv'
  <2>1. redis' \in [Procs -> BOOLEAN]
    BY <1>6 DEF EvalFails, TypeInv, TypeOK
  <2>2. call[c].deadline \in Nat
    BY DEF TypeInv, TypeOK, Call
  <2>3. PICK d \in Nat : d = call[c].deadline
    BY <2>2
  <2>4. ConsumeLocal(c, d) /\ UNCHANGED shared
    BY <1>6, <2>3 DEF EvalFails
  <2>5. QED
    BY <2>1, <2>4, ConsumeLocalTypeInv
<1>7. CASE UNCHANGED vars
  BY <1>7 DEF vars, TypeInv, TypeOK, Clocks, InRedis
<1>8. QED
  BY <1>1, <1>2, <1>3, <1>4, <1>5, <1>6, <1>7 DEF LimiterNext

\* Type correctness of the limiter.
THEOREM TypeCorrect == LimiterSpec => []TypeOK
<1>1. LimiterInit => TypeInv
  BY CapFacts DEF LimiterInit, TypeInv, TypeOK, Clocks, InRedis, SharedBucket, Bucket,
                  Call, Idle, NoBucket
<1>2. TypeInv => TypeOK
  BY DEF TypeInv
<1>3. QED
  BY <1>1, <1>2, TypeInvStep, PTL DEF LimiterSpec

-----------------------------------------------------------------------------
(***************************************************************************)
(* The budget.  The bound on the tokens granted is not inductive: a bucket *)
(* that is full at the wrong moment would break it.  What every step       *)
(* preserves is that the tokens granted plus those still in the bucket are *)
(* within one burst and the refill up to the bucket's own ts.              *)
(***************************************************************************)

SharedCount ==
  since > 0 =>
    /\ now >= Open
    /\ shared.here
    /\ since * Minute + shared.tokens <= Cap + Rpm * (shared.ts - Open + late)

LocalCount(p) ==
  lsince[p] > 0 =>
    /\ now >= Open
    /\ local[p].here
    /\ lsince[p] * Minute + local[p].tokens
         <= Cap + Rpm * (local[p].ts - Open)

Inv == TypeInv /\ SharedCount /\ \A p \in Procs : LocalCount(p)

\* The script keeps the count: a clock reading that is d ticks old refills
\* d ticks too many at most, and an expired key only what had refilled.
LEMMA RunScriptKeepsCount ==
  ASSUME TypeInv, SharedCount, NEW s \in Nat, s <= now,
         RunScript(s), UNCHANGED now
  PROVE  SharedCount'
<1> DEFINE r == Refill(SharedNow, s)
<1>1. /\ now \in Nat /\ since \in Nat /\ late \in Nat
      /\ shared.ts \in Nat /\ shared.written \in Nat
      /\ shared.ts <= shared.written /\ shared.written <= now
      /\ shared.tokens \in 0 .. Cap
  BY DEF TypeInv, TypeOK, Clocks, SharedBucket
<1>2. /\ SharedNow.here \in BOOLEAN
      /\ SharedNow.tokens \in 0 .. Cap
      /\ SharedNow.ts \in Nat
      /\ SharedNow.tokens = shared.tokens
      /\ SharedNow.ts = shared.ts
      /\ SharedNow.here <=> shared.here /\ now < shared.written + Ttl
  BY SharedNowFacts DEF TypeInv
<1>3. /\ r \in 0 .. Cap
      /\ Grants(SharedNow, s) => Left(SharedNow, s) = r - Cost
      /\ ~Grants(SharedNow, s) => Left(SharedNow, s) = r
      /\ SharedNow.here /\ s >= shared.ts =>
           r <= shared.tokens + Rpm * (s - shared.ts)
      /\ SharedNow.here /\ s < shared.ts => r = shared.tokens
  BY <1>2, RefillFacts
<1>4. /\ shared'.here /\ shared'.ts = s
      /\ shared'.tokens = Left(SharedNow, s)
  BY DEF RunScript
<1>5. SUFFICES ASSUME since' > 0
               PROVE  /\ now >= Open
                      /\ since' * Minute + shared'.tokens
                           <= Cap + Rpm * (now - Open + late)
  <2>1. now >= Open => late' = late + (now - s)
    BY DEF RunScript, Observed
  <2>2. now >= Open => s - Open + late' = now - Open + late
    BY <1>1, <2>1
  <2>3. QED
    BY <1>4, <1>5, <2>2 DEF SharedCount
<1>6. now >= Open
  BY <1>1, <1>5 DEF RunScript, Observed, SharedCount
<1>7. since' * Minute + shared'.tokens = since * Minute + r
  <2>1. CASE Grants(SharedNow, s)
    <3>1. since' = since + 1 /\ shared'.tokens = r - Minute
      BY <1>3, <1>4, <1>6, <2>1 DEF RunScript, Observed, Cost
    <3>2. (since + 1) * Minute = since * Minute + Minute
      BY <1>1
    <3>3. QED
      BY <1>1, <1>3, <3>1, <3>2
  <2>2. CASE ~Grants(SharedNow, s)
    BY <1>3, <1>4, <2>2 DEF RunScript
  <2>3. QED
    BY <2>1, <2>2
<1>8. CASE since = 0
  <2>1. Rpm * (now - Open + late) >= 0
    BY <1>1, <1>6
  <2>2. QED
    BY <1>1, <1>3, <1>6, <1>7, <1>8, <2>1, CapFacts
<1>9. CASE since > 0
  <2>1. since * Minute + shared.tokens
          <= Cap + Rpm * (shared.ts - Open + late)
    BY <1>9 DEF SharedCount
  <2>2. shared.here
    BY <1>9 DEF SharedCount
  <2> DEFINE k == since * Minute
  <2>3. k \in Nat
    BY <1>1
  <2> HIDE DEF k, r
  <2>4. CASE SharedNow.here /\ s >= shared.ts
    <3>1. Rpm * (shared.ts - Open + late) + Rpm * (s - shared.ts)
            = Rpm * (s - Open + late)
      BY <1>1, RpmDistributes
    <3>2. Rpm * (s - Open + late) <= Rpm * (now - Open + late)
      BY <1>1, RpmMonotone
    <3>3. r <= shared.tokens + Rpm * (s - shared.ts)
      BY <1>3, <2>4
    <3>4. k + r <= Cap + Rpm * (now - Open + late)
      BY <1>1, <1>3, <2>1, <2>3, <3>1, <3>2, <3>3, CapFacts DEF k
    <3>5. QED
      BY <1>6, <1>7, <3>4 DEF k
  <2>5. CASE SharedNow.here /\ s < shared.ts
    <3>1. Rpm * (shared.ts - Open + late) <= Rpm * (now - Open + late)
      BY <1>1, RpmMonotone
    <3>2. QED
      BY <1>1, <1>3, <1>6, <1>7, <2>1, <2>5, <3>1, CapFacts DEF k
  <2>6. CASE ~SharedNow.here
    <3>1. shared.ts + Minute <= now
      BY <1>1, <1>2, <2>2, <2>6 DEF Ttl
    <3>2. Rpm * (shared.ts - Open + late) + Rpm * Minute
            = Rpm * (shared.ts + Minute - Open + late)
      BY <1>1, RpmDistributes
    <3>3. Rpm * (shared.ts + Minute - Open + late)
            <= Rpm * (now - Open + late)
      BY <1>1, <3>1, RpmMonotone
    <3>4. k <= Cap + Rpm * (shared.ts - Open + late)
      BY <1>1, <2>1, <2>3, CapFacts DEF k
    <3>5. k + r <= Cap + Rpm * (now - Open + late)
      BY <1>1, <1>3, <2>3, <3>2, <3>3, <3>4 DEF Cap
    <3>6. QED
      BY <1>6, <1>7, <3>5 DEF k
  <2>7. QED
    BY <1>1, <1>2, <2>4, <2>5, <2>6
<1>10. QED
  BY <1>1, <1>8, <1>9

\* _consume_local keeps the count of its process: its clock is never late.
LEMMA ConsumeLocalKeepsCount ==
  ASSUME TypeInv, NEW c \in Callers, NEW deadline \in Nat,
         ConsumeLocal(c, deadline),
         NEW q \in Procs, LocalCount(q)
  PROVE  LocalCount(q)'
<1>1. /\ now \in Nat /\ lsince \in [Procs -> Nat]
      /\ local \in [Procs -> Bucket]
      /\ local[q].here \in BOOLEAN /\ local[q].tokens \in 0 .. Cap
      /\ local[q].ts \in Nat /\ local[q].ts <= now
  BY DEF TypeInv, TypeOK, Clocks, Bucket
<1>2. now' = now
  BY DEF ConsumeLocal
<1>3. CASE q # ProcOf[c]
  <2>1. local'[q] = local[q] /\ lsince'[q] = lsince[q]
    BY <1>1, <1>3 DEF ConsumeLocal
  <2>2. QED
    BY <1>2, <2>1 DEF LocalCount
<1>4. CASE q = ProcOf[c]
  <2> DEFINE r == Refill(local[q], now)
  <2>1. /\ r \in 0 .. Cap
        /\ Grants(local[q], now) => Left(local[q], now) = r - Cost
        /\ ~Grants(local[q], now) => Left(local[q], now) = r
        /\ local[q].here => r <= local[q].tokens + Rpm * (now - local[q].ts)
    BY <1>1, RefillFacts
  <2>2. local'[q] = [here |-> TRUE, ts |-> now,
                     tokens |-> Left(local[q], now)]
    BY <1>1, <1>4 DEF ConsumeLocal, Consumed
  <2>3. lsince'[q] = IF Grants(local[q], now) /\ now >= Open
                     THEN lsince[q] + 1 ELSE lsince[q]
    BY <1>1, <1>4 DEF ConsumeLocal, Observed
  <2>4. SUFFICES ASSUME lsince'[q] > 0
                 PROVE  /\ now >= Open
                        /\ lsince'[q] * Minute + local'[q].tokens
                             <= Cap + Rpm * (now - Open)
    BY <1>2, <2>2 DEF LocalCount
  <2>5. now >= Open
    BY <1>1, <2>3, <2>4 DEF LocalCount
  <2> DEFINE k == lsince[q] * Minute
  <2>6. k \in Nat /\ (lsince[q] + 1) * Minute = k + Minute
    BY <1>1
  <2>7. lsince'[q] * Minute + local'[q].tokens = k + r
    <3>1. CASE Grants(local[q], now)
      <4>1. lsince'[q] = lsince[q] + 1 /\ local'[q].tokens = r - Minute
        BY <2>1, <2>2, <2>3, <2>5, <3>1 DEF Cost
      <4>2. lsince'[q] * Minute = k + Minute
        BY <4>1, <2>6
      <4> HIDE DEF k, r
      <4>3. QED
        BY <4>1, <4>2, <2>1, <2>6
    <3>2. CASE ~Grants(local[q], now)
      BY <2>1, <2>2, <2>3, <3>2
    <3>3. QED
      BY <3>1, <3>2
  <2>8. CASE lsince[q] = 0
    <3>1. Rpm * (now - Open) >= 0
      BY <1>1, <2>5
    <3>2. k = 0
      BY <2>8
    <3>3. QED
      BY <1>1, <2>1, <2>5, <2>7, <3>1, <3>2, CapFacts
  <2>9. CASE lsince[q] > 0
    <3>1. /\ local[q].here
          /\ k + local[q].tokens <= Cap + Rpm * (local[q].ts - Open)
      BY <2>9 DEF LocalCount
    <3>2. Rpm * (local[q].ts - Open) + Rpm * (now - local[q].ts)
            = Rpm * (now - Open)
      BY <1>1, RpmDistributes
    <3> HIDE DEF k, r
    <3>3. k + r <= Cap + Rpm * (now - Open)
      BY <1>1, <2>1, <2>6, <3>1, <3>2, CapFacts
    <3>4. QED
      BY <2>5, <2>7, <3>3
  <2>10. QED
    BY <1>1, <2>8, <2>9
<1>5. QED
  BY <1>3, <1>4

LEMMA AttemptKeepsCount ==
  ASSUME Inv, NEW c \in Callers, NEW deadline \in Nat, Attempt(c, deadline)
  PROVE  SharedCount' /\ \A p \in Procs : LocalCount(p)'
<1>1. CASE UNCHANGED <<now, shared, redis, local, ghosts>>
  BY <1>1 DEF Inv, SharedCount, LocalCount, ghosts
<1>2. CASE ConsumeLocal(c, deadline) /\ UNCHANGED redisVars
  <2>1. SharedCount'
    BY <1>2 DEF Inv, SharedCount, ConsumeLocal, redisVars
  <2>2. \A p \in Procs : LocalCount(p)'
    BY <1>2, ConsumeLocalKeepsCount DEF Inv
  <2>3. QED
    BY <2>1, <2>2
<1>3. QED
  BY <1>1, <1>2 DEF Attempt

LEMMA InvStep == Inv /\ [LimiterNext]_vars => Inv'
<1> SUFFICES ASSUME Inv, [LimiterNext]_vars
             PROVE  Inv'
  OBVIOUS
<1>1. TypeInv'
  BY TypeInvStep DEF Inv
<1>2. SUFFICES SharedCount' /\ \A p \in Procs : LocalCount(p)'
  BY <1>1 DEF Inv
<1>3. CASE Tick
  BY <1>3 DEF Tick, Inv, SharedCount, LocalCount, ghosts, TypeInv, TypeOK
<1>4. ASSUME NEW c \in Callers, Acquire(c)
      PROVE  SharedCount' /\ \A p \in Procs : LocalCount(p)'
  <2>1. now + MaxWait \in Nat
    BY DEF Inv, TypeInv, TypeOK
  <2>2. QED
    BY <1>4, <2>1, AttemptKeepsCount DEF Acquire
<1>5. ASSUME NEW c \in Callers, Wake(c)
      PROVE  SharedCount' /\ \A p \in Procs : LocalCount(p)'
  <2>1. PICK d \in Nat : d = call[c].deadline
    BY DEF Inv, TypeInv, TypeOK, Call
  <2>2. QED
    BY <1>5, <2>1, AttemptKeepsCount DEF Wake
<1>6. ASSUME NEW c \in Callers, EvalReplies(c) \/ EvalReplyLost(c)
      PROVE  SharedCount' /\ \A p \in Procs : LocalCount(p)'
  <2>1. /\ RunScript(call[c].stamp)
        /\ call[c].pc = "eval"
        /\ UNCHANGED <<now, local, lsince>>
    BY <1>6 DEF EvalReplies, EvalReplyLost
  <2>2. PICK s \in Nat : s = call[c].stamp /\ s <= now
    BY <2>1 DEF Inv, TypeInv, TypeOK, Call, Clocks, InRedis
  <2>3. SharedCount'
    BY <2>1, <2>2, RunScriptKeepsCount DEF Inv
  <2>4. \A p \in Procs : LocalCount(p)'
    BY <2>1 DEF Inv, LocalCount
  <2>5. QED
    BY <2>3, <2>4
<1>7. ASSUME NEW c \in Callers, EvalFails(c)
      PROVE  SharedCount' /\ \A p \in Procs : LocalCount(p)'
  <2>1. PICK d \in Nat : d = call[c].deadline
    BY DEF Inv, TypeInv, TypeOK, Call
  <2>2. ConsumeLocal(c, d) /\ UNCHANGED shared
    BY <1>7, <2>1 DEF EvalFails
  <2>3. SharedCount'
    BY <2>2 DEF Inv, SharedCount, ConsumeLocal
  <2>4. \A p \in Procs : LocalCount(p)'
    BY <2>2, ConsumeLocalKeepsCount DEF Inv
  <2>5. QED
    BY <2>3, <2>4
<1>8. CASE UNCHANGED vars
  BY <1>8 DEF vars, Inv, SharedCount, LocalCount
<1>9. QED
  BY <1>3, <1>4, <1>5, <1>6, <1>7, <1>8 DEF LimiterNext

LEMMA InitInv == LimiterInit => Inv
<1> SUFFICES ASSUME LimiterInit
             PROVE  Inv
  OBVIOUS
<1>1. TypeInv
  BY CapFacts DEF LimiterInit, TypeInv, TypeOK, Clocks, InRedis, SharedBucket, Bucket,
                  Call, Idle, NoBucket
<1>2. QED
  BY <1>1 DEF LimiterInit, Inv, SharedCount, LocalCount

\* The workers share one budget: in the window from Open on, Redis grants no
\* more than one burst, the refill of the window and what late evals refill
\* twice, whatever the number of workers and their interleaving.
THEOREM SharedBudgetHolds == LimiterSpec => []SharedBudget
<1>1. Inv => SharedBudget
  <2> SUFFICES ASSUME Inv, now >= Open
               PROVE  since * Minute <= Cap + Rpm * (now - Open + late)
    BY DEF SharedBudget
  <2>1. /\ now \in Nat /\ since \in Nat /\ late \in Nat
        /\ shared.ts \in Nat /\ shared.ts <= now
        /\ shared.tokens \in 0 .. Cap
    BY DEF Inv, TypeInv, TypeOK, Clocks, SharedBucket
  <2>2. CASE since = 0
    <3>1. Rpm * (now - Open + late) \in Nat
      BY <2>1
    <3>2. since * Minute = 0
      BY <2>2
    <3>3. QED
      BY <3>1, <3>2, CapFacts
  <2>3. CASE since > 0
    <3>1. since * Minute + shared.tokens
            <= Cap + Rpm * (shared.ts - Open + late)
      BY <2>3 DEF Inv, SharedCount
    <3>2. Rpm * (shared.ts - Open + late) <= Rpm * (now - Open + late)
      BY <2>1, RpmMonotone
    <3> DEFINE k == since * Minute
    <3>3. k \in Nat
      BY <2>1
    <3> HIDE DEF k
    <3>4. k <= Cap + Rpm * (now - Open + late)
      BY <2>1, <3>1, <3>2, <3>3, CapFacts DEF k
    <3>5. QED
      BY <3>4 DEF k
  <2>4. QED
    BY <2>1, <2>2, <2>3
<1>2. QED
  BY <1>1, InitInv, InvStep, PTL DEF LimiterSpec

\* A worker without Redis keeps to one budget of its own, exactly.
THEOREM LocalBudgetHolds == LimiterSpec => []LocalBudget
<1>1. Inv => LocalBudget
  <2> SUFFICES ASSUME Inv, now >= Open, NEW p \in Procs
               PROVE  lsince[p] * Minute <= Cap + Rpm * (now - Open)
    BY DEF LocalBudget
  <2>1. /\ now \in Nat /\ lsince[p] \in Nat
        /\ local[p].ts \in Nat /\ local[p].ts <= now
        /\ local[p].tokens \in 0 .. Cap
    BY DEF Inv, TypeInv, TypeOK, Clocks, Bucket
  <2>2. CASE lsince[p] = 0
    <3>1. Rpm * (now - Open) \in Nat
      BY <2>1
    <3>2. lsince[p] * Minute = 0
      BY <2>2
    <3>3. QED
      BY <3>1, <3>2, CapFacts
  <2>3. CASE lsince[p] > 0
    <3> DEFINE k == lsince[p] * Minute
               e == Rpm * (local[p].ts - Open)
               f == Rpm * (now - Open)
    <3>1. k + local[p].tokens <= Cap + e
      BY <2>3 DEF Inv, LocalCount
    <3>2. e <= f
      BY <2>1, RpmMonotone
    <3>3. k \in Nat /\ e \in Int /\ f \in Int
      BY <2>1
    <3> HIDE DEF k, e, f
    <3>4. k <= Cap + f
      BY <2>1, <3>1, <3>2, <3>3, CapFacts
    <3>5. QED
      BY <3>4 DEF k, f
  <2>4. QED
    BY <2>1, <2>2, <2>3
<1>2. QED
  BY <1>1, InitInv, InvStep, PTL DEF LimiterSpec

-----------------------------------------------------------------------------
(***************************************************************************)
(* Giving up.  A poll is at most Poll ticks, so a call that finds the next *)
(* poll beyond its deadline is within Poll ticks of it, and a call that    *)
(* has only begun is not.                                                  *)
(***************************************************************************)

LEMMA GiveUpIsLate ==
  ASSUME TypeOK, NEW c \in Callers, NEW deadline \in Nat,
         NEW STATE b, b.here \in BOOLEAN, b.tokens \in 0 .. Cap, b.ts \in Nat,
         NEW STATE t, t \in Nat,
         Conclude(c, b, t, deadline), gaveUp' # {}
  PROVE  gaveUp' = {c} /\ now + Poll > deadline
<1>1. /\ gaveUp' = {c}
      /\ ~Grants(b, t)
      /\ now + SleepFor(b, t) > deadline
  BY DEF Conclude
<1>2. SleepFor(b, t) \in 0 .. Poll
  BY <1>1, SleepFacts
<1>3. QED
  BY <1>1, <1>2 DEF TypeOK

LEMMA AttemptGivesUpLate ==
  ASSUME TypeOK, NEW c \in Callers, NEW deadline \in Nat,
         Attempt(c, deadline), gaveUp' # {}
  PROVE  gaveUp' = {c} /\ now + Poll > deadline
<1>1. PICK p \in Procs : p = ProcOf[c]
  OBVIOUS
<1>2. Conclude(c, local[p], now, deadline)
  BY <1>1 DEF Attempt, ConsumeLocal
<1>3. /\ local[p].here \in BOOLEAN /\ local[p].tokens \in 0 .. Cap
      /\ local[p].ts \in Nat /\ now \in Nat
  BY DEF TypeOK, Bucket
<1>4. QED
  BY <1>2, <1>3, GiveUpIsLate

LEMMA GiveUpStep ==
  ASSUME TypeOK, LimiterNext, NEW c \in gaveUp'
  PROVE  call[c].pc # "idle" /\ now + Poll > call[c].deadline
<1>1. CASE Tick \/ \E k \in Callers : EvalReplyLost(k)
  BY <1>1 DEF Tick, EvalReplyLost
<1>2. ASSUME NEW k \in Callers, Acquire(k)
      PROVE  FALSE
  <2>1. now + MaxWait \in Nat
    BY DEF TypeOK
  <2>2. Attempt(k, now + MaxWait)
    BY <1>2 DEF Acquire
  <2>3. now + Poll > now + MaxWait
    BY <2>1, <2>2, AttemptGivesUpLate
  <2>4. QED
    BY <2>3 DEF TypeOK
<1>3. ASSUME NEW k \in Callers, Wake(k)
      PROVE  call[c].pc # "idle" /\ now + Poll > call[c].deadline
  <2>1. PICK d \in Nat : d = call[k].deadline
    BY DEF TypeOK, Call
  <2>2. Attempt(k, d) /\ call[k].pc = "sleep"
    BY <1>3, <2>1 DEF Wake
  <2>3. gaveUp' = {k} /\ now + Poll > d
    BY <2>2, AttemptGivesUpLate
  <2>4. QED
    BY <2>1, <2>2, <2>3
<1>4. ASSUME NEW k \in Callers, EvalReplies(k)
      PROVE  call[c].pc # "idle" /\ now + Poll > call[c].deadline
  <2>1. PICK d \in Nat : d = call[k].deadline
    BY DEF TypeOK, Call
  <2>2. Conclude(k, SharedNow, call[k].stamp, d) /\ call[k].pc = "eval"
    BY <1>4, <2>1 DEF EvalReplies
  <2>3. /\ SharedNow.here \in BOOLEAN
        /\ SharedNow.tokens \in 0 .. Cap
        /\ SharedNow.ts \in Nat
    BY SharedNowFacts
  <2>4. gaveUp' = {k} /\ now + Poll > d
    <3>1. call[k].stamp \in Nat
      BY DEF TypeOK, Call
    <3>2. gaveUp' # {}
      OBVIOUS
    <3>3. QED
      BY <2>2, <2>3, <3>1, <3>2, GiveUpIsLate
  <2>5. QED
    BY <2>1, <2>2, <2>4
<1>5. ASSUME NEW k \in Callers, EvalFails(k)
      PROVE  call[c].pc # "idle" /\ now + Poll > call[c].deadline
  <2>1. PICK d \in Nat : d = call[k].deadline
    BY DEF TypeOK, Call
  <2>2. PICK p \in Procs : p = ProcOf[k]
    OBVIOUS
  <2>3. /\ Conclude(k, local[p], now, d)
        /\ call[k].pc # "idle"
    BY <1>5, <2>1, <2>2 DEF EvalFails, ConsumeLocal
  <2>4. /\ local[p].here \in BOOLEAN /\ local[p].tokens \in 0 .. Cap
        /\ local[p].ts \in Nat /\ now \in Nat
    BY DEF TypeOK, Bucket
  <2>5. gaveUp' = {k} /\ now + Poll > d
    BY <2>3, <2>4, GiveUpIsLate
  <2>6. QED
    BY <2>1, <2>3, <2>5
<1>6. QED
  BY <1>1, <1>2, <1>3, <1>4, <1>5 DEF LimiterNext

\* No request goes out without a token before its caller has waited for all
\* of max_wait_s, less one poll at most.
THEOREM GiveUpIsPatient == LimiterSpec => PatientGiveUp
<1>1. TypeOK /\ [LimiterNext]_vars =>
        [\A c \in gaveUp' :
           call[c].pc # "idle" /\ now + Poll > call[c].deadline]_vars
  BY GiveUpStep
<1>2. QED
  BY <1>1, TypeCorrect, PTL DEF LimiterSpec, PatientGiveUp

=============================================================================
