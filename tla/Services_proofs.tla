--------------------------- MODULE Services_proofs ---------------------------
(***************************************************************************)
(* Proofs about the parts of Services: the Redis client of a process, the  *)
(* image cache, the clarification of a query, the history of a chat        *)
(* session and the justification of a price, for any number of requests,   *)
(* clients, images, options, turns and offers.                             *)
(***************************************************************************)
EXTENDS Services, FiniteSetTheorems, SequenceTheorems, TLAPS

USE IntakeAssumption, ImagesAssumption, OptionsAssumption

(***************************************************************************)
(* The Redis client.  The line for the lock plays no part.                 *)
(***************************************************************************)

IntakeShape ==
  intake \in [cache: 0 .. MaxClients, failed: BOOLEAN,
              holder: Requests \cup {Nobody}, line: {intake.line},
              client: [Clients -> {"unmade", "open", "closed"}],
              request: [Requests -> Request],
              entry: {intake.entry}, spell: {intake.spell}]

\* What is so of a request at each of its awaits.
Place(q, r) ==
  /\ q.pc \in {"get", "set"} => q.client # 0
  /\ q.pc \in {"get", "set", "spell", "done"} /\ q.client # 0 => q.client = intake.cache
  /\ q.pc \in {"spell", "done"} /\ q.client = 0 => intake.failed
  /\ q.pc = "ping" => /\ ~Settled /\ intake.holder = r
                      /\ q.client \in Clients /\ intake.client[q.client] = "open"
  /\ q.pc = "close" => intake.failed /\ intake.holder = r /\ q.client \in Clients

ClientOpen == intake.cache # 0 => intake.client[intake.cache] = "open" /\ ~intake.failed

ClientInv ==
  /\ IntakeShape
  /\ ClientOpen
  /\ \A r \in Requests : Place(intake.request[r], r)

LEMMA ClientInvOne == ClientInv => OneClient
<1> SUFFICES ASSUME ClientInv PROVE OneClient
  OBVIOUS
<1>1. \A r \in Requests : intake.request[r] \in Request /\ Place(intake.request[r], r)
  BY DEF ClientInv, IntakeShape
<1>2. \A r \in Given : /\ intake.request[r].client = intake.cache
                       /\ intake.client[intake.cache] = "open"
  BY <1>1 DEF Given, Place, ClientInv, ClientOpen
<1>3. \A r \in Requests : InPlace(r, "ping") => ~Settled /\ intake.holder = r
  BY <1>1 DEF InPlace, Place
<1>4. \A r \in Requests :
        intake.request[r].pc \in {"spell", "done"} /\ intake.request[r].client = 0 =>
          intake.failed
  BY <1>1 DEF Place
<1>5. intake.failed => intake.cache = 0
  BY DEF ClientInv, ClientOpen
<1> QED
  BY <1>2, <1>3, <1>4, <1>5 DEF OneClient

LEMMA InitClient == IntakeInit => ClientInv
<1> SUFFICES ASSUME IntakeInit PROVE ClientInv
  OBVIOUS
<1>1. /\ intake.cache = 0 /\ intake.failed = FALSE /\ intake.holder = Nobody
      /\ intake.request = [r \in Requests |-> NoRequest]
  BY DEF IntakeInit
<1>2. IntakeShape
  <2>1. NoRequest \in Request
    BY DEF NoRequest, Request
  <2> QED
    BY <2>1 DEF IntakeInit, IntakeShape
<1> QED
  BY <1>1, <1>2 DEF ClientInv, ClientOpen, Place, NoRequest

\* A step in which the process's client and the lock stay: only request r
\* moves on, and to where it may be.
LEMMA RequestMoves ==
  ASSUME ClientInv, NEW r \in Requests, NEW q \in Request,
         intake'.cache = intake.cache, intake'.failed = intake.failed,
         intake'.client = intake.client, intake'.holder = intake.holder,
         intake'.request = [intake.request EXCEPT ![r] = q],
         IntakeShape', Place(q, r)
  PROVE  ClientInv'
<1>1. \A p \in Requests : p # r => intake'.request[p] = intake.request[p]
  BY DEF ClientInv, IntakeShape
<1>2. intake'.request[r] = q
  BY DEF ClientInv, IntakeShape
<1>3. \A p \in Requests : Place(intake'.request[p], p)
  BY <1>1, <1>2 DEF ClientInv
<1> QED
  BY <1>3 DEF ClientInv, ClientOpen, Place, Settled

\* MakesClient, of either way to the lock.
LEMMA Makes ==
  ASSUME ClientInv, NEW r \in Requests, NEW line, MakesClient(r, line),
         ~Settled, intake.holder = Nobody
  PROVE  ClientInv'
<1>1. PICK n \in Clients :
        /\ intake.client[n] = "unmade"
        /\ intake' = [intake EXCEPT !.holder = r, !.line = line, !.client[n] = "open",
                        !.request[r] = [pc |-> "ping", client |-> n, query |-> "none"]]
  BY DEF MakesClient, Unmade
<1> DEFINE q == [pc |-> "ping", client |-> n, query |-> "none"]
<1>2. q \in Request
  BY DEF Request, Clients
<1>3. /\ intake'.cache = intake.cache /\ intake'.failed = intake.failed
      /\ intake'.holder = r /\ intake'.line = line
      /\ intake'.client = [intake.client EXCEPT ![n] = "open"]
      /\ intake'.request = [intake.request EXCEPT ![r] = q]
      /\ intake'.entry = intake.entry /\ intake'.spell = intake.spell
  BY <1>1 DEF ClientInv, IntakeShape
<1>4. IntakeShape'
  <2>1. intake' = [cache |-> intake'.cache, failed |-> intake'.failed,
                   holder |-> intake'.holder, line |-> intake'.line,
                   client |-> intake'.client, request |-> intake'.request,
                   entry |-> intake'.entry, spell |-> intake'.spell]
    BY <1>1 DEF ClientInv, IntakeShape
  <2>2. /\ intake'.client \in [Clients -> {"unmade", "open", "closed"}]
        /\ intake'.request \in [Requests -> Request]
        /\ intake'.cache \in 0 .. MaxClients /\ intake'.failed \in BOOLEAN
        /\ intake'.holder \in Requests \cup {Nobody}
    BY <1>2, <1>3 DEF ClientInv, IntakeShape
  <2> QED
    BY <2>1, <2>2 DEF IntakeShape
<1>5. ClientOpen'
  BY <1>3 DEF ClientOpen, Settled
<1>6. \A p \in Requests : Place(intake.request[p], p) /\ intake.request[p] \in Request
  BY DEF ClientInv, IntakeShape
<1>7. \A p \in Requests : intake.request[p].pc \notin {"get", "set", "ping", "close"}
  BY <1>6 DEF Place, Settled, ClientInv, IntakeShape
<1>8. \A p \in Requests \ {r} : Place(intake.request[p], p)'
  <2> SUFFICES ASSUME NEW p \in Requests \ {r} PROVE Place(intake.request[p], p)'
    OBVIOUS
  <2>1. intake'.request[p] = intake.request[p]
    BY <1>3 DEF ClientInv, IntakeShape
  <2> QED
    BY <2>1, <1>3, <1>6, <1>7 DEF Place
<1>9. Place(intake.request[r], r)'
  <2>1. intake'.request[r] = q
    BY <1>3 DEF ClientInv, IntakeShape
  <2>2. intake'.client[n] = "open"
    BY <1>3 DEF ClientInv, IntakeShape
  <2> QED
    BY <2>1, <2>2, <1>3 DEF Place, Settled
<1> QED
  BY <1>4, <1>5, <1>8, <1>9 DEF ClientInv

LEMMA SetPc ==
  ASSUME NEW p, NEW a, NEW b, NEW c, NEW pc, p = [pc |-> a, client |-> b, query |-> c]
  PROVE  [p EXCEPT !.pc = pc] = [pc |-> pc, client |-> b, query |-> c]
  OBVIOUS

LEMMA SetQuery ==
  ASSUME NEW p, NEW a, NEW b, NEW c, NEW query, p = [pc |-> a, client |-> b, query |-> c]
  PROVE  [p EXCEPT !.query = query] = [pc |-> a, client |-> b, query |-> query]
  OBVIOUS

LEMMA TwoFields ==
  ASSUME NEW p \in Request, NEW pc, NEW query
  PROVE  /\ [[p EXCEPT !.pc = pc] EXCEPT !.query = query]
              = [pc |-> pc, client |-> p.client, query |-> query]
         /\ [[p EXCEPT !.query = query] EXCEPT !.pc = pc]
              = [pc |-> pc, client |-> p.client, query |-> query]
<1>1. p = [pc |-> p.pc, client |-> p.client, query |-> p.query]
  BY DEF Request
<1> DEFINE p1 == [p EXCEPT !.pc = pc]
           p2 == [p EXCEPT !.query = query]
<1>2. p1 = [pc |-> pc, client |-> p.client, query |-> p.query]
  BY <1>1, SetPc
<1>3. p2 = [pc |-> p.pc, client |-> p.client, query |-> query]
  BY <1>1, SetQuery
<1> HIDE DEF p1, p2
<1>4. [p1 EXCEPT !.query = query] = [pc |-> pc, client |-> p.client, query |-> query]
  BY <1>2, SetQuery
<1>5. [p2 EXCEPT !.pc = pc] = [pc |-> pc, client |-> p.client, query |-> query]
  BY <1>3, SetPc
<1> QED
  BY <1>4, <1>5 DEF p1, p2

LEMMA NextClient == ClientInv /\ [IntakeNext]_intake => ClientInv'
<1> SUFFICES ASSUME ClientInv, [IntakeNext]_intake PROVE ClientInv'
  OBVIOUS
<1>0. /\ IntakeShape /\ ClientOpen
      /\ \A r \in Requests : /\ intake.request[r] \in Request
                             /\ Place(intake.request[r], r)
  BY DEF ClientInv, IntakeShape
<1>s. /\ intake = [cache |-> intake.cache, failed |-> intake.failed,
                   holder |-> intake.holder, line |-> intake.line,
                   client |-> intake.client, request |-> intake.request,
                   entry |-> intake.entry, spell |-> intake.spell]
      /\ intake.cache \in 0 .. MaxClients /\ intake.failed \in BOOLEAN
      /\ intake.holder \in Requests \cup {Nobody}
      /\ intake.client \in [Clients -> {"unmade", "open", "closed"}]
      /\ intake.request \in [Requests -> Request]
  BY <1>0 DEF IntakeShape
\* The request that goes on after its client was looked up.
<1>g. ASSUME Settled
      PROVE  GoesOn(intake.cache) \in Request /\ \A r \in Requests : Place(GoesOn(intake.cache), r)
  BY <1>g, <1>s, <1>0 DEF GoesOn, Request, Place, Settled
<1>n. NoRequest \in Request /\ \A r \in Requests : Place(NoRequest, r)
  BY DEF NoRequest, Request, Place
<1>1. ASSUME NEW r \in Requests, AsksForCache(r) PROVE ClientInv'
  <2>1. CASE Settled /\ intake' = [intake EXCEPT !.request[r] = GoesOn(intake.cache)]
    <3>1. IntakeShape'
      BY <2>1, <1>s, <1>g DEF IntakeShape
    <3>2. /\ intake'.cache = intake.cache /\ intake'.failed = intake.failed
          /\ intake'.client = intake.client /\ intake'.holder = intake.holder
          /\ intake'.request = [intake.request EXCEPT ![r] = GoesOn(intake.cache)]
      BY <2>1, <1>s
    <3> QED
      BY <3>1, <3>2, <2>1, <1>g, RequestMoves
  <2>2. CASE ~Settled /\ intake.holder = Nobody /\ MakesClient(r, <<>>)
    BY <2>2, Makes
  <2>3. CASE intake' = [intake EXCEPT !.line = Append(@, r), !.request[r].pc = "line"]
    <3> DEFINE q == [intake.request[r] EXCEPT !.pc = "line"]
    <3>1. q \in Request /\ Place(q, r)
      BY <1>0 DEF Request, Place
    <3>2. /\ intake'.cache = intake.cache /\ intake'.failed = intake.failed
          /\ intake'.client = intake.client /\ intake'.holder = intake.holder
          /\ intake'.request = [intake.request EXCEPT ![r] = q]
      BY <2>3, <1>s
    <3>3. IntakeShape'
      BY <2>3, <1>s, <3>1 DEF IntakeShape
    <3> QED
      BY <3>1, <3>2, <3>3, RequestMoves
  <2> QED
    BY <1>1, <2>1, <2>2, <2>3 DEF AsksForCache
<1>2. ASSUME NEW r \in Requests, HasLock(r) PROVE ClientInv'
  <2>1. CASE Settled /\ intake' = [intake EXCEPT !.line = Tail(@), !.request[r] = GoesOn(intake.cache)]
    <3>1. /\ intake'.cache = intake.cache /\ intake'.failed = intake.failed
          /\ intake'.client = intake.client /\ intake'.holder = intake.holder
          /\ intake'.request = [intake.request EXCEPT ![r] = GoesOn(intake.cache)]
      BY <2>1, <1>s
    <3>2. IntakeShape'
      BY <2>1, <1>s, <1>g DEF IntakeShape
    <3> QED
      BY <3>1, <3>2, <2>1, <1>g, RequestMoves
  <2>2. CASE ~Settled /\ intake.holder = Nobody /\ MakesClient(r, Tail(intake.line))
    BY <2>2, Makes
  <2> QED
    BY <1>2, <2>1, <2>2 DEF HasLock, FoundSettled
<1>3. ASSUME NEW r \in Requests, PingAnswered(r) PROVE ClientInv'
  <2> DEFINE n == intake.request[r].client
  <2>1. /\ n \in Clients /\ intake.client[n] = "open" /\ ~Settled /\ intake.holder = r
    BY <1>3, <1>0 DEF PingAnswered, InPlace, Place
  <2>2. /\ intake'.cache = n /\ intake'.failed = intake.failed /\ intake'.holder = Nobody
        /\ intake'.client = intake.client
        /\ intake'.request = [intake.request EXCEPT ![r] = GoesOn(n)]
    BY <1>3, <1>s DEF PingAnswered
  <2>3. GoesOn(n) \in Request /\ GoesOn(n).pc = "get" /\ GoesOn(n).client = n
    BY <2>1 DEF GoesOn, Request, Clients
  <2>4. IntakeShape'
    <3>1. intake' = [cache |-> intake'.cache, failed |-> intake'.failed,
                     holder |-> intake'.holder, line |-> intake'.line,
                     client |-> intake'.client, request |-> intake'.request,
                     entry |-> intake'.entry, spell |-> intake'.spell]
      BY <1>3, <1>s DEF PingAnswered
    <3>2. intake'.request \in [Requests -> Request] /\ intake'.cache \in 0 .. MaxClients
      BY <2>1, <2>2, <2>3, <1>s DEF Clients
    <3> QED
      BY <3>1, <3>2, <2>2, <1>s DEF IntakeShape
  <2>5. ClientOpen'
    BY <2>1, <2>2 DEF ClientOpen, Settled
  <2>6. ASSUME NEW p \in Requests PROVE Place(intake.request[p], p)'
    <3>1. CASE p = r
      <4>1. intake'.request[p] = GoesOn(n)
        BY <2>2, <3>1, <1>s
      <4> QED
        BY <4>1, <2>1, <2>2, <2>3 DEF Place, Clients
    <3>2. CASE p # r
      <4>1. intake'.request[p] = intake.request[p]
        BY <2>2, <3>2, <1>s
      <4>2. intake.request[p].pc \notin {"ping", "close"}
        BY <2>1, <3>2, <1>0 DEF Place
      <4>3. intake.request[p].pc \notin {"get", "set"}
        BY <2>1, <1>0 DEF Place, Settled
      <4>4. intake.request[p].pc \notin {"spell", "done"}
        BY <2>1, <1>0 DEF Place, Settled
      <4> QED
        BY <4>1, <4>2, <4>3, <4>4 DEF Place
    <3> QED
      BY <3>1, <3>2
  <2> QED
    BY <2>4, <2>5, <2>6 DEF ClientInv
<1>4. ASSUME NEW r \in Requests, PingFails(r) PROVE ClientInv'
  <2> DEFINE q == [intake.request[r] EXCEPT !.pc = "close"]
  <2>1. /\ intake.request[r].client \in Clients /\ ~Settled /\ intake.holder = r
    BY <1>4, <1>0 DEF PingFails, InPlace, Place
  <2>2. /\ intake'.cache = intake.cache /\ intake'.failed = TRUE /\ intake'.holder = intake.holder
        /\ intake'.client = intake.client
        /\ intake'.request = [intake.request EXCEPT ![r] = q]
    BY <1>4, <1>s DEF PingFails
  <2>3. q \in Request /\ q.pc = "close" /\ q.client \in Clients
    BY <2>1, <1>0 DEF Request
  <2>4. IntakeShape'
    BY <1>4, <1>s, <2>3 DEF PingFails, IntakeShape
  <2>5. ClientOpen'
    BY <2>1, <2>2 DEF ClientOpen, Settled
  <2>6. ASSUME NEW p \in Requests PROVE Place(intake.request[p], p)'
    <3>1. CASE p = r
      <4>1. intake'.request[p] = q
        BY <2>2, <3>1, <1>s
      <4> QED
        BY <4>1, <2>1, <2>2, <2>3, <3>1 DEF Place
    <3>2. CASE p # r
      <4>1. intake'.request[p] = intake.request[p]
        BY <2>2, <3>2, <1>s
      <4>2. intake.request[p].pc \notin {"ping", "close"}
        BY <2>1, <3>2, <1>0 DEF Place
      <4> QED
        BY <4>1, <4>2, <2>2, <1>0 DEF Place
    <3> QED
      BY <3>1, <3>2
  <2> QED
    BY <2>4, <2>5, <2>6 DEF ClientInv
<1>5. ASSUME NEW r \in Requests, Closed(r) PROVE ClientInv'
  <2> DEFINE n == intake.request[r].client
  <2>1. n \in Clients /\ intake.failed /\ intake.holder = r /\ intake.cache = 0
    BY <1>5, <1>0 DEF Closed, InPlace, Place, ClientOpen
  <2>2. /\ intake'.cache = intake.cache /\ intake'.failed = intake.failed
        /\ intake'.holder = Nobody /\ intake'.client = [intake.client EXCEPT ![n] = "closed"]
        /\ intake'.request = [intake.request EXCEPT ![r] = GoesOn(0)]
    BY <1>5, <1>s DEF Closed
  <2>3. GoesOn(0) \in Request /\ GoesOn(0).pc = "spell" /\ GoesOn(0).client = 0
    BY DEF GoesOn, Request
  <2>4. IntakeShape'
    BY <1>5, <1>s, <2>1, <2>3 DEF Closed, IntakeShape
  <2>5. ClientOpen'
    BY <2>1, <2>2 DEF ClientOpen
  <2>6. ASSUME NEW p \in Requests PROVE Place(intake.request[p], p)'
    <3>1. CASE p = r
      <4>1. intake'.request[p] = GoesOn(0)
        BY <2>2, <3>1, <1>s
      <4> QED
        BY <4>1, <2>1, <2>2, <2>3 DEF Place
    <3>2. CASE p # r
      <4>1. intake'.request[p] = intake.request[p]
        BY <2>2, <3>2, <1>s
      <4>2. intake.request[p].pc \notin {"ping", "close"}
        BY <2>1, <3>2, <1>0 DEF Place, Settled
      <4> QED
        BY <4>1, <4>2, <2>2, <1>0 DEF Place
    <3> QED
      BY <3>1, <3>2
  <2> QED
    BY <2>4, <2>5, <2>6 DEF ClientInv
<1>6. ASSUME NEW r \in Requests, GetEnds(r) \/ SpellEnds(r) \/ SetEnds(r) \/ RequestOver(r)
      PROVE  ClientInv'
  <2> DEFINE p == intake.request[r]
  <2>1. PICK q \in Request :
          /\ Place(q, r) /\ intake'.request = [intake.request EXCEPT ![r] = q]
          /\ intake' = [cache |-> intake.cache, failed |-> intake.failed,
                        holder |-> intake.holder, line |-> intake.line,
                        client |-> intake.client, request |-> intake'.request,
                        entry |-> intake'.entry, spell |-> intake.spell]
    <3>1. CASE GetEnds(r)
      <4>1. CASE intake' = [intake EXCEPT !.entry = HitLeaves, !.request[r].pc = "done",
                                          !.request[r].query = intake.entry.what]
                 /\ intake.entry.what \in {"full", "degraded"}
        <5> DEFINE q == [pc |-> "done", client |-> p.client, query |-> intake.entry.what]
        <5>1. q \in Request
          BY <4>1, <1>0 DEF Request
        <5>2. Place(q, r)
          BY <3>1, <1>0 DEF Place, GetEnds, InPlace
        <5>3. [[p EXCEPT !.pc = "done"] EXCEPT !.query = intake.entry.what] = q
          BY <1>0, TwoFields
        <5>4. intake' = [cache |-> intake.cache, failed |-> intake.failed,
                         holder |-> intake.holder, line |-> intake.line,
                         client |-> intake.client, request |-> [intake.request EXCEPT ![r] = q],
                         entry |-> intake.entry, spell |-> intake.spell]
          BY <4>1, <5>3, <1>s DEF HitLeaves
        <5> QED
          BY <5>1, <5>2, <5>4
      <4>2. CASE intake' = [intake EXCEPT !.request[r].pc = "failed"]
        <5> DEFINE q == [p EXCEPT !.pc = "failed"]
        <5>1. q \in Request /\ Place(q, r)
          BY <1>0 DEF Request, Place
        <5> QED
          BY <5>1, <4>2, <1>s
      <4>3. CASE intake' = [intake EXCEPT !.request[r].pc = "spell"]
        <5> DEFINE q == [p EXCEPT !.pc = "spell"]
        <5>1. q \in Request /\ Place(q, r)
          BY <3>1, <1>0 DEF Request, Place, GetEnds, InPlace
        <5> QED
          BY <5>1, <4>3, <1>s
      <4> QED
        BY <3>1, <4>1, <4>2, <4>3 DEF GetEnds
    <3>2. CASE SpellEnds(r)
      <4> DEFINE q == [pc |-> IF p.client = 0 THEN "done" ELSE "set", client |-> p.client,
                       query |-> IF intake.spell THEN "full" ELSE "degraded"]
      <4>1. q \in Request
        BY <1>0 DEF Request
      <4>2. Place(q, r)
        BY <3>2, <1>0 DEF Place, SpellEnds, InPlace
      <4>3. [[p EXCEPT !.query = q.query] EXCEPT !.pc = q.pc] = q
        BY <1>0, TwoFields
      <4>4. intake' = [intake EXCEPT !.request[r].query = q.query, !.request[r].pc = q.pc]
        BY <3>2 DEF SpellEnds
      <4>c. q.client = p.client
        OBVIOUS
      <4> HIDE DEF q
      <4>5. intake' = [cache |-> intake.cache, failed |-> intake.failed,
                       holder |-> intake.holder, line |-> intake.line,
                       client |-> intake.client, request |-> [intake.request EXCEPT ![r] = q],
                       entry |-> intake.entry, spell |-> intake.spell]
        <5> DEFINE m == [intake.request EXCEPT ![r].query = q.query]
        <5>1. [m EXCEPT ![r].pc = q.pc] = [intake.request EXCEPT ![r] = q]
          <6>1. m = [intake.request EXCEPT ![r] = [p EXCEPT !.query = q.query]]
            OBVIOUS
          <6>2. [m EXCEPT ![r].pc = q.pc] = [m EXCEPT ![r] = [m[r] EXCEPT !.pc = q.pc]]
            OBVIOUS
          <6>3. m[r] = [p EXCEPT !.query = q.query]
            BY <6>1, <1>s
          <6>4. [m EXCEPT ![r].pc = q.pc] = [m EXCEPT ![r] = q]
            BY <6>2, <6>3, <4>3
          <6> HIDE DEF m
          <6> QED
            BY <6>1, <6>4, <1>s
        <5>2. intake' = [intake EXCEPT !.request = [m EXCEPT ![r].pc = q.pc]]
          BY <4>4, <1>s
        <5> QED
          BY <5>1, <5>2, <1>s
      <4> QED
        BY <4>1, <4>2, <4>5
    <3>3. CASE SetEnds(r)
      <4> DEFINE q == [p EXCEPT !.pc = "done"]
      <4>1. q \in Request /\ Place(q, r)
        BY <3>3, <1>0 DEF Request, Place, SetEnds, InPlace
      <4> QED
        BY <4>1, <3>3, <1>s DEF SetEnds
    <3>4. CASE RequestOver(r)
      BY <3>4, <1>n, <1>s DEF RequestOver
    <3> QED
      BY <1>6, <3>1, <3>2, <3>3, <3>4
  <2>2. /\ intake'.cache = intake.cache /\ intake'.failed = intake.failed
        /\ intake'.holder = intake.holder /\ intake'.client = intake.client
    BY <2>1
  <2>3. IntakeShape'
    <3>1. intake'.request \in [Requests -> Request]
      BY <2>1, <1>s
    <3> QED
      BY <3>1, <2>1, <1>s DEF IntakeShape
  <2> QED
    BY <2>1, <2>2, <2>3, RequestMoves
<1>7. ASSUME NEW r \in Requests, RequestCancelled(r) PROVE ClientInv'
  <2>1. /\ intake'.cache = intake.cache /\ intake'.failed = intake.failed
        /\ intake'.holder = (IF intake.holder = r THEN Nobody ELSE intake.holder)
        /\ intake'.client = intake.client
        /\ intake'.request = [intake.request EXCEPT ![r] = NoRequest]
    BY <1>7, <1>s DEF RequestCancelled
  <2>2. IntakeShape'
    <3>1. intake' = [cache |-> intake'.cache, failed |-> intake'.failed,
                     holder |-> intake'.holder, line |-> intake'.line,
                     client |-> intake'.client, request |-> intake'.request,
                     entry |-> intake'.entry, spell |-> intake'.spell]
      BY <1>7, <1>s DEF RequestCancelled
    <3>2. intake'.request \in [Requests -> Request] /\ intake'.holder \in Requests \cup {Nobody}
      BY <2>1, <1>s, <1>n
    <3> QED
      BY <3>1, <3>2, <2>1, <1>s DEF IntakeShape
  <2>3. ClientOpen'
    BY <2>1, <1>0 DEF ClientOpen
  <2>4. ASSUME NEW p \in Requests PROVE Place(intake.request[p], p)'
    <3>1. CASE p = r
      <4>1. intake'.request[p] = NoRequest
        BY <2>1, <3>1, <1>s
      <4> QED
        BY <4>1 DEF Place, NoRequest
    <3>2. CASE p # r
      <4>1. intake'.request[p] = intake.request[p]
        BY <2>1, <3>2, <1>s
      <4>2. intake.holder = p => intake'.holder = p
        BY <2>1, <3>2
      <4> QED
        BY <4>1, <4>2, <2>1, <1>0 DEF Place, Settled
    <3> QED
      BY <3>1, <3>2
  <2> QED
    BY <2>2, <2>3, <2>4 DEF ClientInv
<1>8. CASE EntryAges \/ SpellChanges \/ UNCHANGED intake
  <2>1. intake' = [cache |-> intake.cache, failed |-> intake.failed,
                   holder |-> intake.holder, line |-> intake.line,
                   client |-> intake.client, request |-> intake.request,
                   entry |-> intake'.entry, spell |-> intake'.spell]
    <3>1. CASE EntryAges
      BY <3>1, <1>s DEF EntryAges
    <3>2. CASE SpellChanges
      BY <3>2, <1>s DEF SpellChanges
    <3>3. CASE UNCHANGED intake
      BY <3>3, <1>s
    <3> QED
      BY <1>8, <3>1, <3>2, <3>3
  <2>2. IntakeShape'
    BY <2>1, <1>s DEF IntakeShape
  <2>3. /\ intake'.cache = intake.cache /\ intake'.failed = intake.failed
        /\ intake'.client = intake.client /\ intake'.holder = intake.holder
        /\ intake'.request = intake.request
    BY <2>1
  <2> QED
    BY <2>2, <2>3, <1>0 DEF ClientInv, ClientOpen, Place, Settled
<1>9. CASE IntakeRestart
  <2>1. intake' = [cache |-> 0, failed |-> FALSE, holder |-> Nobody, line |-> <<>>,
                   client |-> [n \in Clients |-> "unmade"],
                   request |-> [r \in Requests |-> NoRequest],
                   entry |-> intake.entry, spell |-> intake.spell]
    BY <1>9, <1>s DEF IntakeRestart
  <2>2. IntakeShape'
    BY <2>1, <1>n DEF IntakeShape
  <2>3. intake'.cache = 0 /\ \A r \in Requests : intake'.request[r] = NoRequest
    BY <2>1
  <2> QED
    BY <2>2, <2>3 DEF ClientInv, ClientOpen, Place, NoRequest
<1> QED
  BY <1>1, <1>2, <1>3, <1>4, <1>5, <1>6, <1>7, <1>8, <1>9 DEF IntakeNext, Handles

\* The requests of a process that use Redis use one client of it, which is
\* open; and a request does without only after a ping had failed.
THEOREM OneClientOnly == Spec => []OneClient
<1>1. Init => ClientInv
  BY InitClient DEF Init
<1>2. ClientInv /\ [Next]_services => ClientInv'
  <2>1. [Next]_services => [IntakeNext]_intake
    BY DEF Next, services
  <2> QED
    BY <2>1, NextClient
<1> QED
  BY <1>1, <1>2, ClientInvOne, PTL DEF Spec

-----------------------------------------------------------------------------
(***************************************************************************)
(* The image cache.                                                        *)
(***************************************************************************)

\* What a process knows was stored, and has at most expired since.
KnownStored ==
  /\ images \in Cache
  /\ images.known \subseteq images.bucket \cup images.gone
  /\ \A v \in Viewers : ~At(v, "idle") => images.view[v].image \in Images

LEMMA InitImages == ImagesInit => KnownStored
  BY DEF ImagesInit, KnownStored, Cache, View, NoView, At

\* The request v goes on, and what is stored and known is S, K and G.
LEMMA ImagesStep ==
  ASSUME KnownStored, NEW v \in Viewers, NEW w \in View,
         w.pc # "idle" => w.image \in Images,
         NEW S \in SUBSET Images, NEW K \in SUBSET Images, NEW G \in SUBSET Images,
         K \subseteq S \cup G,
         images' = [bucket |-> S, up |-> images.up, known |-> K, gone |-> G,
                    view |-> [images.view EXCEPT ![v] = w]],
         (images.view[v].pc # "bucket" /\ w.pc = "bucket") =>
            /\ w.image \in S \/ (w.image \in images.known /\ w.image \in images.gone)
            /\ images.up \/ w.image \in images.known
  PROVE  /\ KnownStored'
         /\ \A u \in Viewers : Redirected(u) =>
              LET i == images'.view[u].image IN
              /\ i \in images'.bucket \/ (i \in images.known /\ i \in images.gone)
              /\ images'.up \/ i \in images.known
<1>1. /\ images'.bucket = S /\ images'.up = images.up /\ images'.known = K
      /\ images'.gone = G /\ images'.view = [images.view EXCEPT ![v] = w]
  OBVIOUS
<1>2. images.view \in [Viewers -> View] /\ images.up \in BOOLEAN
  BY DEF Cache, KnownStored
<1>3. KnownStored'
  <2>1. images' \in Cache
    BY <1>2 DEF Cache
  <2>2. \A u \in Viewers : ~At(u, "idle")' => images'.view[u].image \in Images
    <3>1. \A u \in Viewers : u # v => images'.view[u] = images.view[u]
      BY <1>1, <1>2
    <3>2. images'.view[v] = w
      BY <1>1, <1>2
    <3> QED
      BY <3>1, <3>2 DEF KnownStored, At
  <2> QED
    BY <2>1, <2>2, <1>1 DEF KnownStored
<1>4. \A u \in Viewers : u # v => ~Redirected(u)
  BY <1>1, <1>2 DEF Redirected, At
<1>5. images'.view[v] = w
  BY <1>1, <1>2
<1> QED
  BY <1>1, <1>3, <1>4, <1>5 DEF Redirected, At

LEMMA NextImages ==
  ASSUME KnownStored, [ImagesNext]_images
  PROVE  /\ KnownStored'
         /\ \A v \in Viewers : Redirected(v) =>
              LET i == images'.view[v].image IN
              /\ i \in images'.bucket \/ (i \in images.known /\ i \in images.gone)
              /\ images'.up \/ i \in images.known
<1> DEFINE Lands == \A v \in Viewers : Redirected(v) =>
              LET i == images'.view[v].image IN
              /\ i \in images'.bucket \/ (i \in images.known /\ i \in images.gone)
              /\ images'.up \/ i \in images.known
<1>a. \A v \in Viewers : ~At(v, "idle") => images.view[v].image \in Images
  BY DEF KnownStored
<1>0. /\ images \in Cache /\ images.known \subseteq images.bucket \cup images.gone
      /\ images.bucket \in SUBSET Images /\ images.known \in SUBSET Images
      /\ images.gone \in SUBSET Images
      /\ images.up \in BOOLEAN /\ images.view \in [Viewers -> View]
      /\ images = [bucket |-> images.bucket, up |-> images.up, known |-> images.known,
                   gone |-> images.gone, view |-> images.view]
  BY DEF KnownStored, Cache
<1>1. ASSUME NEW v \in Viewers,
             Views(v) \/ HeadEnds(v) \/ FetchEnds(v) \/ PutEnds(v) \/ Viewed(v)
      PROVE  KnownStored' /\ Lands
  <2> DEFINE i == images.view[v].image
             Goes(S, K, G, w) ==
               /\ w \in View /\ S \in SUBSET Images
               /\ w.pc # "idle" => w.image \in Images
               /\ K \in SUBSET Images /\ G \in SUBSET Images
               /\ K \subseteq S \cup G
               /\ images' = [bucket |-> S, up |-> images.up, known |-> K, gone |-> G,
                             view |-> [images.view EXCEPT ![v] = w]]
               /\ (images.view[v].pc # "bucket" /\ w.pc = "bucket") =>
                     /\ w.image \in S \/ (w.image \in images.known /\ w.image \in images.gone)
                     /\ images.up \/ w.image \in images.known
  <2>0. ASSUME NEW S, NEW K, NEW G, NEW w, Goes(S, K, G, w) PROVE KnownStored' /\ Lands
    BY <2>0, <1>0, ImagesStep
  <2> HIDE DEF Goes, Lands
  <2>v. images.view[v] \in View /\ i \in Images \cup {Origin}
    BY <1>0 DEF View
  <2>1. CASE Views(v)
    <3>1. PICK j \in Images, pc \in {"proxy", "origin"} :
            images' = [images EXCEPT !.view[v] =
              [pc |-> IF pc = "origin" THEN pc
                      ELSE IF j \in images.known THEN "bucket" ELSE "head", image |-> j]]
      BY <2>1 DEF Views
    <3> DEFINE w == [pc |-> IF pc = "origin" THEN pc
                            ELSE IF j \in images.known THEN "bucket" ELSE "head",
                     image |-> j]
    <3>2. w \in View /\ w.image \in Images
      BY DEF View
    <3>3. Goes(images.bucket, images.known, images.gone, w)
      BY <3>1, <3>2, <1>0 DEF Goes
    <3> QED
      BY <3>3, <2>0
  <2>2. CASE HeadEnds(v)
    <3>1. CASE /\ images.up /\ i \in images.bucket
               /\ images' = [images EXCEPT !.known = @ \cup {i}, !.view[v].pc = "bucket"]
      <4> DEFINE w == [images.view[v] EXCEPT !.pc = "bucket"]
      <4>1. w \in View /\ w.image = i
        BY <2>v DEF View
      <4>i. i \in Images
        BY <1>a, <2>2 DEF At, HeadEnds
      <4>2. Goes(images.bucket, images.known \cup {i}, images.gone, w)
        BY <3>1, <4>1, <1>0, <4>i DEF Goes
      <4> QED
        BY <4>2, <2>0
    <3>2. CASE images' = [images EXCEPT !.view[v].pc = "fetch"]
      <4> DEFINE w == [images.view[v] EXCEPT !.pc = "fetch"]
      <4>1. w \in View /\ w.pc = "fetch" /\ w.image = i
        BY <2>v DEF View
      <4>i. i \in Images
        BY <1>a, <2>2 DEF At, HeadEnds
      <4>2. Goes(images.bucket, images.known, images.gone, w)
        BY <3>2, <4>1, <1>0, <4>i DEF Goes
      <4> QED
        BY <4>2, <2>0
    <3> QED
      BY <2>2, <3>1, <3>2 DEF HeadEnds
  <2>3. CASE FetchEnds(v)
    <3>1. ASSUME NEW pc \in {"put", "origin"}, images' = [images EXCEPT !.view[v].pc = pc]
          PROVE  KnownStored' /\ Lands
      <4> DEFINE w == [images.view[v] EXCEPT !.pc = pc]
      <4>1. w \in View /\ w.pc = pc /\ w.image = i
        BY <2>v DEF View
      <4>i. i \in Images
        BY <1>a, <2>3 DEF At, FetchEnds
      <4>2. Goes(images.bucket, images.known, images.gone, w)
        BY <3>1, <4>1, <1>0, <4>i DEF Goes
      <4> QED
        BY <4>2, <2>0
    <3>2. CASE images' = [images EXCEPT !.view[v].pc = "put", !.known = images.known]
      <4>1. images' = [images EXCEPT !.view[v].pc = "put"]
        BY <3>2, <1>0
      <4> QED
        BY <4>1, <3>1
    <3> QED
      BY <2>3, <3>1, <3>2 DEF FetchEnds, KnownOnFetch
  <2>4. CASE PutEnds(v)
    <3>1. CASE /\ images.up
               /\ images' = [images EXCEPT !.bucket = @ \cup {i}, !.gone = @ \ {i},
                                           !.known = @ \cup {i}, !.view[v].pc = "bucket"]
      <4> DEFINE w == [images.view[v] EXCEPT !.pc = "bucket"]
      <4>1. w \in View /\ w.image = i
        BY <2>v DEF View
      <4>i. i \in Images
        BY <1>a, <2>4 DEF At, PutEnds
      <4>2. Goes(images.bucket \cup {i}, images.known \cup {i}, images.gone \ {i}, w)
        BY <3>1, <4>1, <1>0, <4>i DEF Goes
      <4> QED
        BY <4>2, <2>0
    <3>2. CASE /\ images.up
               /\ images' = [images EXCEPT !.bucket = @ \cup {i}, !.gone = @ \ {i},
                                           !.view[v].pc = "origin"]
      <4> DEFINE w == [images.view[v] EXCEPT !.pc = "origin"]
      <4>1. w \in View /\ w.pc = "origin" /\ w.image = i
        BY <2>v DEF View
      <4>i. i \in Images
        BY <1>a, <2>4 DEF At, PutEnds
      <4>2. Goes(images.bucket \cup {i}, images.known, images.gone \ {i}, w)
        BY <3>2, <4>1, <1>0, <4>i DEF Goes
      <4> QED
        BY <4>2, <2>0
    <3>3. CASE images' = [images EXCEPT !.view[v].pc = "origin"]
      <4> DEFINE w == [images.view[v] EXCEPT !.pc = "origin"]
      <4>1. w \in View /\ w.pc = "origin" /\ w.image = i
        BY <2>v DEF View
      <4>i. i \in Images
        BY <1>a, <2>4 DEF At, PutEnds
      <4>2. Goes(images.bucket, images.known, images.gone, w)
        BY <3>3, <4>1, <1>0, <4>i DEF Goes
      <4> QED
        BY <4>2, <2>0
    <3> QED
      BY <2>4, <3>1, <3>2, <3>3 DEF PutEnds
  <2>5. CASE Viewed(v)
    <3>1. NoView \in View /\ NoView.pc = "idle"
      BY DEF NoView, View
    <3>2. Goes(images.bucket, images.known, images.gone, NoView)
      BY <2>5, <3>1, <1>0 DEF Viewed, Goes
    <3> QED
      BY <3>2, <2>0
  <2> QED
    BY <1>1, <2>1, <2>2, <2>3, <2>4, <2>5
<1>2. ASSUME NEW i \in Images, ObjectExpires(i) PROVE KnownStored' /\ Lands
  <2>1. images' = [bucket |-> images.bucket \ {i}, up |-> images.up, known |-> images.known,
                   gone |-> images.gone \cup {i}, view |-> images.view]
    BY <1>2, <1>0 DEF ObjectExpires
  <2>2. KnownStored'
    BY <2>1, <1>0, <1>a DEF KnownStored, Cache, At
  <2> QED
    BY <2>1, <2>2 DEF Redirected, At
<1>3. CASE S3Changes \/ UNCHANGED images
  <2>1. images' = [bucket |-> images.bucket, up |-> images'.up, known |-> images.known,
                   gone |-> images.gone, view |-> images.view]
        /\ images'.up \in BOOLEAN
    BY <1>3, <1>0 DEF S3Changes
  <2>2. KnownStored'
    BY <2>1, <1>0, <1>a DEF KnownStored, Cache, At
  <2> QED
    BY <2>1, <2>2 DEF Redirected, At
<1>4. CASE ImagesCrash
  <2>1. images' = [bucket |-> images.bucket, up |-> images.up, known |-> {},
                   gone |-> images.gone, view |-> [v \in Viewers |-> NoView]]
    BY <1>4, <1>0 DEF ImagesCrash
  <2>2. KnownStored'
    BY <2>1, <1>0 DEF KnownStored, Cache, View, NoView, At
  <2> QED
    BY <2>1, <2>2 DEF Redirected, At, NoView
<1> QED
  BY <1>1, <1>2, <1>3, <1>4 DEF ImagesNext

\* A redirect to the bucket is to an object that is there and can be had, or
\* that was when the process came to know it.
THEOREM RedirectsLand == Spec => RedirectLands
<1>1. Init => KnownStored
  BY InitImages DEF Init
<1>2. KnownStored /\ [Next]_services =>
        /\ KnownStored'
        /\ [\A v \in Viewers : Redirected(v) =>
              LET i == images'.view[v].image IN
              /\ i \in images'.bucket \/ (i \in images.known /\ i \in images.gone)
              /\ images'.up \/ i \in images.known]_images
  <2>1. [Next]_services => [ImagesNext]_images
    BY DEF Next, services
  <2> QED
    BY <2>1, NextImages
<1> QED
  BY <1>1, <1>2, PTL DEF Spec, RedirectLands

-----------------------------------------------------------------------------
(***************************************************************************)
(* The clarification of a query.                                           *)
(***************************************************************************)

ClarifyInv ==
  /\ clarify.pc = "asked" => clarify.said = Single
  /\ ClarifyTypeOK
  /\ ObviousClarified

\* The heuristic's own answer.
LEMMA HeuristicClear ==
  ASSUME NEW split \in BOOLEAN
  PROVE  /\ Heuristic(split) \in Answer
         /\ split => Heuristic(split).ambiguous
         /\ Heuristic(split).ambiguous =>
              Len(Heuristic(split).options) = 3 /\ Literal(Heuristic(split).options)
<1> DEFINE three == <<"other", "other", "literal">>
<1>1. three \in Seq(Option) /\ Len(three) = 3 /\ 3 \in DOMAIN three /\ three[3] = "literal"
  BY DEF Option
<1>2. Literal(three)
  BY <1>1 DEF Literal
<1> HIDE DEF three
<1>3. Heuristic(split) = IF split THEN [ambiguous |-> TRUE, options |-> three] ELSE Single
  BY DEF Heuristic, three
<1> QED
  BY <1>1, <1>2, <1>3 DEF Single, Answer

ClearOf(answer, split, said) ==
  /\ split => answer.ambiguous
  /\ answer.ambiguous =>
       /\ Len(answer.options) \in 2 .. 3
       /\ Literal(answer.options) \/ (Literal(said.options) /\ Len(said.options) > 3)

LEMMA CombinedClear ==
  ASSUME NEW said \in Answer, NEW split \in BOOLEAN
  PROVE  Combined(said, split) \in Answer /\ ClearOf(Combined(said, split), split, said)
<1> DEFINE given == said.options
           options == WithLiteral(given)
           n == Len(options)
           heuristic == Heuristic(split)
<1>1. given \in Seq(Option) /\ Len(given) \in Nat /\ DOMAIN given = 1 .. Len(given)
  BY DEF Answer
<1>2. /\ options \in Seq(Option) /\ n \in Nat /\ DOMAIN options = 1 .. n
      /\ n \in {Len(given), Len(given) + 1}
      /\ \E i \in 1 .. n : options[i] = "literal"
      /\ \A i \in 1 .. Len(given) : options[i] = given[i]
      /\ n = Len(given) => \E i \in 1 .. n : given[i] = "literal"
      /\ n = Len(given) + 1 => /\ options[n] = "literal"
                              /\ \A i \in 1 .. Len(given) : given[i] # "literal"
  <2>1. CASE \E i \in DOMAIN given : given[i] = "literal"
    BY <2>1, <1>1 DEF WithLiteral
  <2>2. CASE ~\E i \in DOMAIN given : given[i] = "literal"
    <3>1. options = Append(given, "literal")
      BY <2>2 DEF WithLiteral
    <3>2. /\ n = Len(given) + 1 /\ options[n] = "literal" /\ options \in Seq(Option)
          /\ \A i \in 1 .. Len(given) : options[i] = given[i]
      BY <3>1, <1>1 DEF Option
    <3> HIDE DEF options
    <3> QED
      BY <3>2, <2>2, <1>1
  <2> QED
    BY <2>1, <2>2
<1>m. n \in Nat /\ Len(given) \in Nat /\ Len(given) <= n
  <2>1. n \in Nat /\ n \in {Len(given), Len(given) + 1}
    BY <1>2
  <2> HIDE DEF n
  <2> QED
    BY <2>1, <1>1
<1> HIDE DEF options, n
<1>h. heuristic \in Answer /\ ClearOf(heuristic, split, said)
  BY HeuristicClear DEF ClearOf
<1>3. CASE ~said.ambiguous
  <2>1. EnsureOptions(said, split) = said
    BY <1>3 DEF EnsureOptions
  <2>2. Combined(said, split) = IF split THEN heuristic ELSE said
    BY <2>1, <1>3 DEF Combined
  <2> QED
    BY <2>2, <1>3, <1>h DEF ClearOf
<1>4. CASE said.ambiguous /\ n < 2
  <2>1. EnsureOptions(said, split) = heuristic
    BY <1>4, <1>2 DEF EnsureOptions, options, n
  <2>2. Combined(said, split) = heuristic
    BY <2>1 DEF Combined
  <2> QED
    BY <2>2, <1>h
<1>5. CASE said.ambiguous /\ n \in 2 .. 3
  <2> DEFINE answer == [ambiguous |-> TRUE, options |-> options]
  <2>1. EnsureOptions(said, split) = answer
    BY <1>5, <1>2 DEF EnsureOptions, options, n
  <2>2. Combined(said, split) = answer
    BY <2>1 DEF Combined
  <2>3. Literal(options) /\ Len(options) \in 2 .. 3
    BY <1>2, <1>5 DEF Literal, n
  <2>4. answer \in Answer /\ ClearOf(answer, split, said)
    BY <2>3, <1>2 DEF ClearOf, Answer
  <2> QED
    BY <2>2, <2>4
<1>6. CASE said.ambiguous /\ n > 3
  <2> DEFINE three == <<options[1], options[2], options[n]>>
             answer == [ambiguous |-> TRUE, options |-> three]
  <2>1. EnsureOptions(said, split) = answer
    BY <1>6, <1>2 DEF EnsureOptions, options, n
  <2>2. Combined(said, split) = answer
    BY <2>1 DEF Combined
  <2>3. 1 \in 1 .. n /\ 2 \in 1 .. n /\ n \in 1 .. n
    BY <1>6, <1>m
  <2>4. options[1] \in Option /\ options[2] \in Option /\ options[n] \in Option
    BY <2>3, <1>2
  <2>5. three \in Seq(Option) /\ Len(three) = 3 /\ 3 \in DOMAIN three
          /\ three[3] = options[n]
    BY <2>4
  <2>6. answer \in Answer
    BY <2>5 DEF Answer
  <2> HIDE DEF three
  <2>7. CASE n = Len(given)
    <3>1. Literal(given) /\ Len(given) > 3
      BY <2>7, <1>1, <1>2, <1>6 DEF Literal
    <3> QED
      BY <2>2, <2>5, <2>6, <3>1 DEF ClearOf
  <2>8. CASE n = Len(given) + 1
    <3>1. Literal(three)
      BY <2>5, <2>8, <1>2 DEF Literal
    <3> QED
      BY <2>2, <2>5, <2>6, <3>1 DEF ClearOf
  <2> QED
    BY <2>7, <2>8, <1>2
<1>7. n < 2 \/ n \in 2 .. 3 \/ n > 3
  BY <1>m
<1>8. said.ambiguous \in BOOLEAN
  BY DEF Answer
<1> QED
  BY <1>3, <1>4, <1>5, <1>6, <1>7, <1>8

LEMMA ClearIs ==
  ObviousClarified <=>
    (clarify.pc = "answered" => ClearOf(clarify.answer, clarify.split, clarify.said))
  BY DEF ObviousClarified, ClearOf

LEMMA ClearIsNext ==
  ObviousClarified' <=>
    (clarify'.pc = "answered" => ClearOf(clarify'.answer, clarify'.split, clarify'.said))
  BY DEF ObviousClarified, ClearOf

LEMMA InitClarify == ClarifyInit => ClarifyInv
  BY ClearIs DEF ClarifyInit, ClarifyInv, NoAnalysis, ClarifyTypeOK, Analysis, Single, Answer

LEMMA NextClarify == ClarifyInv /\ [ClarifyNext]_clarify => ClarifyInv'
<1> SUFFICES ASSUME ClarifyInv, [ClarifyNext]_clarify PROVE ClarifyInv'
  OBVIOUS
<1>0. /\ clarify \in Analysis
      /\ clarify.pc = "asked" => clarify.said = Single
      /\ clarify = [pc |-> clarify.pc, split |-> clarify.split, said |-> clarify.said,
                    answer |-> clarify.answer]
      /\ clarify.split \in BOOLEAN /\ clarify.said \in Answer /\ clarify.answer \in Answer
  BY DEF ClarifyInv, ClarifyTypeOK, Analysis
<1>n. NoAnalysis \in Analysis /\ Single \in Answer /\ NoAnalysis.pc = "idle"
  BY DEF NoAnalysis, Analysis, Single, Answer
<1>1. CASE Analyses
  <2>1. PICK split \in BOOLEAN :
          clarify' = [pc |-> "asked", split |-> split, said |-> Single, answer |-> Single]
    BY <1>1 DEF Analyses, NoAnalysis
  <2>2. clarify' \in Analysis /\ clarify'.pc = "asked" /\ clarify'.said = Single
    BY <2>1, <1>n DEF Analysis
  <2> QED
    BY <2>2 DEF ClarifyInv, ClarifyTypeOK, ObviousClarified
<1>2. CASE ModelSays
  <2>1. PICK n \in 0 .. MaxOptions, ambiguous \in BOOLEAN :
          \E options \in [1 .. n -> Option] :
            LET said == [ambiguous |-> ambiguous, options |-> options]
            IN clarify' = [clarify EXCEPT !.pc = "answered", !.said = said,
                                          !.answer = Combined(said, clarify.split)]
    BY <1>2 DEF ModelSays
  <2>2. PICK options \in [1 .. n -> Option] :
          clarify' = [clarify EXCEPT !.pc = "answered",
                        !.said = [ambiguous |-> ambiguous, options |-> options],
                        !.answer = Combined([ambiguous |-> ambiguous, options |-> options],
                                            clarify.split)]
    BY <2>1
  <2> DEFINE said == [ambiguous |-> ambiguous, options |-> options]
  <2>3. options \in Seq(Option)
    OBVIOUS
  <2>4. said \in Answer
    BY <2>3 DEF Answer
  <2>5. clarify' = [pc |-> "answered", split |-> clarify.split, said |-> said,
                    answer |-> Combined(said, clarify.split)]
    BY <2>2, <1>0
  <2> HIDE DEF said
  <2>6. /\ Combined(said, clarify.split) \in Answer
        /\ ClearOf(Combined(said, clarify.split), clarify.split, said)
    BY <2>4, <1>0, CombinedClear
  <2>7. /\ clarify'.pc = "answered" /\ clarify'.split = clarify.split
        /\ clarify'.said = said /\ clarify'.answer = Combined(said, clarify.split)
    BY <2>5
  <2>8. clarify' \in Analysis
    BY <2>4, <2>5, <2>6, <1>0 DEF Analysis
  <2> QED
    BY <2>6, <2>7, <2>8, ClearIsNext DEF ClarifyInv, ClarifyTypeOK
<1>3. CASE ModelFails
  <2>1. clarify' = [pc |-> "answered", split |-> clarify.split, said |-> Single,
                    answer |-> Heuristic(clarify.split)]
    <3> DEFINE answer == Heuristic(clarify.split)
    <3>1. clarify' = [clarify EXCEPT !.pc = "answered", !.answer = answer]
          /\ clarify.said = Single
      BY <1>3, <1>0 DEF ModelFails
    <3> HIDE DEF answer
    <3>2. clarify' = [pc |-> "answered", split |-> clarify.split, said |-> clarify.said,
                      answer |-> answer]
      BY <3>1, <1>0
    <3> USE DEF answer
    <3> QED
      BY <3>1, <3>2
  <2>2. /\ clarify'.pc = "answered" /\ clarify'.split = clarify.split
        /\ clarify'.said = Single /\ clarify'.answer = Heuristic(clarify.split)
    BY <2>1
  <2>3. clarify' \in Analysis
    BY <2>1, <1>0, <1>n, HeuristicClear DEF Analysis
  <2>5. ClearOf(Heuristic(clarify.split), clarify.split, Single)
    BY <1>0, HeuristicClear DEF ClearOf
  <2> QED
    BY <2>2, <2>3, <2>5, ClearIsNext DEF ClarifyInv, ClarifyTypeOK
<1>4. CASE ClarifyGone
  BY <1>4, <1>n DEF ClarifyGone, ClarifyInv, ClarifyTypeOK, ObviousClarified
<1>5. CASE UNCHANGED clarify
  BY <1>5, ClearIs, ClearIsNext DEF ClarifyInv, ClarifyTypeOK
<1> QED
  BY <1>1, <1>2, <1>3, <1>4, <1>5 DEF ClarifyNext

\* A query that the heuristic splits is never passed for one product, and
\* the options are two or three of which one is the query as typed, unless
\* the cut took the one a model had offered among more than three: whatever
\* the model says, with any number of options.
THEOREM ObviousAreClarified == Spec => []ObviousClarified
<1>1. Init => ClarifyInv
  BY InitClarify DEF Init
<1>2. ClarifyInv /\ [Next]_services => ClarifyInv'
  <2>1. [Next]_services => [ClarifyNext]_clarify
    BY DEF Next, services
  <2> QED
    BY <2>1, NextClarify
<1>3. ClarifyInv => ObviousClarified
  BY DEF ClarifyInv
<1> QED
  BY <1>1, <1>2, <1>3, PTL DEF Spec

(***************************************************************************)
(* The history of a chat session.                                          *)
(***************************************************************************)

\* What history h has of turn t.
Kept(h, t) ==
  Places(h, t) # {} => Saved(t) /\ InOnePiece(h, chat.turn[t].history, t)

Talking == {"model", "tools", "save"}
Over == {"replied", "failed"}

\* What a turn says begins with the user's message and is not interrupted.
Speaks(h, t) == \E k \in DOMAIN h : Places(h, t) = k .. Len(h) /\ h[k].kind = "user"

TurnInv(t) ==
  LET r == chat.turn[t]
  IN  /\ r.pc \in {"new", "load"} => r.history = <<>>
      /\ r.pc \in Talking => r.history # <<>>
      /\ r.history # <<>> => Speaks(r.history, t)
      /\ r.pc = "save" \/ Saved(t) =>
           r.history # <<>> /\ r.history[Len(r.history)].kind = "reply"
      /\ Saved(t) => r.pc \in Over
      \* Of other turns it has read all they said, and of a turn it has not
      \* read, nothing was to be read.
      /\ \A u \in Turns \ {t} : Kept(r.history, u)
      /\ r.pc \in Talking /\ r.redis =>
           /\ r.base <= Len(chat.log)
           /\ \A u \in Turns : Places(r.history, u) = {} => Undone(u, r.base)

HistoryInv ==
  /\ chat \in Session
  /\ \A t \in Turns : TurnInv(t)
  /\ \A t \in Turns : Kept(chat.stored, t)
  /\ \A t \in Turns : Places(chat.stored, t) = {} => Undone(t, Len(chat.log))

LEMMA NewTurnType == NewTurn \in Turn
BY ChatAssumption DEF NewTurn, Turn

LEMMA InitHistory == ChatInit => HistoryInv
<1> SUFFICES ASSUME ChatInit PROVE HistoryInv
  OBVIOUS
<1>1. /\ chat.stored = <<>> /\ chat.log = <<>>
      /\ \A t \in Turns : chat.turn[t] = NewTurn
      /\ chat.turn \in [Turns -> Turn]
  BY NewTurnType DEF ChatInit
<1>2. chat \in Session
  <2>1. chat = [stored |-> <<>>, turn |-> [t \in Turns |-> NewTurn], log |-> <<>>]
    BY DEF ChatInit
  <2>2. <<>> \in Seq(Message) /\ <<>> \in Seq(Event)
    OBVIOUS
  <2>3. QED
    BY <2>1, <2>2, NewTurnType DEF Session
<1>3. \A t \in Turns : ~Saved(t) /\ Undone(t, 0) /\ Places(<<>>, t) = {}
  <2>1. DOMAIN chat.log = {} /\ DOMAIN <<>> = {}
    BY <1>1
  <2>2. QED
    BY <2>1 DEF Saved, Undone, Places
<1>4. ASSUME NEW t \in Turns PROVE TurnInv(t)
  <2>1. /\ chat.turn[t].pc = "new" /\ chat.turn[t].history = <<>>
    BY <1>1 DEF NewTurn
  <2>2. \A u \in Turns : Kept(<<>>, u)
    BY <1>3 DEF Kept
  <2>3. QED
    BY <1>3, <2>1, <2>2 DEF TurnInv, Talking
<1>5. QED
  BY <1>1, <1>2, <1>3, <1>4 DEF HistoryInv, Kept

\* A history that goes on with messages of t.
Continues(h, more, t) ==
  /\ Len(h) <= Len(more)
  /\ \A i \in 1 .. Len(h) : more[i] = h[i]
  /\ \A i \in Len(h) + 1 .. Len(more) : more[i].by = t

\* What other turns said in it stays.
LEMMA PieceStays ==
  ASSUME NEW h \in Seq(Message), NEW more \in Seq(Message), NEW t, NEW u, u # t,
         Continues(h, more, t)
  PROVE  /\ Places(more, u) = Places(h, u)
         /\ \A own \in Seq(Message) : InOnePiece(h, own, u) => InOnePiece(more, own, u)
<1>1. /\ Len(h) \in Nat /\ Len(more) \in Nat
      /\ DOMAIN h = 1 .. Len(h) /\ DOMAIN more = 1 .. Len(more)
      /\ Len(h) <= Len(more)
      /\ \A i \in 1 .. Len(h) : more[i] = h[i]
      /\ \A i \in Len(h) + 1 .. Len(more) : more[i].by = t
  BY DEF Continues
<1>2. Places(more, u) = Places(h, u)
  BY <1>1 DEF Places
<1>3. ASSUME NEW own \in Seq(Message), InOnePiece(h, own, u)
      PROVE  InOnePiece(more, own, u)
  <2>1. PICK k \in DOMAIN own :
          /\ Places(own, u) = k .. Len(own)
          /\ own[k].kind = "user"
          /\ \E i \in DOMAIN h :
                /\ Places(h, u) = i .. i + Len(own) - k
                /\ \A j \in k .. Len(own) : h[i + j - k] = own[j]
    BY <1>3 DEF InOnePiece
  <2>2. PICK i \in DOMAIN h :
          /\ Places(h, u) = i .. i + Len(own) - k
          /\ \A j \in k .. Len(own) : h[i + j - k] = own[j]
    BY <2>1
  <2>3. i \in DOMAIN more
    BY <1>1, <2>2
  <2>4. ASSUME NEW j \in k .. Len(own) PROVE more[i + j - k] = own[j]
    <3>1. i \in Nat /\ k \in Nat /\ Len(own) \in Nat /\ j \in Nat
      BY <1>1, <2>1, <2>2
    <3>2. i + j - k \in i .. i + Len(own) - k
      BY <3>1, <2>4
    <3>3. i + j - k \in DOMAIN h
      BY <2>2, <3>2 DEF Places
    <3>4. more[i + j - k] = h[i + j - k]
      BY <1>1, <3>3
    <3>5. QED
      BY <2>2, <2>4, <3>4
  <2>5. QED
    BY <1>2, <2>1, <2>2, <2>3, <2>4 DEF InOnePiece
<1>4. QED
  BY <1>2, <1>3

LEMMA TurnTypes ==
  ASSUME HistoryInv, NEW t \in Turns
  PROVE  /\ chat.turn[t] \in Turn /\ chat.turn[t].history \in Seq(Message)
         /\ chat.turn[t].pc \in {"new", "load", "model", "tools", "save", "replied", "failed"}
         /\ chat.turn[t].base \in Nat /\ chat.stored \in Seq(Message) /\ chat.log \in Seq(Event)
         /\ chat.turn \in [Turns -> Turn] /\ TurnInv(t)
BY DEF HistoryInv, Session, Turn

LEMMA BecomesMakes ==
  ASSUME chat \in Session, NEW t \in Turns, NEW r \in Turn, Becomes(t, r)
  PROVE  /\ chat' \in Session /\ chat'.stored = chat.stored /\ chat'.log = chat.log
         /\ chat'.turn = [chat.turn EXCEPT ![t] = r]
BY DEF Session, Becomes

\* The log tells the same of what has happened.
LEMMA LogSame ==
  ASSUME chat'.log = chat.log
  PROVE  \A u : (Saved(u)' <=> Saved(u)) /\ \A n : Undone(u, n)' <=> Undone(u, n)
BY DEF Saved, SavedAt, Undone, Unaware

LEMMA LogGrows ==
  ASSUME chat.log \in Seq(Event), NEW e \in Event, chat'.log = Append(chat.log, e)
  PROVE  /\ \A u : Saved(u) => Saved(u)'
         /\ \A u : Saved(u)' => Saved(u) \/ (e.what = "saved" /\ e.by = u)
         /\ \A u : \A n \in 0 .. Len(chat.log) : Undone(u, n)' <=> Undone(u, n)
<1>0. PICK n \in Nat : n = Len(chat.log)
  OBVIOUS
<1>1. /\ n \in Nat /\ DOMAIN chat.log = 1 .. n /\ DOMAIN chat'.log = 1 .. n + 1
      /\ chat'.log[n + 1] = e
  BY <1>0
<1>2. ASSUME NEW i \in 1 .. n PROVE chat'.log[i] = chat.log[i]
  BY <1>0, <1>1
<1>3. ASSUME NEW u, NEW i \in 1 .. n PROVE SavedAt(u, i)' <=> SavedAt(u, i)
  BY <1>2 DEF SavedAt
<1>4. ASSUME NEW i \in 1 .. n, NEW j PROVE Unaware(i, j)' <=> Unaware(i, j)
  BY <1>2 DEF Unaware
<1>5. ASSUME NEW u PROVE SavedAt(u, n + 1)' <=> e.what = "saved" /\ e.by = u
  BY <1>1 DEF SavedAt
<1>6. \A i \in 1 .. n + 1 : i \in 1 .. n \/ i = n + 1
  BY <1>1
<1>7. \A i \in 1 .. n : i \in 1 .. n + 1
  BY <1>1
<1>8. ASSUME NEW u PROVE /\ Saved(u) => Saved(u)'
                         /\ Saved(u)' => Saved(u) \/ (e.what = "saved" /\ e.by = u)
  BY <1>1, <1>3, <1>5, <1>6, <1>7 DEF Saved
<1>9. ASSUME NEW u, NEW m \in 0 .. n PROVE Undone(u, m)' <=> Undone(u, m)
  <2>1. \A i \in 1 .. m : i \in 1 .. n /\ \A j \in i + 1 .. m : j \in 1 .. n
    BY <1>1
  <2>2. QED
    BY <1>3, <1>4, <2>1 DEF Undone
<1>10. QED
  BY <1>0, <1>8, <1>9

\* A step in which nothing is said: turns begin or are over.
LEMMA QuietStep ==
  ASSUME HistoryInv, chat' \in Session, chat'.stored = chat.stored, chat'.log = chat.log,
         \A u \in Turns :
           /\ chat'.turn[u].history = chat.turn[u].history
           /\ \/ chat'.turn[u] = chat.turn[u]
              \/ chat'.turn[u].pc \in Over
              \/ chat.turn[u].pc = "new" /\ chat'.turn[u].pc = "load"
  PROVE  HistoryInv'
<1>1. \A u : (Saved(u)' <=> Saved(u)) /\ \A n : Undone(u, n)' <=> Undone(u, n)
  BY LogSame
<1>2. \A h : \A u \in Turns : Kept(h, u)' <=> Kept(h, u)
  BY <1>1 DEF Kept
<1>3. ASSUME NEW t \in Turns PROVE TurnInv(t)'
  <2> DEFINE r == chat.turn[t]
             q == chat'.turn[t]
  <2>1. TurnInv(t) /\ q.history = r.history
    BY DEF HistoryInv
  <2>2. \A u \in Turns \ {t} : Kept(r.history, u)'
    BY <1>2, <2>1 DEF TurnInv
  <2>3. CASE q = r
    BY <1>1, <2>1, <2>2, <2>3 DEF TurnInv
  <2>4. CASE q.pc \in Over
    BY <1>1, <2>1, <2>2, <2>4 DEF TurnInv, Talking, Over, Speaks
  <2>5. CASE r.pc = "new" /\ q.pc = "load"
    BY <1>1, <2>1, <2>2, <2>5 DEF TurnInv, Talking, Over, Speaks
  <2>6. QED
    BY <2>3, <2>4, <2>5
<1>4. QED
  BY <1>1, <1>2, <1>3 DEF HistoryInv

\* Turn t, which is not over, says what comes after h, which it has read or
\* said.
LEMMA SayStep ==
  ASSUME HistoryInv, NEW t \in Turns, NEW r \in Turn, Becomes(t, r),
         chat.turn[t].pc \notin Over, r.pc \in Talking,
         NEW h \in Seq(Message),
         h = chat.turn[t].history \/ (chat.turn[t].history = <<>> /\ h \in {<<>>, chat.stored}),
         \A u \in Turns \ {t} : Kept(h, u),
         Continues(h, r.history, t), r.history # <<>>,
         Speaks(r.history, t),
         r.pc = "save" => r.history[Len(r.history)].kind = "reply",
         r.redis => /\ r.base <= Len(chat.log)
                    /\ \A u \in Turns \ {t} : Places(h, u) = {} => Undone(u, r.base)
  PROVE  HistoryInv'
<1>1. /\ chat' \in Session /\ chat'.stored = chat.stored /\ chat'.log = chat.log
      /\ chat'.turn = [chat.turn EXCEPT ![t] = r]
  BY BecomesMakes DEF HistoryInv
<1>2. /\ \A u : (Saved(u)' <=> Saved(u)) /\ \A n : Undone(u, n)' <=> Undone(u, n)
      /\ ~Saved(t)
  BY <1>1, LogSame, TurnTypes DEF TurnInv
<1>3. chat'.turn[t] = r /\ \A u \in Turns \ {t} : chat'.turn[u] = chat.turn[u]
  BY <1>1, TurnTypes
<1>4. \A g : \A u \in Turns \ {t} : Kept(g, u)' <=> Kept(g, u)
  BY <1>2, <1>3 DEF Kept
<1>5. \A g : Kept(g, t) => Kept(g, t)'
  BY <1>2 DEF Kept, Places
<1>6. r.history \in Seq(Message)
  BY DEF Turn
<1>7. ASSUME NEW u \in Turns \ {t}
      PROVE  /\ TurnInv(u)'
             /\ Places(r.history, u) = Places(h, u)
             /\ Kept(r.history, u)'
  <2>1. TurnInv(u)'
    <3>1. TurnInv(u)
      BY TurnTypes
    <3>2. \A v \in Turns \ {u} : Kept(chat.turn[u].history, v)'
      BY <1>3, <1>4, <1>5, <3>1 DEF TurnInv
    <3>3. chat'.turn[u] = chat.turn[u] /\ chat'.log = chat.log
      BY <1>1, <1>3
    <3>4. QED
      BY <1>2, <3>1, <3>2, <3>3 DEF TurnInv
  <2>2. /\ Places(r.history, u) = Places(h, u)
        /\ \A own \in Seq(Message) : InOnePiece(h, own, u) => InOnePiece(r.history, own, u)
    BY <1>6, PieceStays
  <2>3. Kept(r.history, u)
    BY <2>2, TurnTypes DEF Kept
  <2>4. QED
    BY <1>4, <2>1, <2>2, <2>3
<1>8. TurnInv(t)'
  <2>1. Places(r.history, t) # {}
    <3>1. PICK k \in DOMAIN r.history : Places(r.history, t) = k .. Len(r.history)
      BY DEF Speaks
    <3>2. k \in k .. Len(r.history)
      BY <1>6, <3>1
    <3>3. QED
      BY <3>1, <3>2
  <2>2. \A u \in Turns \ {t} : Kept(r.history, u)'
    BY <1>7
  <2>3. r.redis => /\ r.base <= Len(chat.log)
                   /\ \A u \in Turns : Places(r.history, u) = {} => Undone(u, r.base)'
    BY <1>2, <1>7, <2>1
  <2>4. r.pc \notin {"new", "load"} /\ ~Saved(t)'
    BY <1>2 DEF Talking
  <2>5. QED
    BY <1>1, <1>3, <2>2, <2>3, <2>4 DEF TurnInv
<1>9. QED
  BY <1>1, <1>2, <1>4, <1>5, <1>7, <1>8 DEF HistoryInv

LEMMA PingsStep ==
  ASSUME HistoryInv, NEW t \in Turns, Pings(t)
  PROVE  HistoryInv'
<1>1. PICK up \in BOOLEAN : Becomes(t, [chat.turn[t] EXCEPT !.pc = "load", !.redis = up])
  BY DEF Pings
<1> DEFINE r == [chat.turn[t] EXCEPT !.pc = "load", !.redis = up]
<1>2. /\ r \in Turn /\ r.pc = "load" /\ r.history = chat.turn[t].history
      /\ chat.turn[t].pc = "new"
  BY TurnTypes DEF Turn, Pings
<1> HIDE DEF r
<1>3. /\ chat' \in Session /\ chat'.stored = chat.stored /\ chat'.log = chat.log
      /\ chat'.turn = [chat.turn EXCEPT ![t] = r]
  BY <1>1, <1>2, BecomesMakes DEF HistoryInv, r
<1>4. chat'.turn[t] = r /\ \A u \in Turns \ {t} : chat'.turn[u] = chat.turn[u]
  BY <1>3, TurnTypes
<1>5. QED
  BY <1>2, <1>3, <1>4, QuietStep

\* Turn t is over, without saving anything.
LEMMA OverStep ==
  ASSUME HistoryInv, NEW t \in Turns, NEW pc \in Over,
         Becomes(t, [chat.turn[t] EXCEPT !.pc = pc])
  PROVE  HistoryInv'
<1> DEFINE r == [chat.turn[t] EXCEPT !.pc = pc]
<1>1. r \in Turn /\ r.pc = pc /\ r.history = chat.turn[t].history
  BY TurnTypes DEF Turn, Over
<1>2. Becomes(t, r)
  OBVIOUS
<1> HIDE DEF r
<1>3. /\ chat' \in Session /\ chat'.stored = chat.stored /\ chat'.log = chat.log
      /\ chat'.turn = [chat.turn EXCEPT ![t] = r]
  BY <1>1, <1>2, BecomesMakes DEF HistoryInv
<1>4. chat'.turn[t] = r /\ \A u \in Turns \ {t} : chat'.turn[u] = chat.turn[u]
  BY <1>3, TurnTypes
<1>5. QED
  BY <1>1, <1>3, <1>4, QuietStep

LEMMA FailsStep ==
  ASSUME HistoryInv, NEW t \in Turns, Fails(t)
  PROVE  HistoryInv'
BY OverStep DEF Fails, Over

LEMMA CrashStep ==
  ASSUME HistoryInv, ChatCrash
  PROVE  HistoryInv'
<1> DEFINE After(t) == IF chat.turn[t].pc \in {"load", "model", "tools", "save"}
                       THEN [chat.turn[t] EXCEPT !.pc = "failed"] ELSE chat.turn[t]
<1>1. chat \in Session /\ chat' = [chat EXCEPT !.turn = [t \in Turns |-> After(t)]]
  BY DEF ChatCrash, HistoryInv
<1>2. ASSUME NEW t \in Turns
      PROVE  /\ After(t) \in Turn /\ After(t).history = chat.turn[t].history
             /\ After(t) = chat.turn[t] \/ After(t).pc \in Over
  BY TurnTypes DEF Turn, Over
<1> HIDE DEF After
<1>3. /\ chat'.stored = chat.stored /\ chat'.log = chat.log
      /\ chat'.turn = [t \in Turns |-> After(t)]
  BY <1>1 DEF Session
<1>4. chat' \in Session
  BY <1>1, <1>2 DEF Session
<1>5. QED
  BY <1>2, <1>3, <1>4, QuietStep

LEMMA LoadsStep ==
  ASSUME HistoryInv, NEW t \in Turns, Loads(t)
  PROVE  HistoryInv'
<1> DEFINE old == chat.turn[t]
           h == IF old.redis THEN chat.stored ELSE <<>>
           r == [old EXCEPT !.pc = "model", !.base = Len(chat.log),
                            !.history = Append(h, Says(t, "user"))]
<1>1. CASE Fails(t)
  BY <1>1, FailsStep
<1>2. CASE Becomes(t, r)
  <2>1. /\ h \in Seq(Message) /\ Says(t, "user") \in Message /\ Says(t, "user").by = t
        /\ Says(t, "user").kind = "user" /\ Len(chat.log) \in Nat
    <3>1. h \in Seq(Message)
      BY TurnTypes
    <3>2. Says(t, "user") \in Message /\ Says(t, "user").by = t /\ Says(t, "user").kind = "user"
      BY DEF Says, Message
    <3>3. chat.log \in Seq(Event)
      BY TurnTypes
    <3>4. QED
      BY <3>1, <3>2, <3>3
  <2>2. Append(h, Says(t, "user")) \in Seq(Message)
    BY <2>1
  <2>3. /\ r \in Turn /\ r.pc = "model" /\ r.base = Len(chat.log) /\ r.redis = old.redis
        /\ r.history = Append(h, Says(t, "user"))
    BY <2>1, <2>2, TurnTypes DEF Turn
  <2>4. old.pc = "load" /\ old.history = <<>> /\ TurnInv(t) /\ ~Saved(t)
    BY TurnTypes DEF Loads, TurnInv, Over
  <2>5. h \in {<<>>, chat.stored}
    OBVIOUS
  <2>6. \A u \in Turns : Kept(h, u)
    <3>1. \A u \in Turns : Kept(<<>>, u)
      BY DEF Kept, Places
    <3>2. \A u \in Turns : Kept(chat.stored, u)
      BY DEF HistoryInv
    <3>3. QED
      BY <2>5, <3>1, <3>2
  <2>7. r.redis => \A u \in Turns : Places(h, u) = {} => Undone(u, r.base)
    BY <2>3 DEF HistoryInv
  <2>8. Places(h, t) = {}
    BY <2>4, <2>6 DEF Kept
  <2> HIDE DEF h, r
  <2> DEFINE more == r.history
             n == Len(h)
  <2>9. /\ n \in Nat /\ Len(more) = n + 1 /\ DOMAIN more = 1 .. n + 1 /\ DOMAIN h = 1 .. n
        /\ more[n + 1].by = t /\ more[n + 1].kind = "user" /\ more # <<>>
    BY <2>1, <2>3
  <2>10. \A i \in 1 .. n : more[i] = h[i]
    BY <2>1, <2>3
  <2> HIDE DEF n
  <2>11. Speaks(more, t)
    <3>1. Places(more, t) = n + 1 .. n + 1
      <4>1. \A i \in 1 .. n : more[i].by # t
        BY <2>8, <2>9, <2>10 DEF Places
      <4>2. QED
        BY <2>9, <4>1 DEF Places
    <3>2. QED
      BY <2>9, <3>1 DEF Speaks
  <2>12. Continues(h, more, t)
    BY <2>9, <2>10 DEF Continues, n
  <2>13. r.base <= Len(chat.log)
    BY <2>1, <2>3
  <2>14. more # <<>>
    BY <2>9
  <2>15. Becomes(t, r)
    BY <1>2 DEF r, h
  <2>16. old.pc \notin Over /\ r.pc \in Talking /\ r.pc # "save"
    BY <2>3, <2>4 DEF Over, Talking
  <2>17. QED
    BY <2>1, <2>3, <2>4, <2>5, <2>6, <2>7, <2>9, <2>10, <2>11, <2>12, <2>13, <2>14, <2>15, <2>16,
       SayStep DEF n
<1>3. QED
  BY <1>1, <1>2 DEF Loads

\* A turn that talks goes on.
LEMMA SpeaksOn ==
  ASSUME HistoryInv, NEW t \in Turns, NEW r \in Turn, Becomes(t, r),
         chat.turn[t].pc \in {"model", "tools"}, r.pc \in Talking,
         r.redis = chat.turn[t].redis, r.base = chat.turn[t].base,
         Continues(chat.turn[t].history, r.history, t),
         r.pc = "save" => r.history[Len(r.history)].kind = "reply"
  PROVE  HistoryInv'
<1> DEFINE h == chat.turn[t].history
           more == r.history
<1>1. /\ h \in Seq(Message) /\ more \in Seq(Message) /\ TurnInv(t) /\ h # <<>>
      /\ chat.turn[t].pc \in Talking
  BY TurnTypes DEF Turn, TurnInv, Talking
<1>2. /\ Len(h) \in Nat /\ Len(more) \in Nat /\ DOMAIN h = 1 .. Len(h)
      /\ DOMAIN more = 1 .. Len(more) /\ Len(h) # 0
      /\ Len(h) <= Len(more)
      /\ \A i \in 1 .. Len(h) : more[i] = h[i]
      /\ \A i \in Len(h) + 1 .. Len(more) : more[i].by = t
  BY <1>1 DEF Continues
<1>3. more # <<>>
  BY <1>1, <1>2
<1>4. Speaks(h, t)
  BY <1>1 DEF TurnInv
<1>5. Speaks(more, t)
  <2>1. PICK k \in DOMAIN h : Places(h, t) = k .. Len(h) /\ h[k].kind = "user"
    BY <1>4 DEF Speaks
  <2>2. k \in DOMAIN more /\ more[k].kind = "user"
    BY <1>2, <2>1
  <2>3. Places(more, t) = k .. Len(more)
    <3>1. ASSUME NEW i \in 1 .. Len(more) PROVE more[i].by = t <=> i >= k
      <4>1. CASE i <= Len(h)
        <5>1. more[i] = h[i] /\ (h[i].by = t <=> i \in k .. Len(h))
          BY <1>2, <2>1, <4>1 DEF Places
        <5>2. QED
          BY <1>2, <2>1, <4>1, <5>1
      <4>2. CASE i > Len(h)
        BY <1>2, <2>1, <4>2
      <4>3. QED
        BY <1>2, <4>1, <4>2
    <3>2. QED
      BY <1>2, <2>1, <3>1 DEF Places
  <2>4. QED
    BY <2>2, <2>3 DEF Speaks
<1>6. \A u \in Turns \ {t} : Kept(h, u)
  BY <1>1 DEF TurnInv
<1>7. r.redis => /\ r.base <= Len(chat.log)
                 /\ \A u \in Turns \ {t} : Places(h, u) = {} => Undone(u, r.base)
  BY <1>1 DEF TurnInv
<1>8. chat.turn[t].pc \notin Over
  BY DEF Over
<1>9. QED
  BY <1>1, <1>3, <1>5, <1>6, <1>7, <1>8, SayStep

LEMMA ModelStep ==
  ASSUME HistoryInv, NEW t \in Turns, ModelAnswers(t)
  PROVE  HistoryInv'
<1> DEFINE old == chat.turn[t]
<1>1. old \in Turn /\ old.history \in Seq(Message) /\ old.pc = "model"
  BY TurnTypes DEF ModelAnswers
<1>2. ASSUME NEW pc \in {"save", "tools"}, NEW n \in 0 .. MaxCalls, NEW m \in Message,
             m.by = t, pc = "save" => m.kind = "reply",
             Becomes(t, [old EXCEPT !.pc = pc, !.asked = n, !.history = Append(old.history, m)])
      PROVE  HistoryInv'
  <2> DEFINE more == Append(old.history, m)
             r == [old EXCEPT !.pc = pc, !.asked = n, !.history = more]
  <2>1. more \in Seq(Message)
    BY <1>1
  <2>2. /\ r \in Turn /\ r.pc = pc /\ r.redis = old.redis /\ r.base = old.base
        /\ r.history = more
    BY <1>1, <2>1 DEF Turn
  <2>3. /\ Len(more) = Len(old.history) + 1 /\ Len(old.history) \in Nat
        /\ more[Len(more)] = m
        /\ \A i \in 1 .. Len(old.history) : more[i] = old.history[i]
    BY <1>1
  <2>4. Becomes(t, r)
    BY <1>2
  <2> HIDE DEF r, more
  <2>5. Continues(old.history, more, t)
    <3>1. \A i \in Len(old.history) + 1 .. Len(more) : i = Len(more)
      BY <2>3
    <3>2. \A i \in Len(old.history) + 1 .. Len(more) : more[i].by = t
      BY <1>2, <2>3, <3>1
    <3>3. Len(old.history) <= Len(more)
      BY <2>3
    <3>4. QED
      BY <2>3, <3>2, <3>3 DEF Continues
  <2>6. /\ r.pc \in Talking
        /\ r.pc = "save" => r.history[Len(r.history)].kind = "reply"
        /\ chat.turn[t].pc \in {"model", "tools"}
    BY <1>1, <1>2, <2>2, <2>3 DEF Talking
  <2>7. QED
    BY <2>2, <2>4, <2>5, <2>6, SpeaksOn
<1>3. Says(t, "reply") \in Message /\ Says(t, "calls") \in Message
  BY DEF Says, Message
<1>4. Says(t, "reply").by = t /\ Says(t, "calls").by = t /\ Says(t, "reply").kind = "reply"
  BY DEF Says
<1>5. CASE Becomes(t, [old EXCEPT !.pc = "save", !.history = Append(@, Says(t, "reply"))])
  <2>1. old.asked \in 0 .. MaxCalls
    BY <1>1 DEF Turn
  <2>2. [old EXCEPT !.pc = "save", !.history = Append(@, Says(t, "reply"))]
          = [old EXCEPT !.pc = "save", !.asked = old.asked,
                        !.history = Append(old.history, Says(t, "reply"))]
    BY <1>1 DEF Turn
  <2>3. Becomes(t, [old EXCEPT !.pc = "save", !.asked = old.asked,
                               !.history = Append(old.history, Says(t, "reply"))])
    BY <1>5, <2>2
  <2>4. QED
    BY <1>2, <1>3, <1>4, <2>1, <2>3
<1>6. ASSUME NEW n \in 1 .. MaxCalls,
             Becomes(t, [old EXCEPT !.pc = "tools", !.asked = n,
                                    !.history = Append(@, Says(t, "calls"))])
      PROVE  HistoryInv'
  <2>1. n \in 0 .. MaxCalls
    BY ChatAssumption
  <2>2. Becomes(t, [old EXCEPT !.pc = "tools", !.asked = n,
                               !.history = Append(old.history, Says(t, "calls"))])
    BY <1>1, <1>6 DEF Turn
  <2>3. QED
    BY <1>2, <1>3, <1>4, <2>1, <2>2
<1>7. QED
  BY <1>5, <1>6, FailsStep DEF ModelAnswers

LEMMA ToolsStep ==
  ASSUME HistoryInv, NEW t \in Turns, ToolsEnd(t)
  PROVE  HistoryInv'
<1> DEFINE old == chat.turn[t]
           n == old.asked
           said == [i \in 1 .. n |-> Says(t, "result")]
           results == old.history \o said
           reply == Append(results, Says(t, "reply"))
           L == Len(old.history)
<1>1. /\ old \in Turn /\ old.history \in Seq(Message) /\ old.pc = "tools" /\ n \in Nat
      /\ old.round \in 0 .. MaxRounds /\ L \in Nat
  BY TurnTypes, ChatAssumption DEF ToolsEnd, Turn
<1>2. /\ \A k \in {"result", "reply"} : Says(t, k) \in Message /\ Says(t, k).by = t
      /\ Says(t, "reply").kind = "reply"
  BY DEF Says, Message
<1>3. /\ said \in Seq(Message) /\ Len(said) = n /\ \A i \in 1 .. n : said[i].by = t
  BY <1>1, <1>2
<1> HIDE DEF said
<1>4. /\ results \in Seq(Message) /\ Len(results) = L + n
      /\ \A i \in 1 .. L + n : results[i] = IF i <= L THEN old.history[i] ELSE said[i - L]
  <2>1. Len(old.history) = L /\ old.history \in Seq(Message)
    BY <1>1
  <2>2. /\ results \in Seq(Message) /\ Len(results) = Len(old.history) + Len(said)
        /\ \A i \in 1 .. Len(old.history) + Len(said) :
             results[i] = IF i <= Len(old.history) THEN old.history[i]
                          ELSE said[i - Len(old.history)]
    BY <1>3, <2>1, ConcatProperties
  <2>3. QED
    BY <1>3, <2>2
<1> HIDE DEF results
<1>5. /\ \A i \in 1 .. L : results[i] = old.history[i]
      /\ \A i \in L + 1 .. L + n : results[i].by = t
  <2>1. \A i \in L + 1 .. L + n : results[i] = said[i - L] /\ i - L \in 1 .. n
    BY <1>1, <1>4
  <2>2. \A i \in 1 .. L : results[i] = old.history[i]
    BY <1>1, <1>4
  <2>3. QED
    BY <1>3, <2>1, <2>2
<1>6. /\ reply \in Seq(Message) /\ Len(reply) = L + n + 1 /\ reply[L + n + 1] = Says(t, "reply")
      /\ \A i \in 1 .. L + n : reply[i] = results[i]
  BY <1>1, <1>2, <1>4
<1> HIDE DEF reply
<1>7. /\ \A i \in 1 .. L : reply[i] = old.history[i]
      /\ \A i \in L + 1 .. Len(reply) : reply[i].by = t
      /\ reply[Len(reply)].kind = "reply"
  <2>1. \A i \in 1 .. L : i \in 1 .. L + n
    BY <1>1
  <2>2. \A i \in L + 1 .. L + n + 1 : i \in L + 1 .. L + n \/ i = L + n + 1
    BY <1>1
  <2>3. \A i \in L + 1 .. L + n : i \in 1 .. L + n
    BY <1>1
  <2>4. QED
    BY <1>2, <1>5, <1>6, <2>1, <2>2, <2>3
<1>8. CASE /\ old.round < MaxRounds
           /\ Becomes(t, [old EXCEPT !.pc = "model", !.history = results, !.asked = 0,
                                     !.round = old.round + 1])
  <2> DEFINE r == [old EXCEPT !.pc = "model", !.history = results, !.asked = 0,
                              !.round = old.round + 1]
  <2>1. /\ r \in Turn /\ r.pc = "model" /\ r.redis = old.redis /\ r.base = old.base
        /\ r.history = results
    <3>1. old.round + 1 \in 0 .. MaxRounds /\ 0 \in 0 .. MaxCalls
      BY <1>1, <1>8, ChatAssumption
    <3>2. results \in Seq(Message) /\ old \in Turn
      BY <1>1, <1>4
    <3> HIDE DEF n, L
    <3>3. QED
      BY <3>1, <3>2 DEF Turn
  <2>2. Becomes(t, r)
    BY <1>8
  <2> HIDE DEF r
  <2>3. Continues(old.history, results, t)
    BY <1>1, <1>4, <1>5 DEF Continues
  <2>4. old.pc \in {"model", "tools"} /\ r.pc \in Talking /\ r.pc # "save"
    BY <1>1, <2>1 DEF Talking
  <2>5. QED
    BY <2>1, <2>2, <2>3, <2>4, SpeaksOn
<1>9. CASE Becomes(t, [old EXCEPT !.pc = "save", !.asked = 0, !.history = reply])
  <2> DEFINE r == [old EXCEPT !.pc = "save", !.asked = 0, !.history = reply]
  <2>1. /\ r \in Turn /\ r.pc = "save" /\ r.redis = old.redis /\ r.base = old.base
        /\ r.history = reply
    <3>1. 0 \in 0 .. MaxCalls
      BY ChatAssumption
    <3>2. reply \in Seq(Message) /\ old \in Turn
      BY <1>1, <1>6
    <3>3. QED
      BY <3>1, <3>2 DEF Turn
  <2>2. Becomes(t, r)
    BY <1>9
  <2> HIDE DEF r
  <2>3. Continues(old.history, reply, t)
    BY <1>1, <1>6, <1>7 DEF Continues
  <2>4. /\ old.pc \in {"model", "tools"} /\ r.pc \in Talking
        /\ r.history[Len(r.history)].kind = "reply"
    BY <1>1, <1>7, <2>1 DEF Talking
  <2>5. QED
    BY <2>1, <2>2, <2>3, <2>4, SpeaksOn
<1>10. QED
  BY <1>1, <1>8, <1>9 DEF ToolsEnd, results, reply, said, Turn

\* SET has been done: what turn t had read and said is what is stored.
LEMMA SetStep ==
  ASSUME HistoryInv, NEW t \in Turns, NEW pc \in Over,
         chat.turn[t].pc = "save", chat.turn[t].redis,
         chat' = [chat EXCEPT
                    !.stored = chat.turn[t].history,
                    !.turn[t].pc = pc,
                    !.log = Append(chat.log, [what |-> "saved", by |-> t,
                                              base |-> chat.turn[t].base])]
  PROVE  HistoryInv'
<1> DEFINE old == chat.turn[t]
           h == old.history
           e == [what |-> "saved", by |-> t, base |-> old.base]
           r == [old EXCEPT !.pc = pc]
<1>0. PICK n, b : n = Len(chat.log) /\ b = old.base
  OBVIOUS
<1>1. /\ chat \in Session /\ old \in Turn /\ h \in Seq(Message) /\ old.base \in Nat /\ n \in Nat
      /\ chat.log \in Seq(Event) /\ chat.turn \in [Turns -> Turn] /\ TurnInv(t)
      /\ n = Len(chat.log) /\ b = old.base
  BY <1>0, TurnTypes DEF HistoryInv
<1>2. /\ e \in Event /\ r \in Turn /\ r.pc = pc /\ r.history = h
  BY <1>1 DEF Event, Turn, Over
<1>3. /\ chat'.stored = h /\ chat'.log = Append(chat.log, e)
      /\ chat'.turn = [chat.turn EXCEPT ![t] = r]
  BY <1>1 DEF Session
<1>4. chat' \in Session
  <2>1. chat' = [stored |-> h, turn |-> [chat.turn EXCEPT ![t] = r],
                 log |-> Append(chat.log, e)]
    BY <1>1 DEF Session
  <2>2. [chat.turn EXCEPT ![t] = r] \in [Turns -> Turn] /\ Append(chat.log, e) \in Seq(Event)
    BY <1>1, <1>2
  <2>3. QED
    BY <1>1, <2>1, <2>2 DEF Session
<1>5. /\ Len(chat'.log) = n + 1 /\ DOMAIN chat'.log = 1 .. n + 1 /\ chat'.log[n + 1] = e
      /\ DOMAIN chat.log = 1 .. n
  BY <1>1, <1>2, <1>3
<1>6. /\ \A u : Saved(u) => Saved(u)'
      /\ \A u : Saved(u)' => Saved(u) \/ u = t
      /\ \A u : \A m \in 0 .. n : Undone(u, m)' <=> Undone(u, m)
  BY <1>1, <1>2, <1>3, LogGrows
<1>7. chat'.turn[t] = r /\ \A u \in Turns \ {t} : chat'.turn[u] = chat.turn[u]
  BY <1>1, <1>3
<1>8. \A u \in Turns : chat'.turn[u].history = chat.turn[u].history
  BY <1>2, <1>7
<1>9. \A g : \A u \in Turns : Kept(g, u) => Kept(g, u)'
  BY <1>6, <1>8 DEF Kept
<1>10. /\ h # <<>> /\ h[Len(h)].kind = "reply" /\ Speaks(h, t)
       /\ b <= n
       /\ \A u \in Turns \ {t} : Kept(h, u)
       /\ \A u \in Turns : Places(h, u) = {} => Undone(u, b)
  BY <1>1 DEF TurnInv, Talking
<1>11. Saved(t)'
  <2>1. SavedAt(t, n + 1)'
    BY <1>5 DEF SavedAt
  <2>2. n + 1 \in DOMAIN chat'.log
    BY <1>1, <1>5
  <2>3. QED
    BY <2>1, <2>2 DEF Saved
<1>12. ASSUME NEW u \in Turns PROVE TurnInv(u)'
  <2>1. TurnInv(u) /\ chat.turn[u].base \in Nat
    BY TurnTypes
  <2>2. \A v \in Turns \ {u} : Kept(chat.turn[u].history, v)'
    BY <1>8, <1>9, <2>1 DEF TurnInv
  <2>3. CASE u = t
    <3>1. r.pc \notin {"new", "load", "save"} /\ r.pc \notin Talking /\ r.pc \in Over
      BY <1>2 DEF Talking, Over
    <3>2. QED
      BY <1>2, <1>7, <1>10, <2>2, <2>3, <3>1 DEF TurnInv
  <2>4. CASE u # t
    <3>1. chat'.turn[u] = chat.turn[u] /\ (Saved(u)' <=> Saved(u))
      BY <1>6, <1>7, <2>4
    <3>2. ASSUME chat.turn[u].pc \in Talking, chat.turn[u].redis
          PROVE  /\ chat'.turn[u].base <= Len(chat'.log)
                 /\ \A v \in Turns : Places(chat'.turn[u].history, v) = {} =>
                                       Undone(v, chat.turn[u].base)'
      <4>1. /\ chat.turn[u].base <= n
            /\ \A v \in Turns : Places(chat.turn[u].history, v) = {} =>
                                  Undone(v, chat.turn[u].base)
        BY <1>1, <2>1, <3>2 DEF TurnInv
      <4>2. PICK a \in 0 .. n : a = chat.turn[u].base
        BY <1>1, <2>1, <4>1
      <4>3. \A v : Undone(v, a)' <=> Undone(v, a)
        BY <1>6
      <4>4. a = chat'.turn[u].base
        BY <3>1, <4>2
      <4>5. chat'.turn[u].base <= Len(chat'.log)
        BY <1>1, <1>5, <3>1, <4>2
      <4>6. \A v \in Turns : Places(chat'.turn[u].history, v) = {} => Undone(v, a)'
        BY <3>1, <4>1, <4>2, <4>3
      <4>7. QED
        BY <4>4, <4>5, <4>6
    <3>3. QED
      BY <2>1, <2>2, <3>1, <3>2 DEF TurnInv
  <2>5. QED
    BY <2>3, <2>4
<1>13. ASSUME NEW u \in Turns PROVE Kept(chat.stored, u)'
  <2>1. CASE u = t
    <3>1. PICK k \in DOMAIN h : Places(h, t) = k .. Len(h) /\ h[k].kind = "user"
      BY <1>10 DEF Speaks
    <3>2. Len(h) \in Nat /\ k \in 1 .. Len(h)
      BY <1>1, <3>1
    <3>3. k + Len(h) - k = Len(h) /\ \A j \in k .. Len(h) : k + j - k = j
      BY <3>2
    <3>4. InOnePiece(h, h, t)
      BY <3>1, <3>3 DEF InOnePiece
    <3>5. QED
      BY <1>3, <1>8, <1>11, <2>1, <3>4 DEF Kept
  <2>2. CASE u # t
    BY <1>3, <1>9, <1>10, <2>2
  <2>3. QED
    BY <2>1, <2>2
<1>14. ASSUME NEW u \in Turns, Places(h, u) = {} PROVE Undone(u, n + 1)'
  <2>1. u # t
    <3>1. PICK k \in DOMAIN h : Places(h, t) = k .. Len(h)
      BY <1>10 DEF Speaks
    <3>2. k \in k .. Len(h)
      BY <1>1, <3>1
    <3>3. QED
      BY <1>14, <3>1, <3>2
  <2>2. Undone(u, b)'
    BY <1>1, <1>6, <1>10, <1>14
  <2>3. ASSUME NEW i \in 1 .. n + 1, SavedAt(u, i)'
        PROVE  \E j \in i + 1 .. n + 1 : Unaware(j, i)'
    <3>1. i # n + 1
      BY <1>5, <2>1, <2>3 DEF SavedAt
    <3>2. CASE i <= b
      <4>1. \E j \in i + 1 .. b : Unaware(j, i)'
        BY <1>1, <2>2, <2>3, <3>2 DEF Undone
      <4>2. \A j \in i + 1 .. b : j \in i + 1 .. n + 1
        BY <1>1, <1>10
      <4>3. QED
        BY <4>1, <4>2
    <3>3. CASE i > b
      <4>1. Unaware(n + 1, i)'
        BY <1>1, <1>5, <3>3 DEF Unaware
      <4>2. n + 1 \in i + 1 .. n + 1
        BY <1>1, <3>1
      <4>3. QED
        BY <4>1, <4>2
    <3>4. QED
      BY <1>1, <3>2, <3>3
  <2>4. QED
    BY <2>3 DEF Undone
<1>15. QED
  BY <1>3, <1>4, <1>5, <1>12, <1>13, <1>14 DEF HistoryInv

LEMMA ExpiresStep ==
  ASSUME HistoryInv, Expires
  PROVE  HistoryInv'
<1> DEFINE e == [what |-> "expired"]
<1>0. PICK n : n = Len(chat.log)
  OBVIOUS
<1>1. chat \in Session /\ chat.log \in Seq(Event) /\ n \in Nat /\ n = Len(chat.log)
  BY <1>0 DEF HistoryInv, Session
<1>2. e \in Event
  BY DEF Event
<1>3. chat'.stored = <<>> /\ chat'.log = Append(chat.log, e) /\ chat'.turn = chat.turn
  BY <1>1 DEF Expires, Session
<1>4. chat' \in Session
  <2>1. chat' = [stored |-> <<>>, turn |-> chat.turn, log |-> Append(chat.log, e)]
    BY <1>1 DEF Expires, Session
  <2>2. Append(chat.log, e) \in Seq(Event) /\ <<>> \in Seq(Message)
    BY <1>1, <1>2
  <2>3. QED
    BY <1>1, <2>1, <2>2 DEF Session
<1>5. Len(chat'.log) = n + 1 /\ chat'.log[n + 1] = e
  BY <1>1, <1>2, <1>3
<1>6. /\ \A u : Saved(u)' <=> Saved(u)
      /\ \A u : \A m \in 0 .. n : Undone(u, m)' <=> Undone(u, m)
  BY <1>1, <1>2, <1>3, LogGrows
<1>7. \A g : \A u \in Turns : Kept(g, u) <=> Kept(g, u)'
  BY <1>3, <1>6 DEF Kept
<1>8. ASSUME NEW u \in Turns PROVE TurnInv(u)'
  <2>1. TurnInv(u) /\ chat.turn[u].base \in Nat
    BY TurnTypes
  <2>2. \A v \in Turns \ {u} : Kept(chat.turn[u].history, v)'
    BY <1>3, <1>7, <2>1 DEF TurnInv
  <2>3. ASSUME chat.turn[u].pc \in Talking, chat.turn[u].redis
        PROVE  /\ chat'.turn[u].base <= Len(chat'.log)
               /\ \A v \in Turns : Places(chat'.turn[u].history, v) = {} =>
                                     Undone(v, chat.turn[u].base)'
    <3>1. /\ chat.turn[u].base <= n
          /\ \A v \in Turns : Places(chat.turn[u].history, v) = {} =>
                                Undone(v, chat.turn[u].base)
      BY <1>1, <2>1, <2>3 DEF TurnInv
    <3>2. PICK a \in 0 .. n : a = chat.turn[u].base
      BY <1>1, <2>1, <3>1
    <3>3. \A v : Undone(v, a)' <=> Undone(v, a)
      BY <1>6
    <3>4. a = chat'.turn[u].base
      BY <1>3, <3>2
    <3>5. QED
      BY <1>1, <1>3, <1>5, <3>1, <3>2, <3>3, <3>4
  <2>4. QED
    BY <1>3, <1>6, <2>1, <2>2, <2>3 DEF TurnInv
<1>9. \A u \in Turns : Kept(chat.stored, u)' /\ Undone(u, Len(chat.log))'
  <2>1. \A u : Places(<<>>, u) = {}
    BY DEF Places
  <2>2. \A i \in 1 .. n : n + 1 \in i + 1 .. n + 1
    BY <1>1
  <2>3. \A i : Unaware(n + 1, i)'
    BY <1>5 DEF Unaware
  <2>4. \A u : ~SavedAt(u, n + 1)'
    BY <1>5 DEF SavedAt
  <2>5. \A i \in 1 .. n + 1 : i \in 1 .. n \/ i = n + 1
    BY <1>1
  <2>6. \A u : Undone(u, n + 1)'
    BY <2>2, <2>3, <2>4, <2>5 DEF Undone
  <2>7. QED
    BY <1>3, <1>5, <2>1, <2>6 DEF Kept
<1>10. QED
  BY <1>4, <1>8, <1>9 DEF HistoryInv

LEMMA NextHistory == HistoryInv /\ [ChatNext]_chat => HistoryInv'
<1> SUFFICES ASSUME HistoryInv, [ChatNext]_chat PROVE HistoryInv'
  OBVIOUS
<1>1. ASSUME NEW t \in Turns, Saves(t) PROVE HistoryInv'
  <2>1. CASE \E pc \in {"replied", "failed"} :
               chat' = [chat EXCEPT
                          !.stored = Written(chat.turn[t].history),
                          !.turn[t].pc = pc,
                          !.log = Append(@, [what |-> "saved", by |-> t,
                                             base |-> chat.turn[t].base])]
             /\ chat.turn[t].redis
    BY <1>1, <2>1, SetStep DEF Saves, Written, Over
  <2>2. CASE Fails(t)
    BY <2>2, FailsStep
  <2>3. CASE Becomes(t, [chat.turn[t] EXCEPT !.pc = "replied"])
    BY <2>3, OverStep DEF Over
  <2>4. QED
    BY <1>1, <2>1, <2>2, <2>3 DEF Saves
<1>2. CASE UNCHANGED chat
  BY <1>2, QuietStep DEF HistoryInv
<1>3. QED
  BY <1>1, <1>2, PingsStep, LoadsStep, ModelStep, ToolsStep, ExpiresStep, CrashStep DEF ChatNext

\* The stored history of a session is made of whole turns, and a saved turn is
\* missing from it only if it expired or a turn that had read it before wrote
\* over it (chat.py, _load_history and _save_history), for any number of turns
\* that overlap, fail, or crash.
THEOREM HistoriesKept == Spec => []HistoryKept
<1>1. Init => HistoryInv
  BY InitHistory DEF Init
<1>2. [Next]_services => [ChatNext]_chat
  BY DEF Next, services
<1>3. HistoryInv /\ [ChatNext]_chat => HistoryInv'
  BY NextHistory
<1>4. HistoryInv => HistoryKept
  BY DEF HistoryInv, HistoryKept, Kept, TurnInv
<1>5. QED
  BY <1>1, <1>2, <1>3, <1>4, PTL DEF Spec

(***************************************************************************)
(* The justification of a price.  First sums over a finite set: of a       *)
(* linear combination of two functions, the same combination of their      *)
(* sums.  The sum is a function on the subsets of the set, which exists    *)
(* because it does on the subsets of every size.                           *)
(***************************************************************************)

\* A set of natural numbers that is not empty has a least element.
LEMMA LeastOf ==
  ASSUME NEW T \in SUBSET Nat, T # {}
  PROVE  \E x \in T : \A y \in T : x <= y
<1>1. IsWellFoundedOn(OpToRel(<, Nat), Nat)
  BY NatLessThanWellFounded
<1>2. PICK x \in T : \A y \in T : ~(<<y, x>> \in OpToRel(<, Nat))
  BY <1>1, WFMin
<1>3. \A y \in T : ~(y < x)
  BY <1>2 DEF OpToRel
<1> QED
  BY <1>3

AnyOf(T) == CHOOSE x \in T : TRUE

SumsOver(f, sets, g) ==
  g = [T \in sets |-> IF T = {} THEN 0 ELSE f[AnyOf(T)] + g[T \ {AnyOf(T)}]]

UpTo(S, n) == {T \in SUBSET S : Cardinality(T) <= n}

LEMMA LessOne ==
  ASSUME NEW T, IsFiniteSet(T), T # {}
  PROVE  /\ AnyOf(T) \in T
         /\ IsFiniteSet(T \ {AnyOf(T)})
         /\ Cardinality(T) \in Nat
         /\ Cardinality(T \ {AnyOf(T)}) = Cardinality(T) - 1
         /\ Cardinality(T \ {AnyOf(T)}) \in Nat
<1>1. AnyOf(T) \in T
  BY DEF AnyOf
<1> QED
  BY <1>1, FS_RemoveElement, FS_CardinalityType

LEMMA SumsUpTo ==
  ASSUME NEW f, NEW S, IsFiniteSet(S), NEW n \in Nat
  PROVE  \E g : SumsOver(f, UpTo(S, n), g)
<1> DEFINE Bad == {m \in Nat : ~ \E g : SumsOver(f, UpTo(S, m), g)}
<1>1. SUFFICES ASSUME Bad # {} PROVE FALSE
  OBVIOUS
<1>2. PICK m \in Bad : \A k \in Bad : m <= k
  BY <1>1, LeastOf
<1>3. m # 0
  <2> SUFFICES ASSUME m = 0 PROVE FALSE
    OBVIOUS
  <2> DEFINE g == [T \in UpTo(S, 0) |-> 0]
  <2>1. \A T \in UpTo(S, 0) : T = {}
    BY FS_Subset, FS_CardinalityType, FS_EmptySet DEF UpTo
  <2>2. g = [T \in UpTo(S, 0) |->
               IF T = {} THEN 0 ELSE f[AnyOf(T)] + g[T \ {AnyOf(T)}]]
    BY <2>1
  <2>3. SumsOver(f, UpTo(S, 0), g)
    BY <2>2 DEF SumsOver
  <2> QED
    BY <2>3, <1>2
<1>4. m - 1 \in Nat /\ m - 1 \notin Bad
  BY <1>2, <1>3
<1>5. PICK g : SumsOver(f, UpTo(S, m - 1), g)
  BY <1>4
<1> DEFINE h == [T \in UpTo(S, m) |->
                   IF T = {} THEN 0 ELSE f[AnyOf(T)] + g[T \ {AnyOf(T)}]]
<1>6. ASSUME NEW T \in UpTo(S, m), T # {}
      PROVE  h[T \ {AnyOf(T)}] = g[T \ {AnyOf(T)}]
  <2> DEFINE U == T \ {AnyOf(T)}
  <2>1. IsFiniteSet(T) /\ T \subseteq S /\ Cardinality(T) <= m
    BY FS_Subset DEF UpTo
  <2>2. Cardinality(U) <= m - 1 /\ Cardinality(U) <= m /\ U \subseteq S
    BY <2>1, <1>6, LessOne
  <2>3. U \in UpTo(S, m - 1) /\ U \in UpTo(S, m)
    BY <2>2 DEF UpTo
  <2>4. g[U] = IF U = {} THEN 0 ELSE f[AnyOf(U)] + g[U \ {AnyOf(U)}]
    <3> HIDE DEF U
    <3> QED
      BY <1>5, <2>3 DEF SumsOver
  <2>5. h[U] = IF U = {} THEN 0 ELSE f[AnyOf(U)] + g[U \ {AnyOf(U)}]
    <3> HIDE DEF U
    <3> QED
      BY <2>3
  <2> QED
    BY <2>4, <2>5
<1>7. h = [T \in UpTo(S, m) |->
             IF T = {} THEN 0 ELSE f[AnyOf(T)] + h[T \ {AnyOf(T)}]]
  <2> HIDE DEF h
  <2>1. \A T \in UpTo(S, m) :
          (IF T = {} THEN 0 ELSE f[AnyOf(T)] + g[T \ {AnyOf(T)}])
            = (IF T = {} THEN 0 ELSE f[AnyOf(T)] + h[T \ {AnyOf(T)}])
    BY <1>6
  <2> QED
    BY <2>1 DEF h
<1>8. SumsOver(f, UpTo(S, m), h)
  BY <1>7 DEF SumsOver
<1> QED
  BY <1>8, <1>2

\* What the folds of the library choose, there is.
LEMMA SumExists ==
  ASSUME NEW f, NEW S, IsFiniteSet(S)
  PROVE  \E g : SumsOver(f, SUBSET S, g) /\ SumFunctionOnSet(f, S) = g[S]
<1>1. Cardinality(S) \in Nat
  BY FS_CardinalityType
<1>2. UpTo(S, Cardinality(S)) = SUBSET S
  BY FS_Subset DEF UpTo
<1>3. \E g : SumsOver(f, SUBSET S, g)
  <2>1. \E g : SumsOver(f, UpTo(S, Cardinality(S)), g)
    BY <1>1, SumsUpTo
  <2> QED
    BY <2>1, <1>2
<1> DEFINE g == CHOOSE g : SumsOver(f, SUBSET S, g)
<1>4. SumsOver(f, SUBSET S, g)
  BY <1>3
<1>5. SumFunctionOnSet(f, S) = g[S]
  BY DEF SumFunctionOnSet, FoldFunctionOnSet, MapThenFoldSet, SumsOver, AnyOf
<1> QED
  BY <1>4, <1>5

Combines(k, S, a, f, b, h, c) ==
  /\ \A x \in S : f[x] \in Int /\ h[x] \in Int
  /\ \A x \in S : k[x] = a * f[x] + b * h[x] + c

\* The combination of what a part T of the set sums up to.
Mixed(gf, gh, gk, T, a, b, c) ==
  /\ gf[T] \in Int
  /\ gh[T] \in Int
  /\ gk[T] = a * gf[T] + b * gh[T] + c * Cardinality(T)

LEMMA AddOne ==
  ASSUME NEW a \in Int, NEW b \in Int, NEW c \in Int, NEW n \in Int,
         NEW x \in Int, NEW y \in Int, NEW s \in Int, NEW t \in Int
  PROVE  (a * x + b * y + c) + (a * s + b * t + c * (n - 1))
           = a * (x + s) + b * (y + t) + c * n
<1>1. a * (x + s) = a * x + a * s /\ b * (y + t) = b * y + b * t
  OBVIOUS
<1>2. c * n = c * (n - 1) + c
  OBVIOUS
<1> QED
  BY <1>1, <1>2

LEMMA SumLinear ==
  ASSUME NEW S, IsFiniteSet(S), NEW f, NEW h, NEW k,
         NEW a \in Int, NEW b \in Int, NEW c \in Int,
         Combines(k, S, a, f, b, h, c)
  PROVE  /\ SumFunctionOnSet(f, S) \in Int
         /\ SumFunctionOnSet(h, S) \in Int
         /\ SumFunctionOnSet(k, S) = a * SumFunctionOnSet(f, S)
                                       + b * SumFunctionOnSet(h, S) + c * Cardinality(S)
<1>1. PICK gf : SumsOver(f, SUBSET S, gf) /\ SumFunctionOnSet(f, S) = gf[S]
  BY SumExists
<1>2. PICK gh : SumsOver(h, SUBSET S, gh) /\ SumFunctionOnSet(h, S) = gh[S]
  BY SumExists
<1>3. PICK gk : SumsOver(k, SUBSET S, gk) /\ SumFunctionOnSet(k, S) = gk[S]
  BY SumExists
<1> DEFINE Sums(T) == Mixed(gf, gh, gk, T, a, b, c)
           Bad == {n \in Nat : \E T \in SUBSET S : Cardinality(T) = n /\ ~ Sums(T)}
<1>4. Bad = {}
  <2> SUFFICES ASSUME Bad # {} PROVE FALSE
    OBVIOUS
  <2>1. PICK n \in Bad : \A m \in Bad : n <= m
    BY LeastOf
  <2>2. PICK T \in SUBSET S : Cardinality(T) = n /\ ~ Sums(T)
    BY <2>1
  <2>3. IsFiniteSet(T)
    BY FS_Subset
  <2>4. T # {}
    <3> SUFFICES ASSUME T = {} PROVE FALSE
      OBVIOUS
    <3>1. gf[T] = 0 /\ gh[T] = 0 /\ gk[T] = 0
      BY <1>1, <1>2, <1>3 DEF SumsOver
    <3>2. Cardinality(T) = 0
      BY FS_EmptySet
    <3> QED
      BY <3>1, <3>2, <2>2 DEF Mixed
  <2> DEFINE x == AnyOf(T)
             U == T \ {x}
  <2>5. x \in S /\ U \in SUBSET S /\ Cardinality(U) = n - 1 /\ Cardinality(U) \in Nat
    BY <2>2, <2>3, <2>4, LessOne
  <2>6. Sums(U)
    BY <2>1, <2>5
  <2>7. /\ gf[T] = f[x] + gf[U]
        /\ gh[T] = h[x] + gh[U]
        /\ gk[T] = k[x] + gk[U]
    BY <1>1, <1>2, <1>3, <2>4 DEF SumsOver
  <2> HIDE DEF x, U
  <2>8. /\ f[x] \in Int
        /\ h[x] \in Int
        /\ k[x] = a * f[x] + b * h[x] + c
    BY <2>5 DEF Combines
  <2>9. /\ gf[U] \in Int
        /\ gh[U] \in Int
        /\ gk[U] = a * gf[U] + b * gh[U] + c * (n - 1)
    BY <2>5, <2>6 DEF Mixed
  <2>10. gk[T] = a * gf[T] + b * gh[T] + c * n
    BY <2>7, <2>8, <2>9, AddOne, n \in Int
  <2> QED
    BY <2>2, <2>7, <2>8, <2>9, <2>10 DEF Mixed
<1>5. Sums(S)
  BY <1>4, FS_CardinalityType
<1> QED
  BY <1>1, <1>2, <1>3, <1>5 DEF Mixed

\* The deviations from the mean and the differences of the pairs measure the
\* same: n times the pairs is twice the squares of the deviations.
LEMMA SquareOfDeviation ==
  ASSUME NEW n \in Int, NEW p \in Int, NEW s \in Int
  PROVE  Square(n * p - s) = (n * n) * Square(p) + (- (2 * n * s)) * p + Square(s)
<1>1. (n * p - s) * (n * p - s) = (n * p) * (n * p) - 2 * ((n * p) * s) + s * s
  OBVIOUS
<1>2. (n * p) * (n * p) = (n * n) * (p * p) /\ 2 * ((n * p) * s) = (2 * n * s) * p
  OBVIOUS
<1> QED
  BY <1>1, <1>2 DEF Square

LEMMA SquareOfDifference ==
  ASSUME NEW p \in Int, NEW r \in Int
  PROVE  Square(p - r) = 1 * Square(r) + (- (2 * p)) * r + Square(p)
  BY DEF Square

LEMMA PairsAreDeviations ==
  ASSUME NEW n \in Int, NEW s \in Int, NEW q \in Int
  PROVE  n * (n * q + (- (2 * s)) * s + q * n)
           = 2 * ((n * n) * q + (- (2 * n * s)) * s + Square(s) * n)
<1>1. n * (n * q + (- (2 * s)) * s + q * n)
        = n * (n * q) + n * ((- (2 * s)) * s) + n * (q * n)
  OBVIOUS
<1>2. n * (n * q) = (n * n) * q /\ n * (q * n) = (n * n) * q
  OBVIOUS
<1>3. n * ((- (2 * s)) * s) = - (2 * (n * (s * s)))
  OBVIOUS
<1>4. (- (2 * n * s)) * s = - (2 * (n * (s * s))) /\ Square(s) * n = n * (s * s)
  BY DEF Square
<1> QED
  BY <1>1, <1>2, <1>3, <1>4

LEMMA SameVerdict ==
  ASSUME NEW n \in Int, NEW pairs \in Int, NEW deviations \in Int, NEW s \in Int,
         n * pairs = 2 * deviations
  PROVE  10000 * deviations <= Square(33) * (n - 1) * s
           <=> 10000 * n * pairs <= 2 * Square(33) * (n - 1) * s
<1> DEFINE bound == Square(33) * (n - 1) * s
<1>1. bound \in Int /\ 2 * Square(33) * (n - 1) * s = 2 * bound
  BY DEF Square
<1>2. 10000 * n * pairs = 10000 * (n * pairs)
  OBVIOUS
<1> HIDE DEF bound
<1>3. 10000 * n * pairs = 2 * (10000 * deviations)
  BY <1>2
<1>4. 10000 * deviations <= bound <=> 2 * (10000 * deviations) <= 2 * bound
  BY <1>1
<1> QED
  BY <1>1, <1>3, <1>4 DEF bound

LEMMA PriceType ==
  ASSUME NEW of \in Seq(KpOffer), NEW i \in DOMAIN of
  PROVE  of[i].price \in Nat /\ of[i].trust \in Int
<1>1. of[i] \in KpOffer
  OBVIOUS
<1> QED
  BY <1>1, NmckAssumption DEF KpOffer

LEMMA PlacesFinite ==
  ASSUME NEW of \in Seq(KpOffer), NEW kp \in SUBSET DOMAIN of
  PROVE  IsFiniteSet(kp) /\ Cardinality(kp) \in Nat
<1>1. DOMAIN of = 1 .. Len(of) /\ Len(of) \in Nat
  OBVIOUS
<1>2. IsFiniteSet(DOMAIN of)
  BY <1>1, FS_Interval
<1> QED
  BY <1>2, FS_Subset, FS_CardinalityType

LEMMA HomogeneousByPairs ==
  ASSUME NEW of \in Seq(KpOffer), NEW kp \in SUBSET DOMAIN of
  PROVE  Homogeneous(of, kp) <=>
           10000 * Cardinality(kp) * Pairs(of, kp)
             <= 2 * Square(33) * (Cardinality(kp) - 1) * Square(Total(of, kp))
<1> DEFINE n == Cardinality(kp)
           p == [i \in kp |-> of[i].price]
           q == [i \in kp |-> Square(of[i].price)]
           s == SumFunctionOnSet(p, kp)
           t == SumFunctionOnSet(q, kp)
           deviation == [i \in kp |-> Square(n * of[i].price - s)]
           from(i) == [j \in kp |-> Square(of[i].price - of[j].price)]
           difference == [i \in kp |-> SumFunctionOnSet(from(i), kp)]
<1>1. IsFiniteSet(kp) /\ n \in Int
  BY PlacesFinite
<1>2. \A i \in kp : of[i].price \in Int /\ p[i] = of[i].price /\ q[i] = Square(of[i].price)
  BY PriceType
<1>3. \A i \in kp : p[i] \in Int /\ q[i] \in Int
  BY <1>2 DEF Square
<1>4. s \in Int /\ t \in Int
  <2>1. Combines(p, kp, 1, p, 0, q, 0)
    BY <1>3 DEF Combines
  <2> HIDE DEF p, q
  <2> QED
    BY <1>1, <2>1, SumLinear
<1>5. SumFunctionOnSet(deviation, kp) = (n * n) * t + (- (2 * n * s)) * s + Square(s) * n
  <2>1. \A i \in kp : deviation[i] = (n * n) * q[i] + (- (2 * n * s)) * p[i] + Square(s)
    <3> HIDE DEF n, s
    <3> TAKE i \in kp
    <3>1. deviation[i] = Square(n * of[i].price - s)
      OBVIOUS
    <3> DEFINE r == of[i].price
    <3>2. r \in Int /\ p[i] = r /\ q[i] = Square(r)
      BY <1>2
    <3> HIDE DEF deviation, p, q, r
    <3>3. Square(n * r - s) = (n * n) * Square(r) + (- (2 * n * s)) * r + Square(s)
      BY <3>2, <1>1, <1>4, SquareOfDeviation
    <3> QED
      BY <3>1, <3>2, <3>3 DEF r
  <2>2. n * n \in Int /\ - (2 * n * s) \in Int /\ Square(s) \in Int
    <3> HIDE DEF n, s
    <3> QED
      BY <1>1, <1>4 DEF Square
  <2> HIDE DEF deviation, p, q
  <2>3. Combines(deviation, kp, n * n, q, - (2 * n * s), p, Square(s))
    BY <1>3, <2>1 DEF Combines
  <2> QED
    BY <1>1, <2>2, <2>3, SumLinear
<1>6. SumFunctionOnSet(difference, kp) = n * t + (- (2 * s)) * s + t * n
  <2>1. \A i \in kp : difference[i] = n * q[i] + (- (2 * s)) * p[i] + t
    <3> TAKE i \in kp
    <3> DEFINE r == of[i].price
    <3>1. difference[i] = SumFunctionOnSet(from(i), kp)
      OBVIOUS
    <3>2. r \in Int /\ r = p[i] /\ Square(r) = q[i]
      BY <1>2
    <3>3. \A j \in kp : from(i)[j] = 1 * q[j] + (- (2 * r)) * p[j] + Square(r)
      BY <1>2, <3>2, SquareOfDifference
    <3> DEFINE fi == from(i)
    <3> HIDE DEF fi, p, q, r, difference
    <3>4. Combines(fi, kp, 1, q, - (2 * r), p, Square(r))
      BY <1>3, <3>3 DEF Combines, fi
    <3>5. - (2 * r) \in Int /\ Square(r) \in Int
      BY <3>2 DEF Square
    <3>6. SumFunctionOnSet(fi, kp) = 1 * t + (- (2 * r)) * s + Square(r) * n
      BY <1>1, <3>4, <3>5, SumLinear
    <3> HIDE DEF n, s, t
    <3>7. Square(r) \in Int
      BY <3>2 DEF Square
    <3>8. 1 * t + (- (2 * r)) * s + Square(r) * n = n * Square(r) + (- (2 * s)) * r + t
      <4>1. (- (2 * r)) * s = (- (2 * s)) * r
        BY <3>2, <1>4
      <4>2. Square(r) * n = n * Square(r)
        BY <3>7, <1>1
      <4> DEFINE u == (- (2 * s)) * r
                 v == n * Square(r)
      <4>3. u \in Int /\ v \in Int
        BY <3>2, <3>7, <1>1, <1>4
      <4> HIDE DEF u, v
      <4>4. 1 * t + u + v = v + u + t
        BY <4>3, <1>4
      <4> QED
        BY <4>1, <4>2, <4>4 DEF u, v
    <3> QED
      BY <3>1, <3>2, <3>6, <3>8 DEF fi
  <2>2. n \in Int /\ - (2 * s) \in Int
    <3> HIDE DEF n, s
    <3> QED
      BY <1>1, <1>4
  <2> HIDE DEF difference, p, q
  <2>3. Combines(difference, kp, n, q, - (2 * s), p, t)
    BY <1>3, <2>1 DEF Combines
  <2> QED
    BY <1>1, <1>4, <2>2, <2>3, SumLinear
<1> DEFINE deviations == SumFunctionOnSet(deviation, kp)
           pairs == SumFunctionOnSet(difference, kp)
<1>7. n * pairs = 2 * deviations /\ pairs \in Int /\ deviations \in Int
  <2> HIDE DEF n, s, t, deviation, difference
  <2>1. n * (n * t + (- (2 * s)) * s + t * n)
          = 2 * ((n * n) * t + (- (2 * n * s)) * s + Square(s) * n)
    BY <1>1, <1>4, PairsAreDeviations
  <2>2. n * pairs = 2 * deviations
    BY ONLY <1>5, <1>6, <2>1
  <2> QED
    BY <2>2, <1>1, <1>4, <1>5, <1>6 DEF Square
<1>8. Total(of, kp) = s /\ Pairs(of, kp) = pairs
  BY DEF Total, Pairs
<1>9. Homogeneous(of, kp) <=> 10000 * deviations <= Square(33) * (n - 1) * Square(s)
  BY <1>8 DEF Homogeneous
<1>10. Square(s) \in Int
  <2> HIDE DEF s
  <2> QED
    BY <1>4 DEF Square
<1> HIDE DEF pairs, deviations, s
<1>11. 10000 * deviations <= Square(33) * (n - 1) * Square(s)
         <=> 10000 * n * pairs <= 2 * Square(33) * (n - 1) * Square(s)
  BY <1>1, <1>7, <1>10, SameVerdict
<1> QED
  BY <1>8, <1>9, <1>11

\* The k first of a finite set in a strict total order, `before`: they are k,
\* or all there are, and each comes before each of the others.
TotalOrder(R, before) ==
  /\ before \subseteq R \X R
  /\ \A x \in R : <<x, x>> \notin before
  /\ \A x, y, z \in R : <<x, y>> \in before /\ <<y, z>> \in before => <<x, z>> \in before
  /\ \A x, y \in R : x # y => <<x, y>> \in before \/ <<y, x>> \in before

Before(R, before, x) == {y \in R : <<y, x>> \in before}

First(R, before, k) == {x \in R : Cardinality(Before(R, before, x)) < k}

LEMMA BeforeGrows ==
  ASSUME NEW R, IsFiniteSet(R), NEW before, TotalOrder(R, before),
         NEW x \in R, NEW y \in R, <<x, y>> \in before
  PROVE  Cardinality(Before(R, before, x)) < Cardinality(Before(R, before, y))
<1> DEFINE X == Before(R, before, x)
           Y == Before(R, before, y)
<1>1. X \in SUBSET Y /\ x \in Y /\ x \notin X
  BY DEF TotalOrder, Before
<1>2. IsFiniteSet(Y)
  BY FS_Subset DEF Before
<1> HIDE DEF X, Y
<1>3. Cardinality(X) <= Cardinality(Y) /\ Cardinality(X) # Cardinality(Y)
  BY <1>1, <1>2, FS_Subset
<1>4. Cardinality(X) \in Nat /\ Cardinality(Y) \in Nat
  BY <1>1, <1>2, FS_Subset, FS_CardinalityType
<1>5. Cardinality(X) < Cardinality(Y)
  BY <1>3, <1>4
<1> QED
  BY <1>5 DEF X, Y

LEMMA FirstComeBefore ==
  ASSUME NEW R, IsFiniteSet(R), NEW before, TotalOrder(R, before), NEW k \in Nat,
         NEW x \in First(R, before, k), NEW y \in R \ First(R, before, k)
  PROVE  <<x, y>> \in before
<1>1. x \in R /\ y \in R /\ x # y
  BY DEF First
<1>2. IsFiniteSet(Before(R, before, x)) /\ IsFiniteSet(Before(R, before, y))
  BY FS_Subset DEF Before
<1>3. Cardinality(Before(R, before, x)) \in Nat /\ Cardinality(Before(R, before, y)) \in Nat
  BY <1>2, FS_CardinalityType
<1>4. Cardinality(Before(R, before, x)) < k /\ ~ (Cardinality(Before(R, before, y)) < k)
  BY DEF First
<1>5. <<y, x>> \notin before
  BY <1>1, <1>3, <1>4, BeforeGrows
<1> QED
  BY <1>1, <1>5 DEF TotalOrder

LEMMA FirstCount ==
  ASSUME NEW R, IsFiniteSet(R), NEW before, TotalOrder(R, before), NEW k \in Nat
  PROVE  Cardinality(First(R, before, k))
           = IF Cardinality(R) < k THEN Cardinality(R) ELSE k
<1> DEFINE m == Cardinality(R)
           rank == [x \in R |-> Cardinality(Before(R, before, x))]
           least == IF m < k THEN m ELSE k
           T == First(R, before, k)
           low == [x \in T |-> rank[x]]
<1>1. m \in Nat
  BY FS_CardinalityType
<1>2. \A x \in R : rank[x] \in 0 .. m - 1
  <2> TAKE x \in R
  <2> DEFINE X == Before(R, before, x)
  <2>1. X \in SUBSET R /\ x \notin X
    BY DEF TotalOrder, Before
  <2> HIDE DEF X
  <2>2. Cardinality(X) \in Nat /\ Cardinality(X) <= m /\ Cardinality(X) # m
    BY <2>1, FS_Subset, FS_CardinalityType
  <2>3. rank[x] = Cardinality(X)
    BY DEF X
  <2> HIDE DEF rank, m
  <2> QED
    BY <1>1, <2>2, <2>3
<1>3. \A x, y \in R : rank[x] = rank[y] => x = y
  <2> SUFFICES ASSUME NEW x \in R, NEW y \in R, x # y PROVE rank[x] # rank[y]
    OBVIOUS
  <2>1. rank[x] \in Nat /\ rank[y] \in Nat
    BY <1>1, <1>2
  <2>2. CASE <<x, y>> \in before
    <3>1. rank[x] < rank[y]
      BY <2>2, BeforeGrows
    <3> QED
      BY <3>1, <2>1
  <2>3. CASE <<y, x>> \in before
    <3>1. rank[y] < rank[x]
      BY <2>3, BeforeGrows
    <3> QED
      BY <3>1, <2>1
  <2> QED
    BY <2>2, <2>3 DEF TotalOrder
<1>4. IsFiniteSet(0 .. m - 1) /\ Cardinality(0 .. m - 1) = m
  BY <1>1, FS_Interval
<1>5. rank \in Injection(R, 0 .. m - 1)
  BY <1>2, <1>3 DEF Injection, IsInjective
<1>6. rank \in Surjection(R, 0 .. m - 1)
  BY <1>4, <1>5, FS_Injection
<1>7. least \in Nat /\ least <= m /\ least <= k
  BY <1>1
<1>8. \A x \in R : x \in T <=> rank[x] < k
  BY DEF First
<1>9. \A x \in T : low[x] \in 0 .. least - 1
  <2> TAKE x \in T
  <2>1. x \in R /\ low[x] = rank[x] /\ rank[x] < k
    BY DEF First
  <2>2. rank[x] \in 0 .. m - 1
    BY <1>2, <2>1
  <2> HIDE DEF rank, low, m
  <2> QED
    BY <1>1, <2>1, <2>2
<1>10. low \in Injection(T, 0 .. least - 1)
  <2>1. \A x, y \in T : low[x] = low[y] => x = y
    BY <1>3 DEF First
  <2> HIDE DEF rank, T
  <2> QED
    BY <1>9, <2>1 DEF Injection, IsInjective
<1>11. \A r \in 0 .. least - 1 : \E x \in T : low[x] = r
  <2> TAKE r \in 0 .. least - 1
  <2>1. r \in 0 .. m - 1 /\ r < k
    <3> HIDE DEF m
    <3> QED
      BY <1>1
  <2>2. PICK x \in R : rank[x] = r
    BY <1>6, <2>1 DEF Surjection
  <2>3. x \in T
    BY <1>8, <2>1, <2>2
  <2>4. low[x] = r
    BY <2>2, <2>3
  <2> QED
    BY <2>3, <2>4
<1> HIDE DEF T, rank, least
<1>12. low \in Surjection(T, 0 .. least - 1)
  BY <1>10, <1>11 DEF Surjection, Injection
<1>13. IsFiniteSet(0 .. least - 1) /\ Cardinality(0 .. least - 1) = least
  BY <1>7, FS_Interval
<1>14. Cardinality(T) = Cardinality(0 .. least - 1)
  BY <1>10, <1>12, <1>13, FS_Injection
<1> QED
  BY <1>13, <1>14 DEF T, least

(***************************************************************************)
(* The pool has one offer of every seller with a price.                    *)
(***************************************************************************)

LEMMA PoolPriced ==
  ASSUME NEW of \in Seq(KpOffer)
  PROVE  /\ Priced(of) \subseteq DOMAIN of /\ Priced(of) \subseteq Nat
         /\ Pool(of) \subseteq Priced(of)
         /\ IsFiniteSet(Pool(of)) /\ Cardinality(Pool(of)) \in Nat
         /\ \A i \in Priced(of) : of[i].price \in Nat /\ of[i].price > 0
<1>1. Priced(of) \subseteq DOMAIN of /\ Pool(of) \subseteq Priced(of)
  BY DEF Priced, Pool
<1>2. DOMAIN of \subseteq Nat
  OBVIOUS
<1>3. IsFiniteSet(Pool(of)) /\ Cardinality(Pool(of)) \in Nat
  BY <1>1, PlacesFinite
<1>4. \A i \in Priced(of) : of[i].price \in Nat /\ of[i].price > 0
  BY <1>1, PriceType DEF Priced
<1> QED
  BY <1>1, <1>2, <1>3, <1>4

LEMMA PoolCheapest ==
  ASSUME NEW of \in Seq(KpOffer), NEW i \in Pool(of), NEW j \in Priced(of),
         of[j].seller = of[i].seller
  PROVE  /\ of[i].price <= of[j].price
         /\ j \in Pool(of) => i = j
<1>1. /\ i \in Nat /\ j \in Nat
      /\ of[i].price \in Nat /\ of[j].price \in Nat
  BY PoolPriced
<1>2. \/ of[i].price < of[j].price
      \/ of[i].price = of[j].price /\ i <= j
  BY DEF Pool
<1>3. ASSUME j \in Pool(of) PROVE i = j
  <2>1. \/ of[j].price < of[i].price
        \/ of[j].price = of[i].price /\ j <= i
    BY <1>3, PoolPriced DEF Pool
  <2> QED
    BY <1>1, <1>2, <2>1
<1> QED
  BY <1>1, <1>2, <1>3

LEMMA PoolHasSeller ==
  ASSUME NEW of \in Seq(KpOffer), NEW i \in Priced(of)
  PROVE  \E j \in Pool(of) : of[j].seller = of[i].seller
<1> DEFINE own == {j \in Priced(of) : of[j].seller = of[i].seller}
           prices == {of[j].price : j \in own}
<1>1. i \in own /\ own \subseteq Nat /\ \A j \in own : of[j].price \in Nat
  BY PoolPriced
<1>2. prices \in SUBSET Nat /\ prices # {}
  BY <1>1
<1>3. PICK p \in prices : \A r \in prices : p <= r
  BY <1>2, LeastOf
<1> DEFINE cheapest == {j \in own : of[j].price = p}
<1>4. cheapest \in SUBSET Nat /\ cheapest # {}
  BY <1>1, <1>3
<1>5. PICK j \in cheapest : \A k \in cheapest : j <= k
  <2> HIDE DEF cheapest
  <2> QED
    BY <1>4, LeastOf
<1>6. ASSUME NEW k \in Priced(of), of[k].seller = of[j].seller
      PROVE  \/ of[j].price < of[k].price
             \/ of[j].price = of[k].price /\ j <= k
  <2>1. k \in own /\ of[k].price \in prices /\ of[j].price = p
    BY <1>5, <1>6
  <2>2. p <= of[k].price /\ p \in Nat /\ of[k].price \in Nat
    BY <1>1, <1>2, <1>3, <2>1
  <2>3. CASE of[k].price = p
    BY <1>5, <2>1, <2>3
  <2>4. CASE of[k].price # p
    <3> HIDE DEF own, prices
    <3> QED
      BY <2>1, <2>2, <2>4
  <2> QED
    BY <2>3, <2>4
<1>7. j \in Pool(of)
  BY <1>5, <1>6 DEF Pool
<1> QED
  BY <1>5, <1>7

SellersOf(of) == {of[i].seller : i \in {j \in DOMAIN of : of[j].price > 0}}

LEMMA PoolCount ==
  ASSUME NEW of \in Seq(KpOffer)
  PROVE  Cardinality(SellersOf(of)) = Cardinality(Pool(of))
<1> DEFINE f == [i \in Pool(of) |-> of[i].seller]
<1>1. SellersOf(of) = {of[i].seller : i \in Priced(of)}
  BY DEF SellersOf, Priced
<1>2. f \in [Pool(of) -> SellersOf(of)]
  BY <1>1, PoolPriced
<1>3. \A i, j \in Pool(of) : f[i] = f[j] => i = j
  BY PoolPriced, PoolCheapest
<1>4. \A s \in SellersOf(of) : \E i \in Pool(of) : f[i] = s
  BY <1>1, PoolHasSeller
<1>5. f \in Surjection(Pool(of), SellersOf(of))
  BY <1>2, <1>4 DEF Surjection
<1>6. f \in Injection(Pool(of), SellersOf(of))
  BY <1>2, <1>3 DEF Injection, IsInjective
<1> QED
  BY <1>5, <1>6, PoolPriced, FS_Surjection

(***************************************************************************)
(* The median is a number: of every n there is an n-th price.              *)
(***************************************************************************)

LEMMA PricesBounded ==
  ASSUME NEW of \in Seq(KpOffer)
  PROVE  \E b \in Nat : \A i \in DOMAIN of : of[i].price <= b
<1> DEFINE bounded(n) == \E b \in Nat : \A i \in 1 .. n : of[i].price <= b
           Bad == {n \in 0 .. Len(of) : ~ bounded(n)}
<1>0. DOMAIN of = 1 .. Len(of) /\ Len(of) \in Nat
  OBVIOUS
<1>1. Bad = {}
  <2> SUFFICES ASSUME Bad # {} PROVE FALSE
    OBVIOUS
  <2>1. Bad \in SUBSET Nat
    BY <1>0
  <2>2. PICK n \in Bad : \A m \in Bad : n <= m
    <3> HIDE DEF Bad
    <3> QED
      BY <2>1, LeastOf
  <2>3. bounded(0)
    <3>1. \A i \in 1 .. 0 : of[i].price <= 0
      OBVIOUS
    <3> QED
      BY <3>1
  <2>4. n # 0 /\ n \in 1 .. Len(of)
    <3>1. n \in 0 .. Len(of) /\ ~ bounded(n)
      OBVIOUS
    <3> HIDE DEF bounded, Bad
    <3>2. n # 0
      BY <2>3, <3>1
    <3> QED
      BY <1>0, <3>1, <3>2
  <2>5. n - 1 \in 0 .. Len(of) /\ bounded(n - 1)
    <3>1. n - 1 \in 0 .. Len(of) /\ ~ (n <= n - 1)
      BY <1>0, <2>4
    <3>2. n - 1 \notin Bad
      BY <2>2, <3>1
    <3> HIDE DEF bounded
    <3> QED
      BY <3>1, <3>2
  <2>6. PICK b \in Nat : \A i \in 1 .. n - 1 : of[i].price <= b
    BY <2>5
  <2>7. of[n].price \in Nat
    BY <1>0, <2>4, PriceType
  <2>8. \A i \in 1 .. n : of[i].price <= b + of[n].price
    <3> HIDE DEF bounded, Bad
    <3> TAKE i \in 1 .. n
    <3>1. of[i].price \in Nat
      BY <1>0, <2>4, PriceType
    <3>2. CASE i = n
      BY <2>7, <3>2
    <3>3. CASE i # n
      <4>1. i \in 1 .. n - 1
        BY <3>3, <2>4
      <4>2. of[i].price <= b
        BY <4>1, <2>6
      <4> QED
        BY <4>2, <3>1, <2>7
    <3> QED
      BY <3>2, <3>3
  <2>9. bounded(n)
    <3>1. b + of[n].price \in Nat
      <4> HIDE DEF bounded, Bad
      <4> QED
        BY <2>6, <2>7
    <3> QED
      BY <3>1, <2>8
  <2> QED
    BY <2>2, <2>9
<1>2. bounded(Len(of))
  <2>1. Len(of) \in 0 .. Len(of)
    BY <1>0
  <2> QED
    BY <1>1, <2>1
<1> QED
  BY <1>0, <1>2

LEMMA NthIsPrice ==
  ASSUME NEW of \in Seq(KpOffer), NEW n \in Nat, 1 <= n, n <= Cardinality(Pool(of))
  PROVE  Nth(of, n) \in Nat
<1> DEFINE upTo(v) == {i \in Pool(of) : of[i].price <= v}
           enough == {v \in Nat : Cardinality(upTo(v)) >= n}
           prices == {of[i].price : i \in Pool(of)}
<1>1. \A i \in Pool(of) : of[i].price \in Nat /\ of[i].price > 0
  BY PoolPriced
<1>2. \A v \in Nat : Cardinality(upTo(v)) \in Nat
  BY PoolPriced, FS_Subset, FS_CardinalityType
<1>3. enough # {}
  <2>1. PICK b \in Nat : \A i \in DOMAIN of : of[i].price <= b
    BY PricesBounded
  <2>2. upTo(b) = Pool(of)
    BY <2>1, PoolPriced
  <2> QED
    BY <2>2, PoolPriced
<1>4. PICK p \in enough : \A v \in enough : p <= v
  <2>1. enough \in SUBSET Nat
    OBVIOUS
  <2> HIDE DEF enough
  <2> QED
    BY <1>3, <2>1, LeastOf
<1>5. p # 0
  <2> SUFFICES ASSUME p = 0 PROVE FALSE
    OBVIOUS
  <2>1. upTo(p) = {}
    BY <1>1
  <2>2. Cardinality(upTo(p)) >= n
    BY <1>4
  <2>3. Cardinality(upTo(p)) = 0
    BY <2>1, FS_EmptySet
  <2> HIDE DEF upTo
  <2> QED
    BY <2>2, <2>3
<1>6. p - 1 \in Nat /\ p - 1 \notin enough
  <2> HIDE DEF enough
  <2>1. p \in Nat
    BY DEF enough
  <2> QED
    BY <1>4, <1>5, <2>1
<1>7. Cardinality(upTo(p - 1)) < n
  <2>1. ~ (Cardinality(upTo(p - 1)) >= n) /\ Cardinality(upTo(p - 1)) \in Nat
    BY <1>2, <1>6
  <2> HIDE DEF upTo
  <2> QED
    BY <2>1
<1>8. {i \in Pool(of) : of[i].price < p} = upTo(p - 1)
  BY <1>1, <1>6
<1>9. p \in prices
  <2> SUFFICES ASSUME p \notin prices PROVE FALSE
    OBVIOUS
  <2>1. upTo(p) = upTo(p - 1)
    BY <1>1, <1>6
  <2> QED
    BY <2>1, <1>2, <1>4, <1>7
<1>10. \E x \in prices :
         /\ Cardinality({i \in Pool(of) : of[i].price < x}) < n
         /\ Cardinality({i \in Pool(of) : of[i].price <= x}) >= n
  BY <1>4, <1>7, <1>8, <1>9
<1>11. Nth(of, n) \in prices
  BY <1>10 DEF Nth
<1> QED
  BY <1>1, <1>11

LEMMA MedianType ==
  ASSUME NEW of \in Seq(KpOffer), Cardinality(Pool(of)) >= 3
  PROVE  Median2(of) \in Int
<1> DEFINE n == Cardinality(Pool(of))
<1>1. n \in Nat /\ n >= 3
  BY PoolPriced
<1>2. Nth(of, n \div 2) \in Nat /\ Nth(of, n \div 2 + 1) \in Nat
  <2>1. /\ n \div 2 \in Nat /\ 1 <= n \div 2 /\ n \div 2 <= n
        /\ n \div 2 + 1 \in Nat /\ 1 <= n \div 2 + 1 /\ n \div 2 + 1 <= n
    <3> HIDE DEF n
    <3> QED
      BY <1>1
  <2> QED
    BY <2>1, NthIsPrice
<1> QED
  BY <1>2 DEF Median2

(***************************************************************************)
(* The choice.  Offers of the pool are of different sellers, which are in  *)
(* different places of the dict, so that no two of them tie.               *)
(***************************************************************************)

LEMMA PlaceOfSeller ==
  ASSUME NEW of \in Seq(KpOffer), NEW i \in Priced(of)
  PROVE  PlaceOf(of, i) \in Priced(of) /\ of[PlaceOf(of, i)].seller = of[i].seller
<1> DEFINE own == {j \in Priced(of) : of[j].seller = of[i].seller}
<1>1. own \in SUBSET Nat /\ own # {}
  BY PoolPriced
<1>2. PICK j \in own : \A k \in own : j <= k
  <2> HIDE DEF own
  <2> QED
    BY <1>1, LeastOf
<1>3. \E x \in Priced(of) :
        /\ of[x].seller = of[i].seller
        /\ \A k \in Priced(of) : of[k].seller = of[i].seller => x <= k
  BY <1>2
<1> QED
  BY <1>3 DEF PlaceOf

Prefers(of, R) == {x \in R \X R : Preferred(of, Median2(of), x[1], x[2])}

LEMMA PrefersOrders ==
  ASSUME NEW of \in Seq(KpOffer), Cardinality(Pool(of)) >= 3, NEW R \in SUBSET Pool(of)
  PROVE  TotalOrder(R, Prefers(of, R))
<1> DEFINE median2 == Median2(of)
           trust(i) == of[i].trust
           off(i) == Off(of, median2, i)
           place(i) == PlaceOf(of, i)
           less(i, j) == \/ trust(i) > trust(j)
                         \/ /\ trust(i) = trust(j)
                            /\ \/ off(i) < off(j)
                               \/ off(i) = off(j) /\ place(i) < place(j)
<1>1. \A i \in R : trust(i) \in Int /\ off(i) \in Int /\ place(i) \in Int
  <2> TAKE i \in R
  <2>1. i \in Priced(of) /\ i \in DOMAIN of
    BY PoolPriced
  <2>2. median2 \in Int /\ of[i].price \in Nat
    BY <2>1, MedianType, PoolPriced
  <2>3. off(i) \in Int
    <3> HIDE DEF median2
    <3> QED
      BY <2>2 DEF Off
  <2> QED
    BY <2>1, <2>3, PriceType, PlaceOfSeller, PoolPriced
<1>2. \A i, j \in R : place(i) = place(j) => i = j
  BY PoolPriced, PlaceOfSeller, PoolCheapest
<1>3. \A i, j \in R : <<i, j>> \in Prefers(of, R) <=> less(i, j)
  BY DEF Prefers, Preferred
<1> HIDE DEF trust, off, place
<1>4. \A x \in R : ~ less(x, x)
  BY <1>1
<1>5. ASSUME NEW x \in R, NEW y \in R, NEW z \in R, less(x, y), less(y, z)
      PROVE  less(x, z)
  BY <1>1, <1>5
<1>6. ASSUME NEW x \in R, NEW y \in R, x # y
      PROVE  less(x, y) \/ less(y, x)
  BY <1>1, <1>2, <1>6
<1> HIDE DEF less
<1>7. Prefers(of, R) \subseteq R \X R
  BY DEF Prefers
<1> QED
  BY <1>3, <1>4, <1>5, <1>6, <1>7 DEF TotalOrder

LEMMA SelectIsFirst ==
  ASSUME NEW of \in Seq(KpOffer), Cardinality(Pool(of)) >= 3
  PROVE  SelectKp(of) = First(Realistic(of), Prefers(of, Realistic(of)), KpLimit)
<1> DEFINE R == Realistic(of)
<1>1. \A i \in R : {j \in R : Preferred(of, Median2(of), j, i)} = Before(R, Prefers(of, R), i)
  BY DEF Before, Prefers
<1>2. ~ (Cardinality(Pool(of)) < 3)
  BY PoolPriced
<1>3. SelectKp(of) = {i \in R : Cardinality({j \in R : Preferred(of, Median2(of), j, i)}) < KpLimit}
  BY <1>2 DEF SelectKp
<1> HIDE DEF R
<1>4. SelectKp(of) = First(R, Prefers(of, R), KpLimit)
  BY <1>1, <1>3 DEF First
<1> QED
  BY <1>4 DEF R

LEMMA RealisticInPool ==
  ASSUME NEW of \in Seq(KpOffer), Cardinality(Pool(of)) >= 3
  PROVE  /\ Realistic(of) \in SUBSET Pool(of)
         /\ IsFiniteSet(Realistic(of))
         /\ Cardinality(Realistic(of)) \in Nat /\ Cardinality(Realistic(of)) >= 3
         /\ Cardinality(InBand(of)) \in Nat
         /\ Cardinality(InBand(of)) >= 3 => Realistic(of) = InBand(of)
         /\ ~ (Cardinality(InBand(of)) >= 3) => Realistic(of) = Pool(of)
<1>1. InBand(of) \in SUBSET Pool(of)
  BY DEF InBand
<1>2. IsFiniteSet(InBand(of)) /\ Cardinality(InBand(of)) \in Nat
  BY <1>1, PoolPriced, FS_Subset, FS_CardinalityType
<1>3. CASE Cardinality(InBand(of)) >= 3
  <2>1. Realistic(of) = InBand(of)
    BY <1>2, <1>3 DEF Realistic
  <2> QED
    BY <2>1, <1>1, <1>2, <1>3
<1>4. CASE ~ (Cardinality(InBand(of)) >= 3)
  <2>1. Realistic(of) = Pool(of)
    BY <1>2, <1>4 DEF Realistic
  <2> QED
    BY <2>1, <1>2, <1>4, PoolPriced
<1> QED
  BY <1>3, <1>4

\* What is chosen, and how many.
LEMMA SelectInPool ==
  ASSUME NEW of \in Seq(KpOffer)
  PROVE  SelectKp(of) \in SUBSET Pool(of)
<1>1. CASE Cardinality(Pool(of)) < 3
  BY <1>1 DEF SelectKp
<1>2. CASE Cardinality(Pool(of)) >= 3
  BY <1>2, SelectIsFirst, RealisticInPool DEF First
<1> QED
  BY <1>1, <1>2, PoolPriced

LEMMA SelectCount ==
  ASSUME NEW of \in Seq(KpOffer), Cardinality(Pool(of)) >= 3
  PROVE  /\ Cardinality(SelectKp(of)) \in 3 .. KpLimit
         /\ Cardinality(SelectKp(of)) \in {KpLimit, Cardinality(Realistic(of))}
<1> DEFINE R == Realistic(of)
<1>1. TotalOrder(R, Prefers(of, R)) /\ IsFiniteSet(R)
  BY PrefersOrders, RealisticInPool
<1>2. KpLimit \in Nat /\ KpLimit >= 3
  BY NmckAssumption
<1>3. Cardinality(First(R, Prefers(of, R), KpLimit))
        = IF Cardinality(R) < KpLimit THEN Cardinality(R) ELSE KpLimit
  <2> HIDE DEF R
  <2> QED
    BY <1>1, <1>2, FirstCount
<1>4. Cardinality(SelectKp(of)) = IF Cardinality(R) < KpLimit THEN Cardinality(R) ELSE KpLimit
  BY <1>3, SelectIsFirst
<1>5. Cardinality(R) \in Nat /\ Cardinality(R) >= 3
  BY RealisticInPool
<1> HIDE DEF R
<1>6. /\ Cardinality(SelectKp(of)) \in 3 .. KpLimit
      /\ Cardinality(SelectKp(of)) \in {KpLimit, Cardinality(R)}
  BY <1>2, <1>4, <1>5
<1> QED
  BY <1>6 DEF R

\* With fewer than three sellers all are chosen, and there is no report.
LEMMA SelectFew ==
  ASSUME NEW of \in Seq(KpOffer)
  PROVE  Cardinality(SelectKp(of)) < 3 <=> Cardinality(Pool(of)) < 3
<1>1. CASE Cardinality(Pool(of)) < 3
  BY <1>1 DEF SelectKp
<1>2. CASE Cardinality(Pool(of)) >= 3
  <2>1. Cardinality(SelectKp(of)) \in 3 .. KpLimit /\ KpLimit \in Nat
    BY <1>2, SelectCount, NmckAssumption
  <2> QED
    BY <2>1, <1>2, PoolPriced
<1> QED
  BY <1>1, <1>2, PoolPriced

LEMMA SelectInBand ==
  ASSUME NEW of \in Seq(KpOffer), Cardinality(Pool(of)) >= 3, Cardinality(InBand(of)) >= 3
  PROVE  /\ \A i, j \in SelectKp(of) : of[i].price <= 4 * of[j].price
         /\ \A i \in SelectKp(of), j \in InBand(of) \ SelectKp(of) : of[j].trust <= of[i].trust
<1>1. Realistic(of) = InBand(of)
  BY RealisticInPool
<1>2. SelectKp(of) \in SUBSET InBand(of)
  BY <1>1, SelectIsFirst DEF First
<1>3. ASSUME NEW i \in SelectKp(of), NEW j \in SelectKp(of)
      PROVE  of[i].price <= 4 * of[j].price
  <2>1. Median2(of) <= 4 * of[j].price /\ of[i].price <= Median2(of)
    BY <1>2 DEF InBand
  <2>2. of[i].price \in Nat /\ of[j].price \in Nat
    BY SelectInPool, PoolPriced
  <2>3. Median2(of) \in Int
    BY MedianType
  <2> QED
    BY <2>1, <2>2, <2>3
<1>4. ASSUME NEW i \in SelectKp(of), NEW j \in InBand(of) \ SelectKp(of)
      PROVE  of[j].trust <= of[i].trust
  <2> DEFINE R == Realistic(of)
  <2>1. i \in First(R, Prefers(of, R), KpLimit) /\ j \in R \ First(R, Prefers(of, R), KpLimit)
    BY <1>1, SelectIsFirst
  <2>2. TotalOrder(R, Prefers(of, R)) /\ IsFiniteSet(R) /\ KpLimit \in Nat
    BY PrefersOrders, RealisticInPool, NmckAssumption
  <2> HIDE DEF R
  <2>3. <<i, j>> \in Prefers(of, R)
    BY <2>1, <2>2, FirstComeBefore
  <2>4. of[i].trust > of[j].trust \/ of[i].trust = of[j].trust
    BY <2>3 DEF Prefers, Preferred
  <2>5. i \in DOMAIN of /\ j \in DOMAIN of
    BY <1>2, PoolPriced DEF InBand
  <2>6. of[i].trust \in Int /\ of[j].trust \in Int
    BY <2>5, PriceType
  <2> QED
    BY <2>4, <2>6
<1> QED
  BY <1>3, <1>4

(***************************************************************************)
(* The export.  What it reports was chosen by SelectKp of the offers it    *)
(* still has.                                                              *)
(***************************************************************************)

NmckInv ==
  /\ NmckTypeOK
  /\ nmck.pc = "refused" => Cardinality(SelectKp(nmck.offers)) < 3
  /\ nmck.pc = "report" =>
       /\ nmck.chosen = SelectKp(nmck.offers)
       /\ ~ (Cardinality(nmck.chosen) < 3)
       /\ nmck.homogeneous <=> Homogeneous(nmck.offers, nmck.chosen)

LEMMA InitNmck == NmckInit => NmckInv
  BY DEF NmckInit, NmckInv, NmckTypeOK, NoExport, Export

LEMMA NextNmck == NmckInv /\ [NmckNext]_nmck => NmckInv'
<1> SUFFICES ASSUME NmckInv, [NmckNext]_nmck PROVE NmckInv'
  OBVIOUS
<1>1. CASE NmckSearch
  <2>1. PICK n \in 0 .. MaxOffers : \E offers \in [1 .. n -> KpOffer] :
          nmck' = [nmck EXCEPT !.pc = "found", !.offers = offers]
    BY <1>1 DEF NmckSearch
  <2>2. PICK offers \in [1 .. n -> KpOffer] :
          nmck' = [nmck EXCEPT !.pc = "found", !.offers = offers]
    BY <2>1
  <2>3. offers \in Seq(KpOffer)
    BY NmckAssumption
  <2> QED
    BY <2>2, <2>3 DEF NmckInv, NmckTypeOK, Export
<1>2. CASE NmckCompute
  <2> DEFINE kp == SelectKp(nmck.offers)
             same == Homogeneous(nmck.offers, kp)
  <2>1. nmck.offers \in Seq(KpOffer)
    BY DEF NmckInv, NmckTypeOK, Export
  <2>2. kp \in SUBSET Nat
    BY <2>1, SelectInPool, PoolPriced
  <2>3. same \in BOOLEAN
    BY DEF Homogeneous
  <2> HIDE DEF same
  <2>4. CASE Cardinality(kp) < 3
    <3>1. nmck' = [nmck EXCEPT !.pc = "refused"]
      BY <1>2, <2>4 DEF NmckCompute
    <3> QED
      BY <3>1, <2>4 DEF NmckInv, NmckTypeOK, Export
  <2>5. CASE ~ (Cardinality(kp) < 3)
    <3>1. nmck' = [nmck EXCEPT !.pc = "report", !.chosen = kp, !.homogeneous = same]
      BY <1>2, <2>5 DEF NmckCompute, same
    <3>2. /\ nmck'.pc = "report" /\ nmck'.offers = nmck.offers
          /\ nmck'.chosen = kp /\ nmck'.homogeneous = same
      BY <3>1 DEF NmckInv, NmckTypeOK, Export
    <3>3. nmck' \in Export
      BY <3>1, <2>2, <2>3 DEF NmckInv, NmckTypeOK, Export
    <3>4. SelectKp(nmck'.offers) = kp /\ Homogeneous(nmck'.offers, nmck'.chosen) = same
      BY <3>2 DEF same
    <3> QED
      BY <2>5, <3>2, <3>3, <3>4 DEF NmckInv, NmckTypeOK
  <2> QED
    BY <2>4, <2>5
<1>3. CASE NmckGone
  BY <1>3, InitNmck DEF NmckGone, NmckInv, NmckTypeOK, NoExport, Export
<1>4. CASE UNCHANGED nmck
  BY <1>4 DEF NmckInv, NmckTypeOK
<1> QED
  BY <1>1, <1>2, <1>3, <1>4 DEF NmckNext

LEMMA NmckInvDefensible == NmckInv => KpDefensible
<1> SUFFICES ASSUME NmckInv PROVE KpDefensible
  OBVIOUS
<1> DEFINE of == nmck.offers
           kp == nmck.chosen
<1>1. of \in Seq(KpOffer)
  BY DEF NmckInv, NmckTypeOK, Export
<1>2. ASSUME nmck.pc = "refused" PROVE Cardinality(SellersOf(of)) < 3
  <2>1. Cardinality(SelectKp(of)) < 3
    BY <1>2 DEF NmckInv
  <2> HIDE DEF of
  <2> QED
    BY <1>1, <2>1, SelectFew, PoolCount
<1>3. ASSUME nmck.pc = "report"
      PROVE  /\ kp = SelectKp(of)
             /\ Cardinality(Pool(of)) >= 3
             /\ nmck.homogeneous <=> Homogeneous(of, kp)
  <2>1. kp = SelectKp(of) /\ ~ (Cardinality(kp) < 3) /\ (nmck.homogeneous <=> Homogeneous(of, kp))
    BY <1>3 DEF NmckInv
  <2> HIDE DEF of, kp
  <2>2. ~ (Cardinality(Pool(of)) < 3)
    BY <1>1, <2>1, SelectFew
  <2> QED
    BY <1>1, <2>1, <2>2, PoolPriced
<1>4. ASSUME nmck.pc = "report"
      PROVE  /\ Cardinality(kp) \in 3 .. KpLimit
             /\ \/ Cardinality(kp) = KpLimit
                \/ Cardinality(kp) = Cardinality(SellersOf(of))
                \/ Cardinality(kp) = Cardinality(InBand(of))
  <2> HIDE DEF of, kp
  <2>1. /\ Cardinality(kp) \in 3 .. KpLimit
        /\ Cardinality(kp) \in {KpLimit, Cardinality(Realistic(of))}
    BY <1>1, <1>3, <1>4, SelectCount
  <2>2. Realistic(of) \in {InBand(of), Pool(of)}
    BY <1>1, <1>3, <1>4, RealisticInPool
  <2> QED
    BY <1>1, <2>1, <2>2, PoolCount
<1>5. ASSUME nmck.pc = "report"
      PROVE  /\ \A i, j \in kp : of[i].seller = of[j].seller => i = j
             /\ \A i \in kp, j \in DOMAIN of :
                   of[j].seller = of[i].seller /\ of[j].price > 0 => of[i].price <= of[j].price
  <2> HIDE DEF of, kp
  <2>1. kp \in SUBSET Pool(of)
    BY <1>1, <1>3, <1>5, SelectInPool
  <2>2. \A j \in DOMAIN of : of[j].price > 0 => j \in Priced(of)
    BY DEF Priced
  <2> QED
    BY <1>1, <2>1, <2>2, PoolPriced, PoolCheapest
<1>6. ASSUME nmck.pc = "report", Cardinality(InBand(of)) >= 3
      PROVE  /\ \A i, j \in kp : of[i].price <= 4 * of[j].price
             /\ \A i \in kp, j \in InBand(of) \ kp : of[j].trust <= of[i].trust
  <2> HIDE DEF of, kp
  <2> QED
    BY <1>1, <1>3, <1>6, SelectInBand
<1>7. ASSUME nmck.pc = "report"
      PROVE  nmck.homogeneous <=>
               10000 * Cardinality(kp) * Pairs(of, kp)
                 <= 2 * Square(33) * (Cardinality(kp) - 1) * Square(Total(of, kp))
  <2> HIDE DEF of, kp
  <2>1. kp \in SUBSET DOMAIN of
    BY <1>1, <1>3, <1>7, SelectInPool, PoolPriced
  <2> QED
    BY <1>1, <1>3, <1>7, <2>1, HomogeneousByPairs
<1> QED
  BY <1>2, <1>4, <1>5, <1>6, <1>7 DEF KpDefensible, SellersOf

\* The prices an export justifies are those a procurement officer would
\* defend (nmck.py, _select_kp and compute), of any offers, with any limit of
\* at least three.
THEOREM ChoiceDefensible == Spec => []KpDefensible
<1>1. Init => NmckInv
  BY InitNmck DEF Init
<1>2. [Next]_services => [NmckNext]_nmck
  BY DEF Next, services
<1>3. NmckInv /\ [NmckNext]_nmck => NmckInv'
  BY NextNmck
<1>4. NmckInv => KpDefensible
  BY NmckInvDefensible
<1>5. QED
  BY <1>1, <1>2, <1>3, <1>4, PTL DEF Spec

=============================================================================
