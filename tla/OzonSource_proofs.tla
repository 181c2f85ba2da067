------------------------- MODULE OzonSource_proofs -------------------------
(***************************************************************************)
(* Proofs about OzonSource, for any searches, exports and products.        *)
(***************************************************************************)
EXTENDS OzonSource, FiniteSetTheorems, FunctionTheorems, SequenceTheorems, TLAPS

USE CallsAssumption, BoundsAssumption

(***************************************************************************)
(* The inductive invariant.                                                *)
(***************************************************************************)

Typed ==
  /\ now \in Nat
  /\ mem \in Jar /\ file \in Jar
  /\ call \in [Calls -> Call]
  /\ born \in [Exports -> Nat]
  /\ exports \in 0 .. MaxExports

\* Memory and file hold exports with the time they were made at, and what is
\* refused was exported.
JarsTrue ==
  /\ \A jar \in {mem, file} :
       /\ jar.export <= exports
       /\ jar.export # 0 => jar.at = born[jar.export]
  /\ refused \subseteq 1 .. exports

\* In memory is nothing that was invalidated, but for what was loaded again.
MemoryClean == mem.export \in refused => mem.export = file.export

\* The cookies of a search.
CookiesOf(r) ==
  /\ r.with <= exports /\ r.first <= exports
  /\ r.pc \in {"l1", "invalidate"} => r.first # 0
  /\ r.pc \in {"l1again", "l2"} => r.with > r.first

\* The offers of a search: listed and reported alike, once, and no more of
\* them to come.
OffersOf(r) ==
  /\ r.emitted = r.out
  /\ r.pc \notin {"idle", "emit"} => r.out = Never
  /\ r.pc # "idle" => r.outcome = "none"
  /\ r.pc = "enrich" => r.ready = {}
  /\ r.pc \in {"browse", "emit"} => r.ready \cap r.bare = {}
  /\ \A o \in r.ready \cup r.bare : r.out[o] = 0

IInv ==
  /\ Typed
  /\ JarsTrue
  /\ MemoryClean
  /\ \A c \in Calls : CookiesOf(call[c]) /\ OffersOf(call[c])

LEMMA NoCallType == NoCall \in Call /\ Never \in [Stubs -> 0 .. 1]
BY DEF NoCall, Call, Never

\* A search that is over, or that was never made, satisfies what is said of
\* searches.
LEMMA NoCallFine ==
  ASSUME Typed
  PROVE  CookiesOf(NoCall) /\ OffersOf(NoCall)
BY DEF Typed, CookiesOf, OffersOf, NoCall, Never

LEMMA InitInv == Init => IInv
BY DEF Init, IInv, Typed, JarsTrue, MemoryClean, CookiesOf, OffersOf, Jar,
       NoJar, Call, NoCall, Never, Exports

(***************************************************************************)
(* The steps of one search.                                                *)
(***************************************************************************)

\* A step that makes r of search c and leaves the cookies alone.
LEMMA SearchStep ==
  ASSUME IInv, NEW c \in Calls, NEW r \in Call,
         UNCHANGED <<now, cookieVars, refused>>,
         call' = [call EXCEPT ![c] = r],
         CookiesOf(r), OffersOf(r)
  PROVE  IInv'
<1>1. Typed' /\ JarsTrue' /\ MemoryClean'
  BY DEF IInv, Typed, JarsTrue, MemoryClean, cookieVars
<1>2. ASSUME NEW d \in Calls
      PROVE  CookiesOf(call[d])' /\ OffersOf(call[d])'
  <2>1. call'[d] = IF d = c THEN r ELSE call[d]
    BY DEF IInv, Typed
  <2>2. exports' = exports
    BY DEF cookieVars
  <2>3. CookiesOf(call[d]) /\ OffersOf(call[d])
    BY DEF IInv
  <2>4. CASE d = c
    BY <2>1, <2>2, <2>4 DEF CookiesOf, OffersOf
  <2>5. CASE d # c
    BY <2>1, <2>2, <2>3, <2>5 DEF CookiesOf, OffersOf
  <2>6. QED
    BY <2>4, <2>5
<1>3. QED
  BY <1>1, <1>2 DEF IInv

\* A search ends, with its offers or without any.
LEMMA EndsStep ==
  ASSUME IInv, NEW c \in Calls, NEW outcome \in {"offers", "error"},
         UNCHANGED <<now, cookieVars, refused>>,
         Ends(c, outcome)
  PROVE  IInv'
<1> DEFINE old == call[c]
           r == [NoCall EXCEPT !.outcome = outcome, !.out = old.out, !.emitted = old.emitted]
<1>1. old \in Call /\ CookiesOf(old) /\ OffersOf(old) /\ exports \in 0 .. MaxExports
  BY DEF IInv, Typed
<1>2. r \in Call
  BY <1>1, NoCallType DEF Call
<1>3. CookiesOf(r) /\ OffersOf(r)
  BY <1>1 DEF CookiesOf, OffersOf, NoCall, Never
<1>4. call' = [call EXCEPT ![c] = r]
  BY DEF Ends
<1>5. QED
  BY <1>2, <1>3, <1>4, SearchStep

\* The record that Emit makes of a search, in which offer o is listed and
\* reported.
Reported(old, o) ==
  [old EXCEPT !.out = [old.out EXCEPT ![o] = 1],
              !.emitted = [old.out EXCEPT ![o] = 1],
              !.ready = IF o \in old.ready THEN old.ready \ {o} ELSE {},
              !.bare = IF o \in old.ready THEN old.bare ELSE old.bare \ {o}]

LEMMA EmitMakes ==
  ASSUME IInv, NEW c \in Calls, Emit(c)
  PROVE  \E o \in call[c].ready \cup call[c].bare :
           /\ o \in Stubs /\ call[c].out[o] = 0
           /\ Reported(call[c], o) \in Call
           /\ call' = [call EXCEPT ![c] = Reported(call[c], o)]
<1> DEFINE old == call[c]
<1>1. old \in Call /\ OffersOf(old) /\ call \in [Calls -> Call]
  BY DEF IInv, Typed
<1>2. PICK o \in old.ready \cup old.bare :
        call' = [call EXCEPT ![c].out[o] = @ + 1, ![c].emitted[o] = @ + 1,
                   ![c].ready = IF o \in @ THEN @ \ {o} ELSE {},
                   ![c].bare = IF o \in call[c].ready THEN @ ELSE @ \ {o}]
  BY DEF Emit
<1> DEFINE out == [old.out EXCEPT ![o] = 1]
           ready == IF o \in old.ready THEN old.ready \ {o} ELSE {}
           bare == IF o \in old.ready THEN old.bare ELSE old.bare \ {o}
<1>3. /\ o \in Stubs /\ old.out[o] = 0 /\ old.emitted = old.out
      /\ old.out \in [Stubs -> 0 .. 1]
  BY <1>1 DEF OffersOf, Call
<1>4. Reported(old, o) = [old EXCEPT !.out = out, !.emitted = out, !.ready = ready, !.bare = bare]
  BY DEF Reported
<1>5. Reported(old, o) \in Call
  <2>1. out \in [Stubs -> 0 .. 1] /\ ready \in SUBSET Stubs /\ bare \in SUBSET Stubs
    BY <1>1, <1>3 DEF Call
  <2>2. QED
    BY <1>1, <1>4, <2>1 DEF Call
<1>6. call' = [call EXCEPT ![c] = Reported(old, o)]
  <2>1. call' = [call EXCEPT ![c] = [old EXCEPT
                   !.out = [old.out EXCEPT ![o] = old.out[o] + 1],
                   !.emitted = [old.emitted EXCEPT ![o] = old.emitted[o] + 1],
                   !.ready = ready, !.bare = bare]]
    BY <1>1, <1>2 DEF Call
  <2>2. old.out[o] + 1 = 1 /\ old.emitted[o] + 1 = 1
    BY <1>3
  <2>3. QED
    BY <1>3, <1>4, <2>1, <2>2
<1>7. QED
  BY <1>3, <1>5, <1>6

LEMMA QuietSteps ==
  ASSUME IInv, NEW c \in Calls,
         \/ Answered(c) \/ Escalates(c) \/ Fails(c) \/ Enrich(c) \/ Browse(c)
         \/ Emit(c) \/ Return(c) \/ Taken(c) \/ Cancel(c) \/ WarmFails(c)
  PROVE  IInv'
<1> DEFINE old == call[c]
<1>0. /\ old \in Call /\ CookiesOf(old) /\ OffersOf(old)
      /\ exports \in 0 .. MaxExports /\ call \in [Calls -> Call] /\ Typed
  BY DEF IInv, Typed
<1>1. CASE \/ Answered(c) /\ Ends(c, "offers")
           \/ Return(c)
           \/ Fails(c)
           \/ WarmFails(c)
  BY <1>1, EndsStep DEF Answered, Return, Fails, WarmFails
<1>2. CASE /\ Answered(c)
           /\ \E stubs \in SUBSET Stubs \ {{}} :
                call' = [call EXCEPT ![c] = [NoCall EXCEPT !.pc = "enrich", !.bare = stubs]]
  <2>1. PICK stubs \in SUBSET Stubs :
          call' = [call EXCEPT ![c] = [NoCall EXCEPT !.pc = "enrich", !.bare = stubs]]
    BY <1>2
  <2> DEFINE r == [NoCall EXCEPT !.pc = "enrich", !.bare = stubs]
  <2>2. r \in Call
    BY NoCallType DEF Call
  <2>3. CookiesOf(r) /\ OffersOf(r)
    BY <1>0 DEF CookiesOf, OffersOf, NoCall, Never
  <2>4. QED
    BY <1>2, <2>1, <2>2, <2>3, SearchStep DEF Answered
<1>3. CASE Escalates(c)
  <2> DEFINE r == [old EXCEPT !.pc = "l2"]
  <2>1. r \in Call
    BY <1>0 DEF Call
  <2>2. CookiesOf(r) /\ OffersOf(r)
    BY <1>0, <1>3 DEF Escalates, CookiesOf, OffersOf, Call
  <2>3. call' = [call EXCEPT ![c] = r]
    BY <1>3 DEF Escalates, Goto
  <2>4. QED
    BY <1>3, <2>1, <2>2, <2>3, SearchStep DEF Escalates
<1>4. CASE Enrich(c)
  <2>1. PICK named \in SUBSET old.bare, bare \in SUBSET old.bare :
          /\ named \cap bare = {}
          /\ call' = [call EXCEPT ![c].pc = IF bare = {} THEN "emit" ELSE "browse",
                                  ![c].ready = named, ![c].bare = bare]
    BY <1>4 DEF Enrich
  <2> DEFINE r == [old EXCEPT !.pc = IF bare = {} THEN "emit" ELSE "browse",
                              !.ready = named, !.bare = bare]
  <2>2. r \in Call
    BY <1>0 DEF Call
  <2>3. CookiesOf(r) /\ OffersOf(r)
    BY <1>0, <1>4, <2>1 DEF Enrich, CookiesOf, OffersOf, Never, Call
  <2>4. call' = [call EXCEPT ![c] = r]
    BY <1>0, <2>1
  <2>5. QED
    BY <1>4, <2>2, <2>3, <2>4, SearchStep DEF Enrich
<1>5. CASE Browse(c)
  <2>1. PICK kept \in SUBSET old.bare :
          call' = [call EXCEPT ![c].pc = "emit", ![c].bare = kept]
    BY <1>5 DEF Browse
  <2> DEFINE r == [old EXCEPT !.pc = "emit", !.bare = kept]
  <2>2. r \in Call
    BY <1>0 DEF Call
  <2>3. CookiesOf(r) /\ OffersOf(r)
    BY <1>0, <1>5, <2>1 DEF Browse, CookiesOf, OffersOf, Call
  <2>4. call' = [call EXCEPT ![c] = r]
    BY <1>0, <2>1
  <2>5. QED
    BY <1>5, <2>2, <2>3, <2>4, SearchStep DEF Browse
<1>6. CASE Emit(c)
  <2>1. PICK o \in old.ready \cup old.bare :
          /\ o \in Stubs /\ old.out[o] = 0
          /\ Reported(old, o) \in Call
          /\ call' = [call EXCEPT ![c] = Reported(old, o)]
    BY <1>6, EmitMakes
  <2> DEFINE r == Reported(old, o)
  <2>2. old.pc = "emit" /\ old.ready \cap old.bare = {} /\ old.outcome = "none"
    BY <1>0, <1>6 DEF Emit, OffersOf
  <2>3. /\ r.out = [old.out EXCEPT ![o] = 1] /\ r.emitted = r.out
        /\ r.ready = IF o \in old.ready THEN old.ready \ {o} ELSE {}
        /\ r.bare = IF o \in old.ready THEN old.bare ELSE old.bare \ {o}
        /\ r.pc = "emit" /\ r.outcome = "none" /\ r.with = old.with /\ r.first = old.first
    BY <1>0, <2>2 DEF Reported, Call
  <2>4. CookiesOf(r)
    BY <1>0, <2>3 DEF CookiesOf
  <2>5. r.ready \cap r.bare = {} /\ o \notin r.ready \cup r.bare
    BY <2>1, <2>2, <2>3
  <2>6. \A u \in r.ready \cup r.bare : r.out[u] = 0
    <3>1. \A u \in r.ready \cup r.bare : u \in old.ready \cup old.bare
      BY <2>3
    <3>2. \A u \in old.ready \cup old.bare : u \in Stubs /\ old.out[u] = 0
      BY <1>0 DEF OffersOf, Call
    <3>3. \A u \in Stubs : u # o => r.out[u] = old.out[u]
      BY <1>0, <2>3 DEF Call
    <3>4. QED
      BY <3>1, <3>2, <3>3, <2>5
  <2>7. OffersOf(r)
    BY <2>3, <2>5, <2>6 DEF OffersOf
  <2>8. QED
    BY <1>6, <2>1, <2>4, <2>7, SearchStep DEF Emit
<1>7. CASE Taken(c) \/ Cancel(c)
  BY <1>0, <1>7, NoCallType, NoCallFine, SearchStep DEF Taken, Cancel
<1>8. QED
  BY <1>1, <1>2, <1>3, <1>4, <1>5, <1>6, <1>7 DEF Answered

(***************************************************************************)
(* The steps of the warmer.                                                *)
(***************************************************************************)

\* What a step that touches the cookies owes to the invariant, but for call.
CookiesStayTrue ==
  /\ now' \in Nat
  /\ mem' \in Jar /\ file' \in Jar
  /\ born' \in [Exports -> Nat]
  /\ exports' \in 0 .. MaxExports /\ exports <= exports'
  /\ JarsTrue' /\ MemoryClean'

\* A search that has found nothing yet.
Empty(r) == r.out = Never /\ r.outcome = "none"

LEMMA WarmerStep ==
  ASSUME IInv, NEW c \in Calls, NEW r \in Call, CookiesStayTrue,
         call' = [call EXCEPT ![c] = r],
         r.with <= exports' /\ r.first <= exports',
         r.pc \in {"l1", "invalidate"} => r.first # 0,
         r.pc \in {"l1again", "l2"} => r.with > r.first,
         OffersOf(r)
  PROVE  IInv'
<1>1. Typed' /\ JarsTrue' /\ MemoryClean'
  BY DEF IInv, Typed, CookiesStayTrue
<1>2. ASSUME NEW d \in Calls
      PROVE  CookiesOf(call[d])' /\ OffersOf(call[d])'
  <2>1. call'[d] = IF d = c THEN r ELSE call[d]
    BY DEF IInv, Typed
  <2>2. exports <= exports' /\ exports \in Nat /\ exports' \in Nat /\ call[d] \in Call
    BY DEF CookiesStayTrue, IInv, Typed
  <2>3. CookiesOf(call[d]) /\ OffersOf(call[d])
    BY DEF IInv
  <2>4. CASE d = c
    BY <2>1, <2>2, <2>4 DEF CookiesOf, OffersOf
  <2>5. CASE d # c
    BY <2>1, <2>2, <2>3, <2>5 DEF CookiesOf, OffersOf, Call
  <2>6. QED
    BY <2>4, <2>5
<1>3. QED
  BY <1>1, <1>2 DEF IInv

\* A search waits for the lock, or has it and warms.
LEMMA GotoStep ==
  ASSUME IInv, NEW c \in Calls, CookiesStayTrue,
         NEW pc \in {"get", "invalidate", "force", "warm", "rewarm"},
         Goto(c, pc), Empty(call[c]),
         pc = "invalidate" => call[c].first # 0
  PROVE  IInv'
<1> DEFINE old == call[c]
           r == [old EXCEPT !.pc = pc]
<1>1. old \in Call /\ CookiesOf(old) /\ OffersOf(old)
  BY DEF IInv, Typed
<1>2. r \in Call
  BY <1>1 DEF Call
<1>3. OffersOf(r)
  BY <1>1 DEF OffersOf, Empty, Call
<1>4. r.with <= exports' /\ r.first <= exports'
  BY <1>1 DEF CookiesOf, CookiesStayTrue, IInv, Typed, Call
<1>5. /\ r.pc \in {"l1", "invalidate"} => r.first # 0
      /\ r.pc \in {"l1again", "l2"} => r.with > r.first
  BY <1>1 DEF Call
<1>6. call' = [call EXCEPT ![c] = r]
  BY DEF Goto
<1>7. QED
  BY <1>2, <1>3, <1>4, <1>5, <1>6, WarmerStep

\* Cookies are handed to a search.
LEMMA HandStep ==
  ASSUME IInv, NEW c \in Calls, CookiesStayTrue,
         NEW jar \in Jar, NEW force \in BOOLEAN,
         Hand(c, jar, force), Empty(call[c]),
         jar.export <= exports',
         force => jar.export > call[c].first,
         ~force => jar.export # 0
  PROVE  IInv'
<1> DEFINE old == call[c]
<1>1. old \in Call /\ CookiesOf(old) /\ OffersOf(old) /\ exports \in 0 .. MaxExports
  BY DEF IInv, Typed
<1>2. /\ exports' \in 0 .. MaxExports /\ exports <= exports'
      /\ jar.export \in 0 .. MaxExports
  BY DEF CookiesStayTrue, Jar
<1>3. CASE force
  <2> DEFINE r == [old EXCEPT !.pc = "l1again", !.with = jar.export]
  <2>1. r \in Call
    BY <1>1, <1>2 DEF Call
  <2>2. OffersOf(r)
    BY <1>1 DEF OffersOf, Empty, Call
  <2>3. /\ r.with <= exports' /\ r.first <= exports'
        /\ r.pc \in {"l1", "invalidate"} => r.first # 0
        /\ r.pc \in {"l1again", "l2"} => r.with > r.first
    BY <1>1, <1>2, <1>3 DEF CookiesOf, Call
  <2>4. call' = [call EXCEPT ![c] = r]
    BY <1>1, <1>3 DEF Hand
  <2>5. QED
    BY <2>1, <2>2, <2>3, <2>4, WarmerStep
<1>4. CASE ~force /\ jar.empty
  <2> DEFINE r == [NoCall EXCEPT !.outcome = "error", !.out = old.out, !.emitted = old.emitted]
  <2>1. r \in Call
    BY <1>1, NoCallType DEF Call
  <2>2. OffersOf(r)
    BY <1>1 DEF OffersOf, Empty, NoCall, Never
  <2>3. /\ r.with <= exports' /\ r.first <= exports'
        /\ r.pc \in {"l1", "invalidate"} => r.first # 0
        /\ r.pc \in {"l1again", "l2"} => r.with > r.first
    BY <1>2 DEF NoCall
  <2>4. call' = [call EXCEPT ![c] = r]
    BY <1>4 DEF Hand, Ends
  <2>5. QED
    BY <2>1, <2>2, <2>3, <2>4, WarmerStep
<1>5. CASE ~force /\ ~jar.empty
  <2> DEFINE r == [old EXCEPT !.pc = "l1", !.with = jar.export, !.first = jar.export]
  <2>1. r \in Call
    BY <1>1, <1>2 DEF Call
  <2>2. OffersOf(r)
    BY <1>1 DEF OffersOf, Empty, Call
  <2>3. /\ r.with <= exports' /\ r.first <= exports'
        /\ r.pc \in {"l1", "invalidate"} => r.first # 0
        /\ r.pc \in {"l1again", "l2"} => r.with > r.first
    BY <1>1, <1>2, <1>5 DEF Call
  <2>4. call' = [call EXCEPT ![c] = r]
    BY <1>1, <1>5 DEF Hand
  <2>5. QED
    BY <2>1, <2>2, <2>3, <2>4, WarmerStep
<1>6. QED
  BY <1>3, <1>4, <1>5

LEMMA GetCookiesStep ==
  ASSUME IInv, NEW c \in Calls, NEW force \in BOOLEAN,
         GetCookies(c, force), Empty(call[c]),
         UNCHANGED <<now, file, born, exports, refused>>
  PROVE  IInv'
<1>0. Typed /\ JarsTrue /\ MemoryClean
  BY DEF IInv
<1>1. CASE InMemory(force) /\ Hand(c, mem, force) /\ UNCHANGED mem
  <2>1. CookiesStayTrue
    BY <1>0, <1>1 DEF CookiesStayTrue, Typed, JarsTrue, MemoryClean
  <2>2. /\ mem \in Jar /\ mem.export <= exports' /\ ~force /\ mem.export # 0
    BY <1>0, <1>1 DEF InMemory, Typed, JarsTrue
  <2>3. QED
    BY <1>1, <2>1, <2>2, HandStep
<1>2. CASE OnDisk(force) /\ mem' = Loaded /\ Hand(c, Loaded, force)
  <2>1. CookiesStayTrue
    BY <1>0, <1>2 DEF CookiesStayTrue, Typed, JarsTrue, MemoryClean, Loaded
  <2>2. /\ Loaded \in Jar /\ Loaded.export <= exports' /\ ~force /\ Loaded.export # 0
    BY <1>0, <1>2 DEF OnDisk, Typed, JarsTrue, Loaded
  <2>3. QED
    BY <1>2, <2>1, <2>2, HandStep
<1>3. CASE Goto(c, IF force THEN "rewarm" ELSE "warm") /\ UNCHANGED mem
  <2>1. CookiesStayTrue
    BY <1>0, <1>3 DEF CookiesStayTrue, Typed, JarsTrue, MemoryClean
  <2>2. QED
    BY <1>3, <2>1, GotoStep
<1>4. QED
  BY <1>1, <1>2, <1>3 DEF GetCookies

LEMMA InvalidateStep ==
  ASSUME IInv, NEW c \in Calls, NEW others, Invalidate(c, others),
         call[c].pc \in {"l1", "invalidate"},
         UNCHANGED <<now, file, born, exports>>
  PROVE  IInv'
<1>1. /\ Typed /\ JarsTrue /\ MemoryClean
      /\ call[c] \in Call /\ CookiesOf(call[c]) /\ OffersOf(call[c])
  BY DEF IInv, Typed
<1>2. call[c].first \in 1 .. exports /\ Empty(call[c])
  BY <1>1 DEF CookiesOf, OffersOf, Empty, Call, Typed
<1>3. mem' = NoJar /\ refused' = refused \cup {call[c].first}
  BY DEF Invalidate, Forgotten
<1>4. CookiesStayTrue
  <2>1. mem' \in Jar /\ mem'.export = 0
    BY <1>3 DEF NoJar, Jar
  <2>2. refused' \subseteq 1 .. exports /\ mem'.export \notin refused'
    <3>1. refused \subseteq 1 .. exports /\ exports \in Nat
      BY <1>1 DEF JarsTrue, Typed
    <3>2. refused' \subseteq 1 .. exports
      BY <3>1, <1>2, <1>3
    <3>3. QED
      BY <3>1, <3>2, <2>1
  <2>3. QED
    BY <1>1, <2>1, <2>2 DEF CookiesStayTrue, Typed, JarsTrue, MemoryClean
<1>5. Goto(c, "rewarm") \/ Goto(c, "force")
  BY DEF Invalidate
<1>6. QED
  BY <1>2, <1>4, <1>5, GotoStep

LEMMA WarmEndsStep ==
  ASSUME IInv, NEW c \in Calls, WarmEnds(c)
  PROVE  IInv'
<1>1. /\ Typed /\ JarsTrue /\ MemoryClean
      /\ call[c] \in Call /\ CookiesOf(call[c]) /\ OffersOf(call[c])
  BY DEF IInv, Typed
<1>2. PICK empty \in BOOLEAN :
        /\ mem' = [export |-> exports + 1, empty |-> empty, at |-> now]
        /\ file' \in {mem', file, NoJar}
        /\ Hand(c, mem', call[c].pc = "rewarm")
  BY DEF WarmEnds
<1>3. /\ exports < MaxExports /\ exports' = exports + 1 /\ now' = now /\ refused' = refused
      /\ born' = [born EXCEPT ![exports + 1] = now]
      /\ call[c].pc \in {"warm", "rewarm"}
  BY DEF WarmEnds, Warming
<1>4. /\ born' \in [Exports -> Nat] /\ born'[exports + 1] = now
      /\ \A g \in 1 .. exports : born'[g] = born[g]
  BY <1>1, <1>3 DEF Typed, Exports
<1>5. mem' \in Jar /\ mem'.export = exports + 1 /\ mem'.at = now /\ file' \in Jar
  <2>1. exports + 1 \in 0 .. MaxExports /\ now \in Nat /\ file \in Jar
    BY <1>1, <1>3 DEF Typed
  <2>2. mem' \in Jar /\ mem'.export = exports + 1 /\ mem'.at = now
    BY <1>2, <2>1 DEF Jar
  <2>3. NoJar \in Jar
    BY DEF NoJar, Jar
  <2>4. QED
    BY <1>2, <2>1, <2>2, <2>3
<1>6. JarsTrue' /\ MemoryClean'
  <2>1. file'.export <= exports + 1 /\ (file'.export # 0 => file'.at = born'[file'.export])
    <3>1. CASE file' = mem'
      BY <3>1, <1>4, <1>5, <1>1 DEF Typed
    <3>2. CASE file' = file
      BY <3>2, <1>4, <1>1 DEF JarsTrue, Typed, Jar
    <3>3. CASE file' = NoJar
      BY <3>3, <1>1 DEF NoJar, Typed
    <3>4. QED
      BY <3>1, <3>2, <3>3, <1>2
  <2>2. mem'.export \notin refused'
    BY <1>1, <1>3, <1>5 DEF JarsTrue, Typed
  <2>3. refused' \subseteq 1 .. exports'
    BY <1>1, <1>3 DEF JarsTrue, Typed
  <2>4. mem'.export <= exports' /\ mem'.at = born'[mem'.export]
    BY <1>1, <1>3, <1>4, <1>5 DEF Typed
  <2>5. QED
    BY <2>1, <2>2, <2>3, <2>4, <1>3 DEF JarsTrue, MemoryClean
<1>7. CookiesStayTrue
  BY <1>1, <1>3, <1>4, <1>5, <1>6 DEF CookiesStayTrue, Typed
<1>8. Empty(call[c]) /\ call[c].first <= exports
  BY <1>1, <1>3 DEF OffersOf, Empty, CookiesOf
<1>9. mem'.export <= exports' /\ mem'.export > call[c].first /\ mem'.export # 0
  BY <1>1, <1>3, <1>5, <1>8 DEF Typed, Call
<1>10. QED
  BY <1>2, <1>5, <1>7, <1>8, <1>9, HandStep

(***************************************************************************)
(* The invariant.                                                          *)
(***************************************************************************)

LEMMA NextInv == IInv /\ [Next]_vars => IInv'
<1> SUFFICES ASSUME IInv, [Next]_vars
             PROVE  IInv'
  OBVIOUS
<1>1. ASSUME NEW c \in Calls, Search(c)
      PROVE  IInv'
  <2>1. Empty(call[c])
    BY <1>1 DEF Search, Empty, NoCall
  <2>2. CASE GetCookies(c, FALSE)
    BY <1>1, <2>1, <2>2, GetCookiesStep DEF Search
  <2>3. CASE Goto(c, "get") /\ UNCHANGED mem
    <3>1. CookiesStayTrue
      BY <1>1, <2>3 DEF Search, CookiesStayTrue, IInv, Typed, JarsTrue, MemoryClean
    <3>2. QED
      BY <2>1, <2>3, <3>1, GotoStep
  <2>4. QED
    BY <1>1, <2>2, <2>3 DEF Search
<1>2. ASSUME NEW c \in Calls, TakeLock(c)
      PROVE  IInv'
  <2>1. CASE call[c].pc \in {"get", "force"}
    <3>1. Empty(call[c])
      BY <2>1 DEF IInv, OffersOf, Empty
    <3>2. QED
      BY <1>2, <2>1, <3>1, GetCookiesStep DEF TakeLock
  <2>2. CASE call[c].pc = "invalidate"
    BY <1>2, <2>2, InvalidateStep DEF TakeLock
  <2>3. QED
    BY <1>2, <2>1, <2>2 DEF TakeLock
<1>3. ASSUME NEW c \in Calls, WarmEnds(c)
      PROVE  IInv'
  BY <1>3, WarmEndsStep
<1>4. ASSUME NEW c \in Calls, Refused(c)
      PROVE  IInv'
  <2>1. CASE Invalidate(c, <<>>)
    BY <1>4, <2>1, InvalidateStep DEF Refused
  <2>2. CASE Goto(c, "invalidate") /\ UNCHANGED <<mem, refused>>
    <3>1. CookiesStayTrue
      BY <1>4, <2>2 DEF Refused, CookiesStayTrue, IInv, Typed, JarsTrue, MemoryClean
    <3>2. Empty(call[c]) /\ call[c].first # 0
      BY <1>4 DEF Refused, IInv, OffersOf, CookiesOf, Empty
    <3>3. QED
      BY <2>2, <3>1, <3>2, GotoStep
  <2>3. QED
    BY <1>4, <2>1, <2>2 DEF Refused
<1>5. CASE Tick
  BY <1>5 DEF Tick, IInv, Typed, JarsTrue, MemoryClean, CookiesOf, OffersOf, cookieVars
<1>6. CASE Crash
  <2>1. Typed' /\ JarsTrue' /\ MemoryClean'
    BY <1>6, NoCallType DEF Crash, IInv, Typed, JarsTrue, MemoryClean, NoJar, Jar
  <2>2. CookiesOf(NoCall)' /\ OffersOf(NoCall)'
    BY <2>1 DEF Typed, CookiesOf, OffersOf, NoCall, Never
  <2>3. \A c \in Calls : call'[c] = NoCall
    BY <1>6 DEF Crash
  <2>4. QED
    BY <2>1, <2>2, <2>3 DEF IInv
<1>7. CASE UNCHANGED vars
  BY <1>7 DEF vars, cookieVars, lockVars, IInv, Typed, JarsTrue, MemoryClean, CookiesOf, OffersOf
<1>8. QED
  BY <1>1, <1>2, <1>3, <1>4, <1>5, <1>6, <1>7, QuietSteps DEF Next, Proceeds

LEMMA Invariance == Spec => []IInv
<1>1. Init => IInv
  BY InitInv
<1>2. IInv /\ [Next]_vars => IInv'
  BY NextInv
<1>3. QED
  BY <1>1, <1>2, PTL DEF Spec

(***************************************************************************)
(* What follows from it.                                                   *)
(***************************************************************************)

\* Whatever the searches, the lock's line and the restarts: a second attempt
\* (ozon.py: get_cookies(force=True) after invalidate) uses a later export.
THEOREM RetriesAreFresh == Spec => []RetryFresh
<1>1. IInv => RetryFresh
  BY DEF IInv, CookiesOf, RetryFresh
<1>2. QED
  BY <1>1, Invariance, PTL

\* Who is given cookies for a first attempt, and which.
LEMMA HandGives ==
  ASSUME IInv, NEW c \in Calls, NEW d \in Calls, NEW jar, NEW force \in BOOLEAN,
         Hand(d, jar, force), Given(c)
  PROVE  ~force /\ call'[c].with = jar.export
<1>1. call \in [Calls -> Call] /\ call[c] \in Call /\ call[d] \in Call
  BY DEF IInv, Typed
<1>2. CASE force
  <2>1. call' = [call EXCEPT ![d] = [call[d] EXCEPT !.pc = "l1again", !.with = jar.export]]
    BY <1>1, <1>2 DEF Hand
  <2>2. call'[c].pc # "l1" \/ call'[c] = call[c]
    BY <1>1, <2>1 DEF Call
  <2>3. QED
    BY <2>2 DEF Given
<1>3. CASE ~force /\ jar.empty
  <2>1. call'[c].pc = "idle" \/ call'[c] = call[c]
    BY <1>1, <1>3 DEF Hand, Ends, NoCall
  <2>2. QED
    BY <2>1 DEF Given
<1>4. CASE ~force /\ ~jar.empty
  <2>1. call' = [call EXCEPT ![d] = [call[d] EXCEPT !.pc = "l1", !.with = jar.export,
                                                    !.first = jar.export]]
    BY <1>1, <1>4 DEF Hand
  <2>2. call'[c].with = jar.export \/ call'[c] = call[c]
    BY <1>1, <2>1 DEF Call
  <2>3. QED
    BY <1>4, <2>2 DEF Given
<1>5. QED
  BY <1>2, <1>3, <1>4

\* A step that sets only the pc, to something else than l1, gives nothing.
LEMMA GotoGives ==
  ASSUME IInv, NEW c \in Calls, NEW d \in Calls, NEW pc, pc # "l1", Goto(d, pc)
  PROVE  ~Given(c)
<1>1. call \in [Calls -> Call] /\ call[c] \in Call /\ call[d] \in Call
  BY DEF IInv, Typed
<1>2. call'[c].pc = pc \/ call'[c] = call[c]
  BY <1>1 DEF Goto, Call
<1>3. QED
  BY <1>2 DEF Given

\* Nor does a step of a search that has its cookies.
LEMMA OthersGive ==
  ASSUME IInv, NEW c \in Calls, NEW d \in Calls,
         \/ Answered(d) \/ Escalates(d) \/ Fails(d) \/ Enrich(d) \/ Browse(d)
         \/ Emit(d) \/ Return(d) \/ Taken(d) \/ Cancel(d) \/ WarmFails(d)
  PROVE  ~Given(c)
<1>1. call \in [Calls -> Call] /\ call[c] \in Call /\ call[d] \in Call
  BY DEF IInv, Typed
<1>2. ASSUME NEW r, r.pc # "l1", call' = [call EXCEPT ![d] = r]
      PROVE  ~Given(c)
  BY <1>1, <1>2 DEF Given
<1>3. CASE \E outcome : Ends(d, outcome)
  <2>1. PICK outcome : Ends(d, outcome)
    BY <1>3
  <2> DEFINE r == [NoCall EXCEPT !.outcome = outcome, !.out = call[d].out,
                                 !.emitted = call[d].emitted]
  <2>2. r.pc # "l1"
    BY DEF NoCall
  <2>3. QED
    BY <1>2, <2>1, <2>2 DEF Ends
<1>4. CASE Fails(d) \/ Return(d) \/ WarmFails(d)
  BY <1>3, <1>4 DEF Fails, Return, WarmFails
<1>5. CASE Taken(d) \/ Cancel(d)
  <2>1. NoCall.pc # "l1"
    BY DEF NoCall
  <2>2. QED
    BY <1>2, <1>5, <2>1 DEF Taken, Cancel
<1>6. CASE Escalates(d)
  BY <1>6, GotoGives DEF Escalates
<1>7. CASE /\ Answered(d)
           /\ \E stubs \in SUBSET Stubs \ {{}} :
                call' = [call EXCEPT ![d] = [NoCall EXCEPT !.pc = "enrich", !.bare = stubs]]
  <2>1. PICK stubs :
          call' = [call EXCEPT ![d] = [NoCall EXCEPT !.pc = "enrich", !.bare = stubs]]
    BY <1>7
  <2> DEFINE r == [NoCall EXCEPT !.pc = "enrich", !.bare = stubs]
  <2>2. r.pc # "l1"
    BY DEF NoCall
  <2>3. QED
    BY <1>2, <2>1, <2>2
<1>8. CASE Enrich(d)
  <2>1. PICK named, bare :
          call' = [call EXCEPT ![d].pc = IF bare = {} THEN "emit" ELSE "browse",
                               ![d].ready = named, ![d].bare = bare]
    BY <1>8 DEF Enrich
  <2> DEFINE r == [call[d] EXCEPT !.pc = IF bare = {} THEN "emit" ELSE "browse",
                                  !.ready = named, !.bare = bare]
  <2>2. r.pc # "l1"
    BY <1>1 DEF Call
  <2>3. call' = [call EXCEPT ![d] = r]
    BY <1>1, <2>1
  <2>4. QED
    BY <1>2, <2>2, <2>3
<1>9. CASE Browse(d)
  <2>1. PICK kept : call' = [call EXCEPT ![d].pc = "emit", ![d].bare = kept]
    BY <1>9 DEF Browse
  <2> DEFINE r == [call[d] EXCEPT !.pc = "emit", !.bare = kept]
  <2>2. r.pc # "l1"
    BY <1>1 DEF Call
  <2>3. call' = [call EXCEPT ![d] = r]
    BY <1>1, <2>1
  <2>4. QED
    BY <1>2, <2>2, <2>3
<1>10. CASE Emit(d)
  <2>1. PICK o : call' = [call EXCEPT ![d] = Reported(call[d], o)]
    BY <1>10, EmitMakes
  <2>2. Reported(call[d], o).pc # "l1"
    BY <1>1, <1>10 DEF Reported, Emit, Call
  <2>3. QED
    BY <1>2, <2>1, <2>2
<1>11. QED
  BY <1>3, <1>4, <1>5, <1>6, <1>7, <1>8, <1>9, <1>10 DEF Answered

\* The cookies of a first attempt come from memory, from the file or from a
\* warm-up that ends this moment.
FromJar(c, jar) ==
  /\ jar.export # 0 /\ Fresh(jar) /\ call'[c].with = jar.export
  /\ UNCHANGED <<now, file, born, exports, refused>>

FromWarmUp(c) ==
  /\ call'[c].with = exports + 1 /\ exports < MaxExports
  /\ now' = now /\ refused' = refused
  /\ born' = [born EXCEPT ![exports + 1] = now]

LEMMA GetCookiesGives ==
  ASSUME IInv, NEW c \in Calls, NEW d \in Calls, NEW force \in BOOLEAN, Given(c),
         GetCookies(d, force), UNCHANGED <<now, file, born, exports, refused>>
  PROVE  FromJar(c, mem) \/ FromJar(c, file)
<1>1. CASE InMemory(force) /\ Hand(d, mem, force)
  BY <1>1, HandGives DEF InMemory, FromJar
<1>2. CASE OnDisk(force) /\ Hand(d, Loaded, force)
  BY <1>2, HandGives DEF OnDisk, FromJar, Loaded
<1>3. CASE Goto(d, IF force THEN "rewarm" ELSE "warm")
  BY <1>3, GotoGives
<1>4. QED
  BY <1>1, <1>2, <1>3 DEF GetCookies

LEMMA GivenFrom ==
  ASSUME IInv, [Next]_vars, NEW c \in Calls, Given(c)
  PROVE  FromJar(c, mem) \/ FromJar(c, file) \/ FromWarmUp(c)
<1>1. ASSUME NEW d \in Calls, Search(d)
      PROVE  FromJar(c, mem) \/ FromJar(c, file)
  BY <1>1, GetCookiesGives, GotoGives DEF Search
<1>2. ASSUME NEW d \in Calls, TakeLock(d)
      PROVE  FromJar(c, mem) \/ FromJar(c, file)
  <2>1. CASE call[d].pc = "invalidate"
    BY <1>2, <2>1, GotoGives DEF TakeLock, Invalidate
  <2>2. CASE call[d].pc \in {"get", "force"}
    BY <1>2, <2>2, GetCookiesGives DEF TakeLock
  <2>3. QED
    BY <1>2, <2>1, <2>2 DEF TakeLock
<1>3. ASSUME NEW d \in Calls, WarmEnds(d)
      PROVE  FromWarmUp(c)
  <2>1. PICK empty \in BOOLEAN :
          /\ mem' = [export |-> exports + 1, empty |-> empty, at |-> now]
          /\ Hand(d, mem', call[d].pc = "rewarm")
    BY <1>3 DEF WarmEnds
  <2>2. call'[c].with = mem'.export
    BY <2>1, HandGives
  <2>3. QED
    BY <1>3, <2>1, <2>2 DEF WarmEnds, FromWarmUp
<1>4. ASSUME NEW d \in Calls, Refused(d)
      PROVE  FALSE
  BY <1>4, GotoGives DEF Refused, Invalidate
<1>5. CASE Tick \/ UNCHANGED vars
  BY <1>5 DEF Tick, vars, Given
<1>6. CASE Crash
  BY <1>6 DEF Crash, Given, NoCall
<1>7. QED
  BY <1>1, <1>2, <1>3, <1>4, <1>5, <1>6, OthersGive DEF Next, Proceeds

\* get_cookies compares the clock with the stamp of what it has in memory or
\* on disk, and _persist wrote the stamp of the export: no first attempt is
\* made with cookies older than the time to live, restarts included.
THEOREM CookiesAreWithinTtl == Spec => WithinTtl
<1>1. ASSUME IInv, [Next]_vars, NEW c \in Calls, Given(c)
      PROVE  now - born'[call'[c].with] < Ttl
  <2>1. Typed /\ JarsTrue
    BY <1>1 DEF IInv
  <2>2. CASE FromJar(c, mem) \/ FromJar(c, file)
    BY <2>1, <2>2 DEF FromJar, Fresh, JarsTrue
  <2>3. CASE FromWarmUp(c)
    <3>1. born'[exports + 1] = now /\ now \in Nat
      BY <2>1, <2>3 DEF FromWarmUp, Typed, Exports
    <3>2. QED
      BY <2>3, <3>1 DEF FromWarmUp
  <2>4. QED
    BY <1>1, <2>2, <2>3, GivenFrom
<1>2. IInv /\ [Next]_vars =>
        [\A c \in Calls : Given(c) => now - born'[call'[c].with] < Ttl]_vars
  BY <1>1
<1>3. QED
  BY <1>2, Invariance, PTL DEF Spec, WithinTtl

\* invalidate clears the memory and not the file: the file is the only way
\* back for cookies that failed a search.
THEOREM RefusedComeFromDisk == Spec => RefusedOnlyFromDisk
<1>1. ASSUME IInv, [Next]_vars, NEW c \in Calls, Given(c), call'[c].with \in refused
      PROVE  call'[c].with = file.export
  <2>1. Typed /\ JarsTrue /\ MemoryClean
    BY <1>1 DEF IInv
  <2>2. CASE FromJar(c, mem) \/ FromJar(c, file)
    BY <1>1, <2>1, <2>2 DEF FromJar, MemoryClean
  <2>3. CASE FromWarmUp(c)
    BY <1>1, <2>1, <2>3 DEF FromWarmUp, JarsTrue, Typed
  <2>4. QED
    BY <1>1, <2>2, <2>3, GivenFrom
<1>2. IInv /\ [Next]_vars =>
        [\A c \in Calls : Given(c) /\ call'[c].with \in refused =>
                            call'[c].with = file.export]_vars
  BY <1>1
<1>3. QED
  BY <1>2, Invariance, PTL DEF Spec, RefusedOnlyFromDisk

(***************************************************************************)
(* The lock and its line.                                                  *)
(***************************************************************************)

\* The sequence s has the searches of W in it, each once.
Queued(s, W) ==
  /\ s \in Seq(Calls)
  /\ {s[i] : i \in DOMAIN s} = W
  /\ \A i, j \in DOMAIN s : s[i] = s[j] => i = j

LEMMA CountUpTo ==
  ASSUME NEW n \in Nat
  PROVE  IsFiniteSet(1 .. n) /\ Cardinality(1 .. n) = n
BY FS_Interval

LEMMA QueuedCount ==
  ASSUME NEW s, NEW W, Queued(s, W)
  PROVE  Len(s) = Cardinality(W)
<1> DEFINE n == Len(s)
<1>1. n \in Nat /\ DOMAIN s = 1 .. n
  BY DEF Queued
<1>2. IsFiniteSet(1 .. n) /\ Cardinality(1 .. n) = n
  BY <1>1, CountUpTo
<1> DEFINE f == [i \in 1 .. n |-> s[i]]
<1>3. f \in Bijection(1 .. n, W)
  BY <1>1 DEF Queued, Bijection, Injection, Surjection, IsInjective
<1>4. QED
  BY <1>2, <1>3, FS_Bijection DEF ExistsBijection

LEMMA QueuedAppend ==
  ASSUME NEW s, NEW W, Queued(s, W), NEW c \in Calls, c \notin W
  PROVE  Queued(Append(s, c), W \cup {c})
<1> DEFINE t == Append(s, c)
<1>1. /\ Len(s) \in Nat /\ DOMAIN s = 1 .. Len(s) /\ s \in Seq(Calls)
      /\ \A i \in DOMAIN s : s[i] \in W
  BY DEF Queued
<1>2. /\ t \in Seq(Calls) /\ DOMAIN t = 1 .. Len(s) + 1 /\ t[Len(s) + 1] = c
      /\ \A i \in 1 .. Len(s) : t[i] = s[i]
  BY <1>1
<1> HIDE DEF t
<1>3. {t[i] : i \in DOMAIN t} = {s[i] : i \in DOMAIN s} \cup {c}
  BY <1>1, <1>2
<1>4. \A i, j \in DOMAIN t : t[i] = t[j] => i = j
  BY <1>1, <1>2 DEF Queued
<1>5. Queued(t, W \cup {c})
  BY <1>2, <1>3, <1>4 DEF Queued
<1>6. QED
  BY <1>5 DEF t

\* Removing the search at place k, wherever it is.
LEMMA QueuedCut ==
  ASSUME NEW s, NEW W, Queued(s, W), NEW k \in DOMAIN s
  PROVE  Queued(RemoveAt(s, k), W \ {s[k]})
<1> DEFINE n == Len(s)
           t == RemoveAt(s, k)
<1>1. n \in Nat /\ DOMAIN s = 1 .. n /\ s \in Seq(Calls) /\ k \in 1 .. n
  BY DEF Queued
<1>2. /\ SubSeq(s, 1, k - 1) \in Seq(Calls) /\ Len(SubSeq(s, 1, k - 1)) = k - 1
      /\ \A i \in 1 .. k - 1 : SubSeq(s, 1, k - 1)[i] = s[i]
  BY <1>1
<1>3. /\ SubSeq(s, k + 1, n) \in Seq(Calls) /\ Len(SubSeq(s, k + 1, n)) = n - k
      /\ \A i \in 1 .. n - k : SubSeq(s, k + 1, n)[i] = s[k + i]
  BY <1>1
<1>4. /\ t \in Seq(Calls) /\ Len(t) = n - 1 /\ DOMAIN t = 1 .. n - 1
      /\ \A i \in 1 .. n - 1 : t[i] = IF i < k THEN s[i] ELSE s[i + 1]
  <2> DEFINE a == SubSeq(s, 1, k - 1)
             b == SubSeq(s, k + 1, n)
  <2>1. t = a \o b
    BY DEF RemoveAt
  <2> HIDE DEF a, b, t
  <2>2. a \in Seq(Calls) /\ b \in Seq(Calls) /\ Len(a) = k - 1 /\ Len(b) = n - k
    BY <1>2, <1>3 DEF a, b
  <2>3. /\ t \in Seq(Calls) /\ Len(t) = n - 1
        /\ \A i \in 1 .. n - 1 : t[i] = IF i <= k - 1 THEN a[i] ELSE b[i - (k - 1)]
    <3>1. a \o b \in Seq(Calls) /\ Len(a \o b) = Len(a) + Len(b)
      BY <2>2, ConcatProperties
    <3>2. \A i \in 1 .. Len(a) + Len(b) : (a \o b)[i] = IF i <= Len(a) THEN a[i] ELSE b[i - Len(a)]
      BY <2>2, ConcatProperties
    <3>3. Len(a) + Len(b) = n - 1
      BY <1>1, <2>2
    <3>4. QED
      BY <2>1, <2>2, <3>1, <3>2, <3>3
  <2>4. ASSUME NEW i \in 1 .. n - 1 PROVE t[i] = IF i < k THEN s[i] ELSE s[i + 1]
    <3>1. CASE i < k
      BY <1>1, <1>2, <2>3, <3>1 DEF a
    <3>2. CASE i >= k
      <4>1. i - (k - 1) \in 1 .. n - k /\ k + (i - (k - 1)) = i + 1
        BY <1>1, <3>2
      <4>2. b[i - (k - 1)] = s[i + 1]
        BY <1>3, <4>1 DEF b
      <4>3. QED
        BY <1>1, <2>3, <3>2, <4>2
    <3>3. QED
      BY <1>1, <3>1, <3>2
  <2>5. QED
    BY <2>3, <2>4
<1> HIDE DEF t
<1>5. \A i, j \in DOMAIN t : t[i] = t[j] => i = j
  <2>1. \A i \in DOMAIN t : \E g \in DOMAIN s : t[i] = s[g] /\ g = IF i < k THEN i ELSE i + 1
    BY <1>1, <1>4
  <2>2. QED
    BY <1>1, <1>4, <2>1 DEF Queued
<1>6. \A i \in DOMAIN t : t[i] \in W \ {s[k]}
  <2>1. \A i \in DOMAIN t : \E g \in DOMAIN s : t[i] = s[g] /\ g # k
    BY <1>1, <1>4
  <2>2. QED
    BY <2>1 DEF Queued
<1>7. ASSUME NEW c \in W \ {s[k]} PROVE \E i \in DOMAIN t : t[i] = c
  <2>1. PICK g \in DOMAIN s : s[g] = c
    BY DEF Queued
  <2>2. g < k \/ g > k
    BY <1>1, <2>1
  <2>3. CASE g < k
    <3>1. g \in DOMAIN t /\ t[g] = c
      BY <1>1, <1>4, <2>1, <2>3
    <3>2. QED
      BY <3>1
  <2>4. CASE g > k
    <3>1. g - 1 \in DOMAIN t /\ t[g - 1] = c
      BY <1>1, <1>4, <2>1, <2>4
    <3>2. QED
      BY <3>1
  <2>5. QED
    BY <2>2, <2>3, <2>4
<1>8. {t[i] : i \in DOMAIN t} = W \ {s[k]}
  BY <1>6, <1>7
<1>9. Queued(t, W \ {s[k]})
  BY <1>4, <1>5, <1>8 DEF Queued
<1>10. QED
  BY <1>9 DEF t

LEMMA QueuedTail ==
  ASSUME NEW s, NEW W, Queued(s, W), s # <<>>
  PROVE  Queued(Tail(s), W \ {Head(s)}) /\ Head(s) \in W
<1>1. s \in Seq(Calls) /\ Len(s) \in Nat /\ Len(s) # 0 /\ DOMAIN s = 1 .. Len(s)
  BY DEF Queued
<1>2. 1 \in DOMAIN s /\ Head(s) = s[1]
  BY <1>1
<1>3. RemoveAt(s, 1) = Tail(s)
  <2>1. RemoveAt(s, 1) = SubSeq(s, 1, 0) \o SubSeq(s, 2, Len(s))
    BY DEF RemoveAt
  <2>2. SubSeq(s, 1, 0) = <<>> /\ SubSeq(s, 2, Len(s)) = Tail(s) /\ Tail(s) \in Seq(Calls)
    BY <1>1
  <2>3. QED
    BY <2>1, <2>2
<1>4. Queued(RemoveAt(s, 1), W \ {s[1]})
  <2>1. 1 \in DOMAIN s
    BY <1>2
  <2>2. QED
    BY <2>1, QueuedCut
<1>5. s[1] \in W
  BY <1>2 DEF Queued
<1>6. QED
  BY <1>2, <1>3, <1>4, <1>5

LEMMA QueuedRemove ==
  ASSUME NEW s, NEW W, Queued(s, W), NEW c
  PROVE  Queued(RemoveFirst(s, c), W \ {c})
<1>1. Len(s) \in Nat /\ DOMAIN s = 1 .. Len(s)
  BY DEF Queued
<1>2. CASE \E i \in 1 .. Len(s) : s[i] = c
  <2> DEFINE I == {i \in 1 .. Len(s) : s[i] = c}
             k == SelectInSeq(s, LAMBDA v : v = c)
  <2>1. k = IF I # {} THEN CHOOSE x \in I : \A y \in I : x <= y ELSE 0
    BY DEF SelectInSeq, Min
  <2>2. PICK i \in I : TRUE
    BY <1>2
  <2>3. I = {i}
    BY <1>1, <2>2 DEF Queued
  <2>4. k = i
    BY <1>1, <2>1, <2>3
  <2>5. RemoveFirst(s, c) = RemoveAt(s, k)
    BY <1>2 DEF RemoveFirst
  <2>6. QED
    BY <1>1, <2>2, <2>4, <2>5, QueuedCut
<1>3. CASE ~\E i \in 1 .. Len(s) : s[i] = c
  <2>1. RemoveFirst(s, c) = s /\ W \ {c} = W
    BY <1>1, <1>3 DEF RemoveFirst, Queued
  <2>2. QED
    BY <2>1
<1>4. QED
  BY <1>2, <1>3

Waiters == {c \in Calls : call[c].pc \in Waiting}

\* Who warms has the lock, and who waits for it is in the line.
LineInv ==
  /\ lock \in Calls \cup {None}
  /\ \A c \in Calls : lock = c <=> call[c].pc \in Warming
  /\ Queued(line, Waiters)

\* What becomes of the lock when c is at pc, and of the line.
LockFollows(c, pc) ==
  \/ pc \in Warming /\ lock' = c /\ lock = None
  \/ pc \notin Warming /\ lock' = IF lock = c THEN None ELSE lock

LineFollows(c, pc) ==
  \/ pc \notin Waiting /\ call[c].pc \notin Waiting /\ line' = line
  \/ pc \in Waiting /\ call[c].pc \notin Waiting /\ line' = Append(line, c)
  \/ pc \notin Waiting /\ line' = RemoveFirst(line, c)
  \/ pc \notin Waiting /\ line # <<>> /\ c = Head(line) /\ line' = Tail(line)
  \/ pc \in Waiting /\ line # <<>> /\ c = Head(line) /\ line' = Append(Tail(line), c)

LEMMA LineStep ==
  ASSUME LineInv, NEW c \in Calls, NEW pc, call'[c].pc = pc,
         \A d \in Calls : d # c => call'[d].pc = call[d].pc,
         LockFollows(c, pc), LineFollows(c, pc)
  PROVE  LineInv'
<1>1. /\ lock' \in Calls \cup {None}
      /\ \A d \in Calls : lock' = d <=> call'[d].pc \in Warming
  BY DEF LineInv, LockFollows
<1>2. Waiters' = IF pc \in Waiting THEN Waiters \cup {c} ELSE Waiters \ {c}
  BY DEF Waiters
<1>3. Queued(line, Waiters) /\ (c \in Waiters <=> call[c].pc \in Waiting)
  BY DEF LineInv, Waiters
<1>4. Queued(line', Waiters')
  <2>1. CASE pc \notin Waiting /\ call[c].pc \notin Waiting /\ line' = line
    <3>1. Waiters' = Waiters
      BY <1>2, <1>3, <2>1
    <3>2. QED
      BY <1>3, <2>1, <3>1
  <2>2. CASE pc \in Waiting /\ call[c].pc \notin Waiting /\ line' = Append(line, c)
    BY <1>2, <1>3, <2>2, QueuedAppend
  <2>3. CASE pc \notin Waiting /\ line' = RemoveFirst(line, c)
    BY <1>2, <1>3, <2>3, QueuedRemove
  <2>4. CASE pc \notin Waiting /\ line # <<>> /\ c = Head(line) /\ line' = Tail(line)
    BY <1>2, <1>3, <2>4, QueuedTail
  <2>5. CASE pc \in Waiting /\ line # <<>> /\ c = Head(line) /\ line' = Append(Tail(line), c)
    <3>1. Queued(Tail(line), Waiters \ {c}) /\ c \notin Waiters \ {c}
      BY <1>3, <2>5, QueuedTail
    <3>2. Queued(line', (Waiters \ {c}) \cup {c})
      BY <2>5, <3>1, QueuedAppend
    <3>3. (Waiters \ {c}) \cup {c} = Waiters'
      BY <1>2, <2>5
    <3>4. QED
      BY <3>2, <3>3
  <2>6. QED
    BY <2>1, <2>2, <2>3, <2>4, <2>5 DEF LineFollows
<1>5. QED
  BY <1>1, <1>4 DEF LineInv, Queued

\* Where a step leaves search c, the others staying where they are.
At(c, pcs) ==
  /\ call'[c].pc \in pcs
  /\ \A d \in Calls : d # c => call'[d].pc = call[d].pc

LEMMA GotoAt ==
  ASSUME IInv, NEW c \in Calls, NEW pc, Goto(c, pc)
  PROVE  At(c, {pc})
BY DEF IInv, Typed, Call, Goto, At

LEMMA EndsAt ==
  ASSUME IInv, NEW c \in Calls, NEW outcome, Ends(c, outcome)
  PROVE  At(c, {"idle"})
<1> DEFINE r == [NoCall EXCEPT !.outcome = outcome, !.out = call[c].out,
                               !.emitted = call[c].emitted]
<1>1. r.pc = "idle"
  BY DEF NoCall
<1>2. call' = [call EXCEPT ![c] = r]
  BY DEF Ends
<1>3. QED
  BY <1>1, <1>2 DEF IInv, Typed, At

LEMMA HandAt ==
  ASSUME IInv, NEW c \in Calls, NEW jar, NEW force, Hand(c, jar, force)
  PROVE  At(c, {"l1", "l1again", "idle"})
<1>1. call \in [Calls -> Call] /\ call[c] \in Call
  BY DEF IInv, Typed
<1>2. CASE force
  <2>1. call' = [call EXCEPT ![c] = [call[c] EXCEPT !.pc = "l1again", !.with = jar.export]]
    BY <1>1, <1>2 DEF Hand
  <2>2. QED
    BY <1>1, <2>1 DEF At, Call
<1>3. CASE ~force /\ jar.empty
  BY <1>3, EndsAt DEF Hand, At
<1>4. CASE ~force /\ ~jar.empty
  <2>1. call' = [call EXCEPT ![c] = [call[c] EXCEPT !.pc = "l1", !.with = jar.export,
                                                    !.first = jar.export]]
    BY <1>1, <1>4 DEF Hand
  <2>2. QED
    BY <1>1, <2>1 DEF At, Call
<1>5. QED
  BY <1>2, <1>3, <1>4

LEMMA GetCookiesAt ==
  ASSUME IInv, LineInv, NEW c \in Calls, NEW force, GetCookies(c, force), lock = None
  PROVE  \E pc : At(c, {pc}) /\ pc \notin Waiting /\ LockFollows(c, pc)
<1>1. c # None
  BY CallsAssumption
<1>2. CASE lock' = lock /\ At(c, {"l1", "l1again", "idle"})
  BY <1>1, <1>2 DEF At, LockFollows, Waiting, Warming
<1>3. CASE lock' = c /\ Goto(c, IF force THEN "rewarm" ELSE "warm")
  <2>1. At(c, {IF force THEN "rewarm" ELSE "warm"})
    BY <1>3, GotoAt
  <2>2. QED
    BY <1>3, <2>1 DEF At, LockFollows, Waiting, Warming
<1>4. QED
  BY <1>2, <1>3, HandAt DEF GetCookies

\* A search that neither has the lock nor waits for it stays without it.
LEMMA ApartStep ==
  ASSUME IInv, LineInv, NEW c \in Calls, NEW pc,
         call[c].pc \notin Waiting \cup Warming, pc \notin Waiting \cup Warming,
         At(c, {pc}), UNCHANGED lockVars
  PROVE  LineInv'
<1>1. lock # c
  BY DEF LineInv
<1>2. LockFollows(c, pc) /\ LineFollows(c, pc)
  BY <1>1 DEF LockFollows, LineFollows, lockVars
<1>3. QED
  BY <1>2, LineStep DEF At

LEMMA LineSteps ==
  ASSUME IInv, LineInv, NEW c \in Calls, Search(c) \/ Proceeds(c) \/ Taken(c) \/ Cancel(c)
  PROVE  LineInv'
<1>0. call \in [Calls -> Call] /\ call[c] \in Call /\ c # None
  BY CallsAssumption DEF IInv, Typed
<1>1. CASE Search(c)
  <2>1. call[c].pc = "idle"
    BY <1>1 DEF Search, NoCall
  <2>2. CASE Free /\ GetCookies(c, FALSE) /\ UNCHANGED line
    <3>1. PICK pc : At(c, {pc}) /\ pc \notin Waiting /\ LockFollows(c, pc)
      BY <2>2, GetCookiesAt DEF Free
    <3>2. LineFollows(c, pc)
      BY <2>1, <2>2, <3>1 DEF LineFollows, Waiting
    <3>3. QED
      BY <3>1, <3>2, LineStep DEF At
  <2>3. CASE line' = Append(line, c) /\ Goto(c, "get") /\ UNCHANGED lock
    <3>1. At(c, {"get"}) /\ lock # c
      BY <2>1, <2>3, GotoAt DEF LineInv, Warming
    <3>2. LockFollows(c, "get") /\ LineFollows(c, "get")
      BY <2>1, <2>3, <3>1 DEF LockFollows, LineFollows, Waiting, Warming
    <3>3. QED
      BY <3>1, <3>2, LineStep DEF At
  <2>4. QED
    BY <1>1, <2>2, <2>3 DEF Search
<1>2. CASE TakeLock(c)
  <2>1. lock = None /\ line # <<>> /\ c = Head(line)
    BY <1>2 DEF TakeLock
  <2>2. ASSUME NEW force, GetCookies(c, force), line' = Tail(line)
        PROVE  LineInv'
    <3>1. PICK pc : At(c, {pc}) /\ pc \notin Waiting /\ LockFollows(c, pc)
      BY <2>1, <2>2, GetCookiesAt
    <3>2. LineFollows(c, pc)
      BY <2>1, <2>2, <3>1 DEF LineFollows
    <3>3. QED
      BY <3>1, <3>2, LineStep DEF At
  <2>3. ASSUME Invalidate(c, Tail(line))
        PROVE  LineInv'
    <3>1. CASE Tail(line) = <<>>
      <4>1. lock' = c /\ line' = Tail(line) /\ At(c, {"rewarm"})
        BY <2>3, <3>1, GotoAt DEF Invalidate
      <4>2. LockFollows(c, "rewarm") /\ LineFollows(c, "rewarm")
        BY <2>1, <4>1 DEF LockFollows, LineFollows, Waiting, Warming
      <4>3. QED
        BY <4>1, <4>2, LineStep DEF At
    <3>2. CASE Tail(line) # <<>>
      <4>1. lock' = lock /\ line' = Append(Tail(line), c) /\ At(c, {"force"})
        BY <2>3, <3>2, GotoAt DEF Invalidate
      <4>2. LockFollows(c, "force") /\ LineFollows(c, "force")
        BY <1>0, <2>1, <4>1 DEF LockFollows, LineFollows, Waiting, Warming
      <4>3. QED
        BY <4>1, <4>2, LineStep DEF At
    <3>3. QED
      BY <3>1, <3>2
  <2>4. QED
    BY <1>2, <2>2, <2>3 DEF TakeLock
<1>3. CASE WarmEnds(c) \/ WarmFails(c)
  <2>1. lock = c /\ lock' = None /\ line' = line /\ call[c].pc \in Warming
    BY <1>3 DEF WarmEnds, WarmFails, LineInv
  <2>2. At(c, {"l1", "l1again", "idle"})
    <3>1. CASE WarmEnds(c)
      BY <3>1, HandAt DEF WarmEnds
    <3>2. CASE WarmFails(c)
      BY <3>2, EndsAt DEF WarmFails, At
    <3>3. QED
      BY <1>3, <3>1, <3>2
  <2>3. LockFollows(c, call'[c].pc) /\ LineFollows(c, call'[c].pc)
    BY <2>1, <2>2 DEF At, LockFollows, LineFollows, Waiting, Warming
  <2>4. QED
    BY <2>2, <2>3, LineStep DEF At
<1>4. CASE Refused(c)
  <2>1. call[c].pc = "l1" /\ lock # c
    BY <1>4 DEF Refused, LineInv, Warming
  <2>2. CASE Free /\ Invalidate(c, <<>>)
    <3>1. lock' = c /\ lock = None /\ line' = line /\ At(c, {"rewarm"})
      BY <2>2, GotoAt DEF Invalidate, Free
    <3>2. LockFollows(c, "rewarm") /\ LineFollows(c, "rewarm")
      BY <2>1, <3>1 DEF LockFollows, LineFollows, Waiting, Warming
    <3>3. QED
      BY <3>1, <3>2, LineStep DEF At
  <2>3. CASE line' = Append(line, c) /\ Goto(c, "invalidate") /\ UNCHANGED lock
    <3>1. At(c, {"invalidate"})
      BY <2>3, GotoAt
    <3>2. LockFollows(c, "invalidate") /\ LineFollows(c, "invalidate")
      BY <2>1, <2>3 DEF LockFollows, LineFollows, Waiting, Warming
    <3>3. QED
      BY <3>1, <3>2, LineStep DEF At
  <2>4. QED
    BY <1>4, <2>2, <2>3 DEF Refused
<1>5. ASSUME NEW r, call' = [call EXCEPT ![c] = r], r.pc \notin Waiting \cup Warming,
             call[c].pc \notin Waiting \cup Warming, UNCHANGED lockVars
      PROVE  LineInv'
  <2>1. At(c, {r.pc})
    BY <1>0, <1>5 DEF At
  <2>2. QED
    BY <1>5, <2>1, ApartStep
<1>6. ASSUME NEW outcome, Ends(c, outcome), call[c].pc \notin Waiting \cup Warming,
             UNCHANGED lockVars
      PROVE  LineInv'
  <2>1. At(c, {"idle"}) /\ "idle" \notin Waiting \cup Warming
    BY <1>6, EndsAt DEF Waiting, Warming
  <2>2. QED
    BY <1>6, <2>1, ApartStep
<1>7. CASE Answered(c)
  <2>1. call[c].pc \notin Waiting \cup Warming /\ UNCHANGED lockVars
    BY <1>7 DEF Answered, Waiting, Warming
  <2>2. ASSUME NEW stubs,
               call' = [call EXCEPT ![c] = [NoCall EXCEPT !.pc = "enrich", !.bare = stubs]]
        PROVE  LineInv'
    <3> DEFINE r == [NoCall EXCEPT !.pc = "enrich", !.bare = stubs]
    <3>1. r.pc \notin Waiting \cup Warming
      BY DEF NoCall, Waiting, Warming
    <3>2. QED
      BY <1>5, <2>1, <2>2, <3>1
  <2>3. QED
    BY <1>6, <1>7, <2>1, <2>2 DEF Answered
<1>8. CASE Escalates(c)
  <2>1. At(c, {"l2"}) /\ "l2" \notin Waiting \cup Warming
    BY <1>8, GotoAt DEF Escalates, Waiting, Warming
  <2>2. call[c].pc \notin Waiting \cup Warming /\ UNCHANGED lockVars
    BY <1>8 DEF Escalates, Waiting, Warming
  <2>3. QED
    BY <2>1, <2>2, ApartStep
<1>9. CASE Fails(c) \/ Return(c)
  BY <1>6, <1>9 DEF Fails, Return, Waiting, Warming
<1>10. CASE Enrich(c)
  <2>1. PICK named, bare :
          call' = [call EXCEPT ![c].pc = IF bare = {} THEN "emit" ELSE "browse",
                               ![c].ready = named, ![c].bare = bare]
    BY <1>10 DEF Enrich
  <2> DEFINE r == [call[c] EXCEPT !.pc = IF bare = {} THEN "emit" ELSE "browse",
                                  !.ready = named, !.bare = bare]
  <2>2. r.pc \notin Waiting \cup Warming
    BY <1>0 DEF Call, Waiting, Warming
  <2>3. call' = [call EXCEPT ![c] = r]
    BY <1>0, <2>1
  <2>4. QED
    BY <1>5, <1>10, <2>2, <2>3 DEF Enrich, Waiting, Warming
<1>11. CASE Browse(c)
  <2>1. PICK kept : call' = [call EXCEPT ![c].pc = "emit", ![c].bare = kept]
    BY <1>11 DEF Browse
  <2> DEFINE r == [call[c] EXCEPT !.pc = "emit", !.bare = kept]
  <2>2. r.pc \notin Waiting \cup Warming
    BY <1>0 DEF Call, Waiting, Warming
  <2>3. call' = [call EXCEPT ![c] = r]
    BY <1>0, <2>1
  <2>4. QED
    BY <1>5, <1>11, <2>2, <2>3 DEF Browse, Waiting, Warming
<1>12. CASE Emit(c)
  <2>1. PICK o : call' = [call EXCEPT ![c] = Reported(call[c], o)]
    BY <1>12, EmitMakes
  <2>2. call[c].pc = "emit" /\ Reported(call[c], o).pc = "emit" /\ UNCHANGED lockVars
    BY <1>0, <1>12 DEF Reported, Emit, Call
  <2>3. QED
    BY <1>5, <2>1, <2>2 DEF Waiting, Warming
<1>13. CASE Taken(c)
  <2>1. call[c].pc = "idle" /\ NoCall.pc = "idle"
    BY <1>13 DEF Taken, IInv, OffersOf, NoCall
  <2>2. QED
    BY <1>5, <1>13, <2>1 DEF Taken, Waiting, Warming
<1>14. CASE Cancel(c)
  <2>1. At(c, {"idle"})
    BY <1>0, <1>14 DEF Cancel, At, NoCall
  <2>2. LockFollows(c, "idle") /\ LineFollows(c, "idle")
    BY <1>14 DEF Cancel, LockFollows, LineFollows, Waiting, Warming
  <2>3. QED
    BY <2>1, <2>2, LineStep DEF At
<1>15. QED
  BY <1>1, <1>2, <1>3, <1>4, <1>7, <1>8, <1>9, <1>10, <1>11, <1>12, <1>13, <1>14
     DEF Proceeds

LEMMA QueuedNobody == Queued(<<>>, {})
<1>1. <<>> \in Seq(Calls) /\ DOMAIN <<>> = {}
  OBVIOUS
<1>2. QED
  BY <1>1 DEF Queued

LEMMA NextLine == IInv /\ LineInv /\ [Next]_vars => LineInv'
<1> SUFFICES ASSUME IInv, LineInv, [Next]_vars
             PROVE  LineInv'
  OBVIOUS
<1>1. CASE Tick \/ UNCHANGED vars
  BY <1>1 DEF Tick, vars, lockVars, LineInv, Waiters, Queued
<1>2. CASE Crash
  <2>1. lock' = None /\ line' = <<>> /\ \A c \in Calls : call'[c].pc = "idle"
    BY <1>2 DEF Crash, NoCall
  <2>2. Waiters' = {}
    BY <2>1 DEF Waiters, Waiting
  <2>3. Queued(line, Waiters)'
    BY <2>1, <2>2, QueuedNobody DEF Queued
  <2>4. QED
    BY <2>1, <2>3, CallsAssumption DEF LineInv, Warming
<1>3. QED
  BY <1>1, <1>2, LineSteps DEF Next

LEMMA InitLine == Init => LineInv
<1> SUFFICES ASSUME Init PROVE LineInv
  OBVIOUS
<1>1. lock = None /\ line = <<>> /\ \A c \in Calls : call[c].pc = "idle"
  BY DEF Init, NoCall
<1>2. Waiters = {}
  BY <1>1 DEF Waiters, Waiting
<1>3. QED
  BY <1>1, <1>2, QueuedNobody, CallsAssumption DEF LineInv, Warming

\* The types, and who is where: the lock is held by a search that warms and by
\* no other, and those that wait for it are in its line, once each, whoever is
\* cancelled while waiting or warming (asyncio.Lock, _lock of the warmer).
THEOREM TypeCorrect == Spec => []TypeOK
<1>1. IInv /\ LineInv => TypeOK
  <2> SUFFICES ASSUME IInv, LineInv PROVE TypeOK
    OBVIOUS
  <2>1. Waiters = {c \in Calls : call[c].pc \in Waiting} /\ Queued(line, Waiters)
    BY DEF Waiters, LineInv
  <2>2. Len(line) = Cardinality(Waiters)
    BY <2>1, QueuedCount
  <2>3. refused \subseteq Exports
    BY DEF IInv, Typed, JarsTrue, Exports
  <2>4. QED
    BY <2>1, <2>2, <2>3 DEF TypeOK, IInv, Typed, LineInv, Queued
<1>2. Init => LineInv
  BY InitLine
<1>3. IInv /\ LineInv /\ [Next]_vars => LineInv'
  BY NextLine
<1>4. QED
  BY <1>1, <1>2, <1>3, Invariance, PTL DEF Spec

(***************************************************************************)
(* OzonSource implements Adapter.                                          *)
(***************************************************************************)

LEMMA ShownStep ==
  ASSUME IInv, NEW c \in Calls, NEW r, call' = [call EXCEPT ![c] = r]
  PROVE  search' = [search EXCEPT ![c] = Shown(r)]
<1>1. \A d \in Calls : call'[d] = IF d = c THEN r ELSE call[d]
  BY DEF IInv, Typed
<1>2. QED
  BY <1>1 DEF search, Shown

\* A search that is over has reported just what is in its list.
LEMMA ShownEnds ==
  ASSUME IInv, NEW c \in Calls, NEW outcome \in {"offers", "error"},
         call[c].outcome = "none", Ends(c, outcome)
  PROVE  Protocol!Return(c) \/ Protocol!Fail(c)
<1> DEFINE old == call[c]
           r == [NoCall EXCEPT !.outcome = outcome, !.out = old.out, !.emitted = old.emitted]
<1>1. old.emitted = old.out
  BY DEF IInv, OffersOf
<1>2. search' = [search EXCEPT ![c] = Shown(r)]
  BY ShownStep DEF Ends
<1>3. search[c] = [emitted |-> old.out, outcome |-> "none", returned |-> Never]
  BY <1>1 DEF search, Shown
<1>4. Shown(r) = [emitted |-> old.out, outcome |-> outcome,
                  returned |-> IF outcome = "offers" THEN old.out ELSE Never]
  BY <1>1 DEF Shown, NoCall
<1> HIDE DEF r
<1>5. search[c].outcome = "none" /\ search[c].emitted = old.out
  BY <1>3
<1>6. CASE outcome = "offers"
  <2>1. Shown(r) = [emitted |-> search[c].emitted, outcome |-> "offers",
                    returned |-> search[c].emitted]
    BY <1>4, <1>5, <1>6
  <2>2. QED
    BY <1>2, <1>5, <2>1 DEF Protocol!Return
<1>7. CASE outcome = "error"
  <2>1. [search[c] EXCEPT !.outcome = "error"] = Shown(r)
    BY <1>3, <1>4, <1>7
  <2>2. search' = [search EXCEPT ![c] = [search[c] EXCEPT !.outcome = "error"]]
    BY <1>2, <2>1
  <2>3. QED
    BY <1>5, <2>2 DEF Protocol!Fail
<1>8. QED
  BY <1>6, <1>7

\* An offer is reported that was not reported before.
LEMMA ShownEmit ==
  ASSUME IInv, NEW c \in Calls, Emit(c)
  PROVE  Protocol!Emit(c)
<1> DEFINE old == call[c]
<1>1. old \in Call /\ OffersOf(old) /\ old.outcome = "none" /\ old.emitted = old.out
  BY DEF IInv, Typed, Emit, OffersOf
<1>2. PICK o \in old.ready \cup old.bare :
        /\ o \in Stubs /\ old.out[o] = 0
        /\ call' = [call EXCEPT ![c] = Reported(old, o)]
  BY EmitMakes
<1> DEFINE r == Reported(old, o)
<1>3. search' = [search EXCEPT ![c] = Shown(r)]
  BY <1>2, ShownStep
<1>4. search[c] = [emitted |-> old.out, outcome |-> "none", returned |-> Never]
  BY <1>1 DEF search, Shown
<1>5. r.emitted = [old.out EXCEPT ![o] = 1] /\ r.outcome = "none"
  BY <1>1 DEF Reported, Call
<1>6. Shown(r) = [emitted |-> [old.out EXCEPT ![o] = 1], outcome |-> "none", returned |-> Never]
  BY <1>5 DEF Shown
<1> HIDE DEF r
<1>7. search[c].outcome = "none" /\ search[c].emitted = old.out
  BY <1>4
<1>8. [search[c] EXCEPT !.emitted = [old.out EXCEPT ![o] = 1]] = Shown(r)
  <2>1. [[emitted |-> old.out, outcome |-> "none", returned |-> Never]
           EXCEPT !.emitted = [old.out EXCEPT ![o] = 1]]
          = [emitted |-> [old.out EXCEPT ![o] = 1], outcome |-> "none", returned |-> Never]
    OBVIOUS
  <2>2. QED
    BY <1>4, <1>6, <2>1
<1>9. search' = [search EXCEPT ![c].emitted[o] = 1]
  BY <1>3, <1>7, <1>8
<1>10. QED
  BY <1>2, <1>7, <1>9 DEF Protocol!Emit

\* What is not reported is not seen.
LEMMA ShownQuiet ==
  ASSUME IInv, NEW c \in Calls, NEW r, call' = [call EXCEPT ![c] = r],
         r.emitted = call[c].emitted, r.outcome = "none", call[c].outcome = "none"
  PROVE  search' = search
<1>1. search' = [search EXCEPT ![c] = Shown(r)]
  BY ShownStep
<1>2. Shown(r) = Shown(call[c]) /\ search[c] = Shown(call[c])
  BY DEF Shown, search
<1>3. QED
  BY <1>1, <1>2 DEF search

\* The searches gone begin anew.
LEMMA ShownRestart ==
  ASSUME IInv, NEW gone \in SUBSET Calls,
         call' = [c \in Calls |-> IF c \in gone THEN NoCall ELSE call[c]]
  PROVE  Protocol!Restart
<1>1. Shown(NoCall) = Protocol!NoSearch
  BY DEF Shown, NoCall, Protocol!NoSearch, Protocol!Never, Never
<1>2. \A c \in Calls : call'[c] = IF c \in gone THEN NoCall ELSE call[c]
  OBVIOUS
<1>3. search' = [c \in Calls |-> IF c \in gone THEN Protocol!NoSearch ELSE search[c]]
  BY <1>1, <1>2 DEF search
<1>4. QED
  BY <1>3 DEF Protocol!Restart

\* What GetCookies does to its search is not seen, unless the search ends with
\* an error.
LEMMA ShownHand ==
  ASSUME IInv, NEW c \in Calls, NEW jar, NEW force, Hand(c, jar, force),
         call[c].outcome = "none"
  PROVE  [Protocol!Next]_search
<1>1. call \in [Calls -> Call] /\ call[c] \in Call
  BY DEF IInv, Typed
<1>2. CASE force
  <2> DEFINE r == [call[c] EXCEPT !.pc = "l1again", !.with = jar.export]
  <2>1. call' = [call EXCEPT ![c] = r]
    BY <1>1, <1>2 DEF Hand
  <2>2. r.emitted = call[c].emitted /\ r.outcome = "none"
    BY <1>1 DEF Call
  <2>3. QED
    BY <2>1, <2>2, ShownQuiet
<1>3. CASE ~force /\ jar.empty
  BY <1>3, ShownEnds DEF Hand, Protocol!Next
<1>4. CASE ~force /\ ~jar.empty
  <2> DEFINE r == [call[c] EXCEPT !.pc = "l1", !.with = jar.export, !.first = jar.export]
  <2>1. call' = [call EXCEPT ![c] = r]
    BY <1>1, <1>4 DEF Hand
  <2>2. r.emitted = call[c].emitted /\ r.outcome = "none"
    BY <1>1 DEF Call
  <2>3. QED
    BY <2>1, <2>2, ShownQuiet
<1>5. QED
  BY <1>2, <1>3, <1>4

LEMMA ShownGoto ==
  ASSUME IInv, NEW c \in Calls, NEW pc, Goto(c, pc), call[c].outcome = "none"
  PROVE  search' = search
<1> DEFINE r == [call[c] EXCEPT !.pc = pc]
<1>1. call' = [call EXCEPT ![c] = r]
  BY DEF Goto
<1>2. r.emitted = call[c].emitted /\ r.outcome = "none"
  BY DEF IInv, Typed, Call
<1>3. QED
  BY <1>1, <1>2, ShownQuiet

LEMMA ShownGetCookies ==
  ASSUME IInv, NEW c \in Calls, NEW force, GetCookies(c, force), call[c].outcome = "none"
  PROVE  [Protocol!Next]_search
BY ShownHand, ShownGoto DEF GetCookies

LEMMA ShownNext ==
  ASSUME IInv, [Next]_vars
  PROVE  [Protocol!Next]_search
<1>1. \A c \in Calls : call[c] \in Call /\ (call[c].pc # "idle" => call[c].outcome = "none")
  BY DEF IInv, Typed, OffersOf
<1>2. ASSUME NEW c \in Calls, Search(c)
      PROVE  [Protocol!Next]_search
  <2>1. call[c].outcome = "none"
    BY <1>2 DEF Search, NoCall
  <2>2. QED
    BY <1>2, <2>1, ShownGetCookies, ShownGoto DEF Search
<1>3. ASSUME NEW c \in Calls, TakeLock(c)
      PROVE  [Protocol!Next]_search
  <2>1. call[c].outcome = "none"
    BY <1>1, <1>3 DEF TakeLock
  <2>2. QED
    BY <1>3, <2>1, ShownGetCookies, ShownGoto DEF TakeLock, Invalidate
<1>4. ASSUME NEW c \in Calls, WarmEnds(c)
      PROVE  [Protocol!Next]_search
  <2>1. call[c].outcome = "none"
    BY <1>1, <1>4 DEF WarmEnds, Warming
  <2>2. QED
    BY <1>4, <2>1, ShownHand DEF WarmEnds
<1>5. ASSUME NEW c \in Calls, Refused(c) \/ Escalates(c)
      PROVE  [Protocol!Next]_search
  <2>1. call[c].outcome = "none"
    BY <1>1, <1>5 DEF Refused, Escalates
  <2>2. QED
    BY <1>5, <2>1, ShownGoto DEF Refused, Invalidate, Escalates
<1>6. ASSUME NEW c \in Calls, \E outcome \in {"offers", "error"} : Ends(c, outcome),
             call[c].pc # "idle"
      PROVE  [Protocol!Next]_search
  BY <1>1, <1>6, ShownEnds DEF Protocol!Next
<1>7. ASSUME NEW c \in Calls, Fails(c) \/ Return(c) \/ WarmFails(c)
      PROVE  [Protocol!Next]_search
  BY <1>6, <1>7 DEF Fails, Return, WarmFails, Warming
<1>8. ASSUME NEW c \in Calls, Answered(c)
      PROVE  [Protocol!Next]_search
  <2>1. call[c].outcome = "none" /\ call[c].pc # "idle"
    BY <1>1, <1>8 DEF Answered
  <2>2. ASSUME NEW stubs,
               call' = [call EXCEPT ![c] = [NoCall EXCEPT !.pc = "enrich", !.bare = stubs]]
        PROVE  search' = search
    <3> DEFINE r == [NoCall EXCEPT !.pc = "enrich", !.bare = stubs]
    <3>1. call[c].emitted = Never
      BY <1>8 DEF Answered, IInv, OffersOf
    <3>2. r.emitted = call[c].emitted /\ r.outcome = "none"
      BY <3>1 DEF NoCall
    <3>3. QED
      BY <2>1, <2>2, <3>2, ShownQuiet
  <2>3. QED
    BY <1>6, <1>8, <2>1, <2>2 DEF Answered
<1>9. ASSUME NEW c \in Calls, Enrich(c)
      PROVE  search' = search
  <2>1. PICK named, bare :
          call' = [call EXCEPT ![c].pc = IF bare = {} THEN "emit" ELSE "browse",
                               ![c].ready = named, ![c].bare = bare]
    BY <1>9 DEF Enrich
  <2> DEFINE r == [call[c] EXCEPT !.pc = IF bare = {} THEN "emit" ELSE "browse",
                                  !.ready = named, !.bare = bare]
  <2>2. r.emitted = call[c].emitted /\ r.outcome = "none" /\ call[c].outcome = "none"
    BY <1>1, <1>9 DEF Enrich, Call
  <2>3. call' = [call EXCEPT ![c] = r]
    BY <1>1, <2>1 DEF IInv, Typed
  <2>4. QED
    BY <2>2, <2>3, ShownQuiet
<1>10. ASSUME NEW c \in Calls, Browse(c)
       PROVE  search' = search
  <2>1. PICK kept : call' = [call EXCEPT ![c].pc = "emit", ![c].bare = kept]
    BY <1>10 DEF Browse
  <2> DEFINE r == [call[c] EXCEPT !.pc = "emit", !.bare = kept]
  <2>2. r.emitted = call[c].emitted /\ r.outcome = "none" /\ call[c].outcome = "none"
    BY <1>1, <1>10 DEF Browse, Call
  <2>3. call' = [call EXCEPT ![c] = r]
    BY <1>1, <2>1 DEF IInv, Typed
  <2>4. QED
    BY <2>2, <2>3, ShownQuiet
<1>11. ASSUME NEW c \in Calls, Taken(c) \/ Cancel(c)
       PROVE  Protocol!Restart
  <2>1. call' = [d \in Calls |-> IF d \in {c} THEN NoCall ELSE call[d]]
    BY <1>11 DEF Taken, Cancel, IInv, Typed
  <2>2. QED
    BY <2>1, ShownRestart
<1>12. CASE Crash
  <2>1. call' = [d \in Calls |-> IF d \in Calls THEN NoCall ELSE call[d]]
    BY <1>12 DEF Crash
  <2>2. QED
    BY <2>1, ShownRestart DEF Protocol!Next
<1>13. CASE Tick \/ UNCHANGED vars
  BY <1>13 DEF Tick, vars, search
<1>14. QED
  BY <1>2, <1>3, <1>4, <1>5, <1>7, <1>8, <1>9, <1>10, <1>11, <1>12, <1>13, ShownEmit
     DEF Next, Proceeds, Protocol!Next

\* What Ozon's adapter shows of a search is a behaviour of Adapter: offers
\* reported once each, and then a list of just these or an error, whatever the
\* cookies, the attempts and the two ways of enriching.
THEOREM AdapterImplemented == Spec => ImplementsAdapter
<1>1. Init => Protocol!Init
  BY DEF Init, Protocol!Init, search, Shown, NoCall, Protocol!NoSearch, Protocol!Never, Never
<1>2. IInv /\ [Next]_vars => [Protocol!Next]_search
  BY ShownNext
<1>3. QED
  BY <1>1, <1>2, Invariance, PTL DEF Spec, ImplementsAdapter, Protocol!Spec

=============================================================================
