---------------------------- MODULE SharedBrowser ----------------------------
(***************************************************************************)
(* What the adapters rely on in a browser, whether its tabs are pooled     *)
(* (acquire of antibot/browser_pool.py) or it has but one (dom_search,     *)
(* serp_search and shopping_search of antibot/*_browser.py): so many calls *)
(* are in it at a time and no more, and each gets its page in the one      *)
(* Chrome that runs.  Locks, retries and the order of the awaits are not   *)
(* told.  BrowserPool and TabBrowser implement it.                         *)
(***************************************************************************)
EXTENDS Integers, FiniteSets

CONSTANTS
  Calls,     \* the tasks that come for a page, again and again
  MaxUsers,  \* calls in the browser at a time
  MaxStarts  \* bound of the model: Chrome processes ever launched

VARIABLES
  chrome,   \* chrome[i]: the i-th Chrome launched
  current,  \* the Chrome that is shared, or 0
  stray,    \* Chromes whose launch failed or was cancelled halfway
  users,    \* the calls in the browser
  page      \* page[t]: the Chrome in which t has its page, or 0

chromeVars == <<chrome, current, stray>>
callVars == <<users, page>>

\* The browser may have been warmed up, all the way or halfway.
Init ==
  /\ current \in 0 .. 1
  /\ chrome = [i \in 1 .. MaxStarts |-> IF i = current THEN "up" ELSE "unused"]
  /\ stray \in SUBSET ({current} \ {0})
  /\ users = {}
  /\ page = [t \in Calls |-> 0]

\* One that waits is let in, while there is room.
Enter(t) ==
  /\ t \notin users
  /\ Cardinality(users) < MaxUsers
  /\ users' = users \cup {t}
  /\ UNCHANGED page

\* A call in the browser gets its page, and the Chrome is running then.
Serve(t) ==
  /\ t \in users
  /\ current # 0 /\ chrome[current] = "up"
  /\ page' = [page EXCEPT ![t] = current]
  /\ UNCHANGED users

\* It has no more use for the page, but stays.
Finish(t) ==
  /\ page' = [page EXCEPT ![t] = 0]
  /\ UNCHANGED users

Leave(t) ==
  /\ users' = users \ {t}
  /\ page' = [page EXCEPT ![t] = 0]

Start(i) ==
  /\ chrome[i] = "unused"
  /\ chrome' = [chrome EXCEPT ![i] = "up"]

\* A Chrome is launched to be shared: no other one runs, strays excepted.
Launch ==
  /\ \A i \in 1 .. MaxStarts : chrome[i] = "up" => i \in stray
  /\ \E i \in 1 .. MaxStarts : Start(i) /\ current' = i
  /\ UNCHANGED stray

\* A launch is broken off, and its Chrome was never shared, or is no longer
\* to be relied upon.
Stray ==
  /\ \/ \E i \in 1 .. MaxStarts : Start(i) /\ stray' = stray \cup {i}
     \/ current # 0 /\ stray' = stray \cup {current} /\ UNCHANGED chrome
  /\ UNCHANGED current

Stop ==
  /\ current # 0
  /\ chrome' = [chrome EXCEPT ![current] = "stopped"]
  /\ current' = 0
  /\ UNCHANGED stray

Die ==
  /\ \E i \in 1 .. MaxStarts :
        /\ chrome[i] = "up"
        /\ chrome' = [chrome EXCEPT ![i] = "dead"]
  /\ UNCHANGED <<current, stray>>

\* A call may leave by the same step that stops the Chrome or breaks off its
\* launch.
Next ==
  \/ \E t \in Calls :
        \/ (Enter(t) \/ Serve(t) \/ Finish(t) \/ Leave(t)) /\ UNCHANGED chromeVars
        \/ Leave(t) /\ (Stray \/ Stop)
  \/ (Launch \/ Stop \/ Die) /\ UNCHANGED callVars

Spec == Init /\ [][Next]_<<chromeVars, callVars>>

=============================================================================
