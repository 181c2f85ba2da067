----------------------------- MODULE ChatSession -----------------------------
(***************************************************************************)
(* The chat agent: ChatEngine.turn of agent/chat.py behind POST /chat      *)
(* (api/routes/chat.py), for the turns of one session.                     *)
(*                                                                         *)
(* A turn reads the session's history from Redis, talks to the model,      *)
(* which may ask for tools round after round, and writes the history back. *)
(* Nothing keeps two turns of a session apart.  The system prompt that     *)
(* heads every history is left out.                                        *)
(***************************************************************************)
EXTENDS Naturals, Sequences

CONSTANTS
  Turns,      \* messages of the user, each answered or not
  MaxRounds,  \* max_tool_rounds
  MaxCalls    \* bound of the model: tools asked for at once

ASSUME ChatAssumption == MaxRounds \in Nat /\ MaxCalls \in Nat

VARIABLE chat  \* the session: what Redis has of it, and its turns

Message == [by: Turns, kind: {"user", "calls", "result", "reply"}]

Turn == [pc: {"new", "load", "model", "tools", "save", "replied", "failed"},
         redis: BOOLEAN,         \* whether there is a Redis for it
         history: Seq(Message),
         asked: 0 .. MaxCalls,   \* tools that are running
         round: 0 .. MaxRounds,  \* round_idx
         base: Nat]              \* observes: events before its history was read

\* What has happened to the stored history: a turn wrote it, or it expired.
Event == [what: {"saved"}, by: Turns, base: Nat] \cup [what: {"expired"}]

Session == [stored: Seq(Message),  \* chat:{session_id}, empty if not there
            turn: [Turns -> Turn],
            log: Seq(Event)]       \* observes

NewTurn == [pc |-> "new", redis |-> FALSE, history |-> <<>>, asked |-> 0, round |-> 0,
            base |-> 0]

ChatTypeOK == chat \in Session

ChatInit == chat = [stored |-> <<>>, turn |-> [t \in Turns |-> NewTurn], log |-> <<>>]

Says(t, kind) == [by |-> t, kind |-> kind]

\* turn[t] becomes r, which tells a turn that ends that way.
Becomes(t, r) == chat' = [chat EXCEPT !.turn[t] = r]
Fails(t) == Becomes(t, [chat.turn[t] EXCEPT !.pc = "failed"])

\* The route's dependency pings Redis, and does without it if there is no
\* answer.
Pings(t) ==
  /\ chat.turn[t].pc = "new"
  /\ \E up \in BOOLEAN : Becomes(t, [chat.turn[t] EXCEPT !.pc = "load", !.redis = up])

\* _load_history and the user's message; GET may fail, for a 502.
Loads(t) ==
  /\ chat.turn[t].pc = "load"
  /\ LET stored == IF chat.turn[t].redis THEN chat.stored ELSE <<>>
     IN \/ Becomes(t, [chat.turn[t] EXCEPT !.pc = "model", !.base = Len(chat.log),
                         !.history = Append(stored, Says(t, "user"))])
        \/ chat.turn[t].redis /\ Fails(t)

\* The model replies, asks for tools, or raises.
ModelAnswers(t) ==
  /\ chat.turn[t].pc = "model"
  /\ \/ Becomes(t, [chat.turn[t] EXCEPT !.pc = "save",
                      !.history = Append(@, Says(t, "reply"))])
     \/ \E n \in 1 .. MaxCalls :
           Becomes(t, [chat.turn[t] EXCEPT !.pc = "tools", !.asked = n,
                         !.history = Append(@, Says(t, "calls"))])
     \/ Fails(t)

\* The tools run in parallel and never raise (_dispatch_tool_call); their
\* results are appended in the order of the calls.  After the last round the
\* turn ends with a reply that says so.
ToolsEnd(t) ==
  /\ chat.turn[t].pc = "tools"
  /\ LET r == chat.turn[t]
         results == r.history \o [i \in 1 .. r.asked |-> Says(t, "result")]
     IN IF r.round < MaxRounds
        THEN Becomes(t, [r EXCEPT !.pc = "model", !.history = results, !.asked = 0,
                                  !.round = @ + 1])
        ELSE Becomes(t, [r EXCEPT !.pc = "save", !.asked = 0,
                                  !.history = Append(results, Says(t, "reply"))])

WrittenTrimmed(history) ==
  IF Len(history) <= 5 THEN history ELSE SubSeq(history, Len(history) - 4, Len(history))

\* What _save_history writes: all of it.
Written(history) == history

\* SET is done, and its answer may be lost; or it is not, be it that the
\* history cannot be written as JSON.
Saves(t) ==
  /\ chat.turn[t].pc = "save"
  /\ \/ /\ chat.turn[t].redis
        /\ \E pc \in {"replied", "failed"} :
              chat' = [chat EXCEPT
                         !.stored = Written(chat.turn[t].history),
                         !.turn[t].pc = pc,
                         !.log = Append(@, [what |-> "saved", by |-> t,
                                            base |-> chat.turn[t].base])]
     \/ chat.turn[t].redis /\ Fails(t)
     \/ ~chat.turn[t].redis /\ Becomes(t, [chat.turn[t] EXCEPT !.pc = "replied"])

\* A day without a turn, or a Redis that lost its data.
Expires ==
  /\ chat.stored # <<>>
  /\ chat' = [chat EXCEPT !.stored = <<>>, !.log = Append(@, [what |-> "expired"])]

\* The process ends; Redis keeps what it has.
ChatCrash ==
  /\ \E t \in Turns : chat.turn[t].pc \in {"load", "model", "tools", "save"}
  /\ chat' = [chat EXCEPT !.turn =
       [t \in Turns |-> IF @[t].pc \in {"load", "model", "tools", "save"}
                        THEN [@[t] EXCEPT !.pc = "failed"] ELSE @[t]]]

ChatNext ==
  \/ \E t \in Turns : Pings(t) \/ Loads(t) \/ ModelAnswers(t) \/ ToolsEnd(t) \/ Saves(t)
  \/ Expires
  \/ ChatCrash

ChatSpec == ChatInit /\ [][ChatNext]_chat

-----------------------------------------------------------------------------

\* The places of the messages of turn t in history h.
Places(h, t) == {i \in DOMAIN h : h[i].by = t}

\* All that t said in its own history, from the user's message at k to the
\* end, is in h too, in one piece, and nothing else of t.
InOnePiece(h, own, t) ==
  \E k \in DOMAIN own :
    /\ Places(own, t) = k .. Len(own)
    /\ own[k].kind = "user"
    /\ \E i \in DOMAIN h :
          /\ Places(h, t) = i .. i + Len(own) - k
          /\ \A j \in k .. Len(own) : h[i + j - k] = own[j]

SavedAt(t, i) == chat.log[i].what = "saved" /\ chat.log[i].by = t
Saved(t) == \E i \in DOMAIN chat.log : SavedAt(t, i)

\* The turn of event i had read the history before event j.
Unaware(i, j) == chat.log[i].what = "expired" \/ chat.log[i].base < j

\* Of the first n events, whatever saved t was followed by one that undid it.
Undone(t, n) ==
  \A i \in 1 .. n : SavedAt(t, i) => \E j \in i + 1 .. n : Unaware(j, i)

\* What Redis has of a session is made of whole turns: of each turn that is
\* in it, all it said, from the user's message to the reply, in one piece.
\* A turn that failed before it was saved leaves nothing; and one that was
\* saved is missing only if the history expired since, or was written by a
\* turn that had read it before: of two turns of a session at once the later
\* undoes the earlier.
HistoryKept ==
  \A t \in Turns :
    LET own == chat.turn[t].history
    IN  IF Places(chat.stored, t) # {}
        THEN /\ Saved(t)
             /\ InOnePiece(chat.stored, own, t)
             /\ own[Len(own)].kind = "reply"
        ELSE Undone(t, Len(chat.log))

=============================================================================
