----------------------------- MODULE MCServices -----------------------------
(***************************************************************************)
(* Each of the services and the rate limiter on its own.  They share no    *)
(* state, so that what is true of one while the others rest is true of it  *)
(* while they move: the instance chooses one of them, and it alone moves.  *)
(*                                                                         *)
(* The limiter's instance is two workers with one search each.  Its clock  *)
(* runs for longer than an idle bucket lives, so the key expires too, and  *)
(* for longer than two waits of one call.                                  *)
(***************************************************************************)
EXTENDS Services, RateLimiter

CONSTANTS u1, u2, u3, i1, i2, v1, v2, r1, r2, p1, p2, c1, c2

MCProcOf == [c \in Callers |-> IF c = c1 THEN p1 ELSE p2]

VARIABLE moves

MCInit ==
  /\ Init
  /\ LimiterInit
  /\ moves \in {"limiter", "chat", "images", "intake", "clarify", "nmck"}
  \* Where its own part rests, the initial state makes no difference.
  /\ moves # "intake" => intake.entry.what = "none" /\ intake.spell

MCNext ==
  /\ \/ moves = "limiter" /\ LimiterNext /\ UNCHANGED services
     \/ moves = "chat" /\ ChatNext /\ UNCHANGED <<vars, images, intake, clarify, nmck>>
     \/ moves = "images" /\ ImagesNext /\ UNCHANGED <<vars, chat, intake, clarify, nmck>>
     \/ moves = "intake" /\ IntakeNext /\ UNCHANGED <<vars, chat, images, clarify, nmck>>
     \/ moves = "clarify" /\ ClarifyNext /\ UNCHANGED <<vars, chat, images, intake, nmck>>
     \/ moves = "nmck" /\ NmckNext /\ UNCHANGED <<vars, chat, images, intake, clarify>>
  /\ UNCHANGED moves

\* LimiterFairness, of the limiter where it moves.
MCLimiterFairness ==
  /\ WF_vars(moves = "limiter" /\ Tick)
  /\ \A c \in Callers :
        /\ WF_vars(moves = "limiter" /\ Wake(c))
        /\ WF_vars(moves = "limiter" /\ (EvalReplies(c) \/ EvalFails(c)))

MCSpec ==
  /\ MCInit
  /\ [][MCNext]_<<services, vars, moves>>
  /\ IntakeFairness
  /\ MCLimiterFairness

=============================================================================
