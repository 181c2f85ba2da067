------------------------------ MODULE Services ------------------------------
(***************************************************************************)
(* What the API offers beside the search, side by side: the chat agent     *)
(* (ChatSession), the image proxy (ImageCache), the way of a query to its  *)
(* client and its normal form (QueryIntake) and to its clarification       *)
(* (Clarification), and the justification of a price (Nmck).  They are     *)
(* parts of one process that share no state.                               *)
(***************************************************************************)
EXTENDS ChatSession, ImageCache, QueryIntake, Clarification, Nmck

services == <<chat, images, intake, clarify, nmck>>

Init == ChatInit /\ ImagesInit /\ IntakeInit /\ ClarifyInit /\ NmckInit

Next ==
  \/ ChatNext /\ UNCHANGED <<images, intake, clarify, nmck>>
  \/ ImagesNext /\ UNCHANGED <<chat, intake, clarify, nmck>>
  \/ IntakeNext /\ UNCHANGED <<chat, images, clarify, nmck>>
  \/ ClarifyNext /\ UNCHANGED <<chat, images, intake, nmck>>
  \/ NmckNext /\ UNCHANGED <<chat, images, intake, clarify>>

Spec == Init /\ [][Next]_services

=============================================================================
