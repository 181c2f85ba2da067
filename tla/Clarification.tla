---------------------------- MODULE Clarification ----------------------------
(***************************************************************************)
(* Whether a query is one product or several: check_and_clarify_query of   *)
(* enrichment/query_clarification.py.  A heuristic looks for two things    *)
(* joined by a conjunction; a model is asked in any case; the answer is    *)
(* made of both.                                                           *)
(***************************************************************************)
EXTENDS Naturals, Sequences

CONSTANT MaxOptions  \* bound of the model: options in the model's answer

ASSUME OptionsAssumption == MaxOptions \in Nat

VARIABLE clarify  \* one analysis of a query

\* An option searches for the query as it was typed, or for something else.
Option == {"literal", "other"}

Answer == [ambiguous: BOOLEAN, options: Seq(Option)]
Single == [ambiguous |-> FALSE, options |-> <<>>]

Analysis == [pc: {"idle", "asked", "answered"},
             split: BOOLEAN,  \* the heuristic sees two products
             said: Answer,    \* observes: what the model said, if it did
             answer: Answer]

NoAnalysis == [pc |-> "idle", split |-> FALSE, said |-> Single, answer |-> Single]

ClarifyTypeOK == clarify \in Analysis

ClarifyInit == clarify = NoAnalysis

\* _heuristic_clarification: one product, the other, or the query as typed.
Heuristic(split) ==
  IF split THEN [ambiguous |-> TRUE, options |-> <<"other", "other", "literal">>]
           ELSE Single

WithLiteral(options) ==
  IF \E i \in DOMAIN options : options[i] = "literal" THEN options
  ELSE Append(options, "literal")

\* _ensure_three_options.
EnsureOptions(said, split) ==
  LET options == WithLiteral(said.options)
      n == Len(options)
  IN IF ~said.ambiguous THEN said
     ELSE IF n > 3
     THEN [ambiguous |-> TRUE, options |-> <<options[1], options[2], options[n]>>]
     ELSE IF n < 2 THEN Heuristic(split)
     ELSE [ambiguous |-> TRUE, options |-> options]

CombinedTrusting(said, split) == EnsureOptions(said, split)

\* The heuristic overrules a model that sees one product.
Combined(said, split) ==
  LET ensured == EnsureOptions(said, split)
  IN IF ~ensured.ambiguous /\ split THEN Heuristic(split) ELSE ensured

\* The stream or run() creates the task.
Analyses ==
  /\ clarify = NoAnalysis
  /\ \E split \in BOOLEAN : clarify' = [clarify EXCEPT !.pc = "asked", !.split = split]

ModelSays ==
  /\ clarify.pc = "asked"
  /\ \E n \in 0 .. MaxOptions, ambiguous \in BOOLEAN :
       \E options \in [1 .. n -> Option] :
         LET said == [ambiguous |-> ambiguous, options |-> options]
         IN clarify' = [clarify EXCEPT !.pc = "answered", !.said = said,
                                       !.answer = Combined(said, clarify.split)]

\* The model cannot be reached, or its answer is no JSON of the kind.
ModelFails ==
  /\ clarify.pc = "asked"
  /\ clarify' = [clarify EXCEPT !.pc = "answered", !.answer = Heuristic(clarify.split)]

\* The request has the answer, or it ended without: its task is then left to
\* itself, and nobody reads what it finds.
ClarifyGone ==
  /\ clarify # NoAnalysis
  /\ clarify' = NoAnalysis

ClarifyNext ==
  \/ Analyses
  \/ ModelSays
  \/ ModelFails
  \/ ClarifyGone

ClarifySpec == ClarifyInit /\ [][ClarifyNext]_clarify

-----------------------------------------------------------------------------

Literal(options) == \E i \in DOMAIN options : options[i] = "literal"

\* "Obvious cases still trigger a clarification even when the LLM was
\* sloppy", or down: a query that the heuristic splits is never passed for
\* one product.  Whoever is asked to choose has two or three options, one of
\* them the query as it was typed, which only the cut to three takes away,
\* and only from a model that offered it.  That is less than is promised:
\* see AlwaysThree.
ObviousClarified ==
  clarify.pc = "answered" =>
    LET said == clarify.said.options
        options == clarify.answer.options
    IN /\ clarify.split => clarify.answer.ambiguous
       /\ clarify.answer.ambiguous =>
            /\ Len(options) \in 2 .. 3
            /\ Literal(options) \/ (Literal(said) /\ Len(said) > 3)

\* Docstring of _ensure_three_options: "we always end with the expected
\* three-option layout (incl. the literal-search escape hatch as the last
\* option) when the model said it's ambiguous", and what is shown of it.
AlwaysThree ==
  clarify.pc = "answered" /\ clarify.said.ambiguous /\ clarify.answer.ambiguous =>
    LET options == clarify.answer.options
    IN Len(options) = 3 /\ options[3] = "literal"

=============================================================================
