------------------------- MODULE ConversationPolicy -------------------------
(***************************************************************************)
(* The deterministic policy layer of a native call: what the language model*)
(* proposes (intent, next action, the fields it captured, whether it       *)
(* understood an opt-out) and what the policy makes of it.                 *)
(*                                                                         *)
(* A next action matters only in so far as it ends the call; texts are     *)
(* left out, but whether the utterance holds one of the opt-out phrases is *)
(* kept, because the policy looks for them whatever the model says.        *)
(*                                                                         *)
(* An operator named Bug_Name is Name with a bug that would be easy to     *)
(* make; no action uses it.                                                *)
(***************************************************************************)
EXTENDS Integers

CONSTANTS
  Fields,       \* the campaign's required entity fields
  MaxDeclines,  \* MAX_CONSECUTIVE_DECLINES
  MaxUnclear    \* MAX_CONSECUTIVE_UNCLEAR

Intents == {"affirmative", "negative", "question", "objection",
            "request_callback", "request_human", "off_topic", "end_call",
            "unclear"}
Phases == {"opening", "discovery", "objection_handling", "closing", "wrap_up"}

\* How a next action ends the call; "no" stands for those that do not.
Endings == {"no", "end_call_polite", "end_call_goal_met"}
Reasons == (Endings \ {"no"}) \cup
           {"opt_out", "repeated_decline", "repeated_unclear", "wrap_up"}

\* captured: the fields for which the answer holds a value.
LLMOutput == [intent : Intents, ending : Endings,
                     optout : BOOLEAN, captured : SUBSET Fields]

\* The bug: a decline is left to the counter of declines.
Bug_Leaving == {"end_call", "request_human", "request_callback"}

\* The intents that lead to the wrap-up from every phase that routes at all.
Leaving == {"negative", "end_call", "request_human", "request_callback"}

\* The phase after an intent; pending says that required fields are missing.
Route(phase, intent, pending) ==
  CASE phase # "wrap_up" /\ intent \in Leaving -> "wrap_up"
    [] phase = "opening" /\ intent \in {"affirmative", "question"} -> "discovery"
    [] phase = "discovery" /\ intent = "objection" -> "objection_handling"
    [] phase \in {"discovery", "objection_handling"} /\ intent = "affirmative"
         -> IF pending THEN "discovery" ELSE "closing"
    [] phase = "closing" /\ intent = "affirmative" -> "wrap_up"
    [] OTHER -> phase

Decision == [phase : Phases, reason : Reasons \cup {"none"}]
WrapUp(reason) == [phase |-> "wrap_up", reason |-> reason]

\* The bug: the model is relied on.
Bug_OptOut(o, phrase) == o.optout

\* The customer does not want to be called: says the model, or the phrase.
OptOut(o, phrase) == o.optout \/ phrase

\* The verdict on output o, after `declines` declines and `unclear` unclear
\* answers in a row, both including this one.  "none": the call goes on.
Decide(phase, o, phrase, declines, unclear, pending) ==
  LET next == Route(phase, o.intent, pending)
  IN  IF OptOut(o, phrase) THEN WrapUp("opt_out")
      ELSE IF o.ending # "no" THEN WrapUp(o.ending)
      ELSE IF o.intent = "negative" /\ declines >= MaxDeclines
           THEN WrapUp("repeated_decline")
      ELSE IF o.intent = "unclear" /\ unclear >= MaxUnclear
           THEN WrapUp("repeated_unclear")
      ELSE [phase |-> next, reason |-> IF next = "wrap_up" THEN "wrap_up" ELSE "none"]

\* What the orchestrator answers itself when the model fails.
Fallback == [intent |-> "unclear", ending |-> "end_call_polite",
             optout |-> FALSE, captured |-> {}]
=============================================================================
