------------------------- MODULE ConversationProofs -------------------------
(***************************************************************************)
(* Proofs about a native call's conversation, for any number of attempts,  *)
(* turns, prompts, retries and barge-ins, any required fields and any of   *)
(* the intents.                                                            *)
(*                                                                         *)
(* The invariant has five parts.  TypeInv: the types, the order in which   *)
(* attempts are made, and the disconnects a memory may count (a bound that *)
(* depends on its attempt, or the retries would add up past the type).     *)
(* PolicyInv: the counters are in order unless the call is about to end,   *)
(* and a suppressed number's call waits for nothing but its last speech.   *)
(* HeardInv: the generation a turn began in, and the phrase it carries.    *)
(* OutcomeInv, if no webhook commits late: which attempts may still be     *)
(* open.  CacheInv, if no cache write fails: the cache holds the last      *)
(* checkpoint or nothing.                                                  *)
(***************************************************************************)
EXTENDS Conversation, TLAPS

\* The parts of the type invariant.
CallTypes ==
  /\ row \in [Attempts -> [state : RowStates, ended : BOOLEAN]]
  /\ session \in [Attempts -> {"none", "ACTIVE", "ENDED"}]
  /\ contact \in Statuses /\ retryOf \in {0} \cup Attempts
  /\ suppressed \in BOOLEAN
  /\ current \in {0} \cup Attempts /\ hook \in {0} \cup Attempts

MemoryTypes ==
  /\ snapshot \in [Attempts -> Memory \cup {NoMemory}]
  /\ cache \in [Attempts -> Memory \cup {NoMemory}]
  /\ memory \in Memory

TurnTypes == talk \in Talk /\ turn \in Turn

\* Attempts are made in order; what refers to one refers to one that was made;
\* a turn belongs to a conversation.
Order ==
  /\ \A a, b \in Attempts : a < b /\ row[b].state # "none" => row[a].state # "none"
  /\ \A a \in Attempts : row[a].state = "none" => session[a] = "none"
  /\ retryOf # 0 => row[retryOf].state # "none"
  /\ hook # 0 => row[hook].state # "none"
  /\ current # 0 => row[current].state # "none"
  /\ turn.at # "idle" => current # 0

\* The disconnects that memory of attempt a may count: two for each attempt
\* before it, and one of its own.
Drops(m, n) == m # NoMemory => m.drops <= n

DropInv ==
  /\ \A a \in Attempts : Drops(snapshot[a], 2 * a - 1) /\ Drops(cache[a], 2 * a - 1)
  /\ current # 0 => Drops(memory, 2 * current - 1)
  /\ Live => Drops(memory, 2 * current - 2) /\ talk.turns <= MaxTurns

TypeInv == CallTypes /\ MemoryTypes /\ TurnTypes /\ Order /\ DropInv

\* While a call goes on the last answer was not a decline and the last ones were
\* not unclear too often, unless the call is about to end; an opt-out has ended
\* it or is about to.
PolicyInv ==
  /\ Live /\ ~(turn.at = "tts" /\ Ends) => talk.declines = 0 /\ talk.unclear < MaxUnclear
  /\ suppressed => current # 0
  /\ suppressed /\ Live => turn.at = "tts" /\ turn.reason = "opt_out"

\* A phrase is heard in its turn, or a barge-in overtakes the turn.
HeardInv ==
  /\ turn.at \in {"llm", "tts"} => turn.gen <= talk.gen
  /\ turn.at = "tts" /\ turn.phrase => suppressed
  /\ OptOutHeard

\* Without late webhooks: no attempt is open but that of a conversation that
\* goes on, or one whose conversation never started.
OutcomeInv ==
  /\ \A a \in Attempts : session[a] = "ENDED" => row[a].ended
  /\ contact \in {"PENDING", "RETRY_SCHEDULED"} =>
       ~Live /\ \A a \in Attempts : row[a].state = "none" \/ row[a].ended
  /\ current # 0 => \A a \in Attempts : row[a].state = "none" \/ row[a].ended \/ (a = current /\ Live)
  /\ OptOutHonoured

CacheInv == \A a \in Attempts : cache[a] \in {NoMemory, snapshot[a]}

-----------------------------------------------------------------------------
(* The policy and the types. *)

\* What the proofs use of the constants.
LEMMA ConvConstants ==
  /\ MaxAttempts \in Nat \ {0} /\ MaxTurns \in Nat /\ MaxPrompts \in Nat
  /\ MaxLLMRetries \in Nat /\ MaxRegenerations \in Nat /\ MaxInterrupts \in Nat
  /\ MaxDeclines \in Nat /\ MaxUnclear \in Nat \ {0}
  BY ConversationAssumption

\* The type invariant is its three parts.
LEMMA TypeParts == ConvTypeOK <=> CallTypes /\ MemoryTypes /\ TurnTypes
  BY DEF ConvTypeOK, CallTypes, MemoryTypes, TurnTypes

\* No snapshot is distinct from every snapshot.
LEMMA NoMemoryIsNone == NoMemory \notin Memory /\ FreshMemory \in Memory
<1>1. \A m \in Memory : m.phase \in Phases
  BY DEF Memory
<1>2. NoMemory.phase \notin Phases
  BY DEF NoMemory, Phases
<1>3. FreshMemory \in Memory
  BY ConvConstants DEF FreshMemory, Memory, Phases
<1> QED BY <1>1, <1>2, <1>3

\* Routing leads to a phase, and a decline leads to the wrap-up from every phase.
LEMMA RouteToPhase ==
  ASSUME NEW phase \in Phases, NEW intent \in Intents, NEW pending \in BOOLEAN
  PROVE  /\ Route(phase, intent, pending) \in Phases
         /\ intent = "negative" => Route(phase, intent, pending) = "wrap_up"
<1>1. CASE phase # "wrap_up" /\ intent \in Leaving
  BY <1>1 DEF Route, Phases
<1>2. CASE ~(phase # "wrap_up" /\ intent \in Leaving)
  <2>1. Route(phase, intent, pending) \in Phases
    BY <1>2 DEF Route, Phases
  <2>2. intent = "negative" => phase = "wrap_up"
    BY <1>2 DEF Leaving
  <2>3. phase = "wrap_up" => Route(phase, intent, pending) = "wrap_up"
    BY <1>2 DEF Route
  <2> QED BY <2>1, <2>2, <2>3
<1> QED BY <1>1, <1>2

\* What the policy promises of an answer: a decline or an unclear answer at the
\* limit ends the call, and so does an opt-out phrase, whatever the model says.
LEMMA PolicyDecides ==
  ASSUME NEW phase \in Phases, NEW o \in LLMOutput, NEW phrase \in BOOLEAN,
         NEW declines \in Nat, NEW unclear \in Nat, NEW pending \in BOOLEAN,
         NEW d, d = Decide(phase, o, phrase, declines, unclear, pending)
  PROVE  /\ d \in Decision
         /\ o.intent = "negative" => d.reason # "none"
         /\ o.intent = "unclear" /\ unclear >= MaxUnclear => d.reason # "none"
         /\ phrase => d.reason = "opt_out"
<1> DEFINE next == Route(phase, o.intent, pending)
<1>0. o.intent \in Intents /\ o.ending \in Endings /\ o.optout \in BOOLEAN
  BY DEF LLMOutput
<1>1. CASE OptOut(o, phrase)
  <2>1. d = WrapUp("opt_out")
    BY <1>1 DEF Decide
  <2> QED BY <2>1 DEF WrapUp, Decision, Phases, Reasons
<1>2. CASE ~OptOut(o, phrase) /\ o.ending # "no"
  <2>1. d = WrapUp(o.ending)
    BY <1>2 DEF Decide
  <2>2. o.ending \in Reasons /\ o.ending # "none"
    BY <1>0, <1>2 DEF Reasons, Endings
  <2> QED BY <1>2, <2>1, <2>2 DEF WrapUp, Decision, Phases, OptOut
<1>3. CASE /\ ~OptOut(o, phrase) /\ o.ending = "no"
           /\ o.intent = "negative" /\ declines >= MaxDeclines
  <2>1. d = WrapUp("repeated_decline")
    BY <1>3 DEF Decide
  <2> QED BY <1>3, <2>1 DEF WrapUp, Decision, Phases, Reasons, OptOut
<1>4. CASE /\ ~OptOut(o, phrase) /\ o.ending = "no"
           /\ o.intent = "unclear" /\ unclear >= MaxUnclear
  <2>1. d = WrapUp("repeated_unclear")
    BY <1>4 DEF Decide
  <2> QED BY <1>4, <2>1 DEF WrapUp, Decision, Phases, Reasons, OptOut
<1>5. CASE /\ ~OptOut(o, phrase) /\ o.ending = "no"
           /\ ~(o.intent = "negative" /\ declines >= MaxDeclines)
           /\ ~(o.intent = "unclear" /\ unclear >= MaxUnclear)
  <2>1. d = [phase |-> next, reason |-> IF next = "wrap_up" THEN "wrap_up" ELSE "none"]
    BY <1>5 DEF Decide
  <2>2. next \in Phases /\ (o.intent = "negative" => next = "wrap_up")
    BY <1>0, RouteToPhase
  <2> QED BY <1>5, <2>1, <2>2 DEF Decision, Reasons, OptOut
<1> QED BY <1>1, <1>2, <1>3, <1>4, <1>5

\* A turn works with outputs of the model or with the fallback.
LEMMA AnswersAreOutputs == \A o \in Answers : o \in LLMOutput
<1>1. Fallback \in LLMOutput
  BY DEF Fallback, LLMOutput, Intents, Endings
<1> QED BY <1>1 DEF Answers

\* What _apply_output does to memory, counters and turn.
LEMMA ApplyEffect ==
  ASSUME MemoryTypes, TurnTypes, NEW o \in LLMOutput, Apply(o)
  PROVE  /\ memory' \in Memory /\ memory'.drops = memory.drops
         /\ talk' \in Talk /\ talk'.gen = talk.gen /\ talk'.turns = talk.turns
         /\ turn' \in Turn /\ turn'.at = "tts" /\ turn'.gen = turn.gen /\ turn'.phrase = turn.phrase
         /\ turn'.reason = "none" => talk'.declines = 0 /\ talk'.unclear < MaxUnclear
         /\ turn.phrase => turn'.reason = "opt_out"
         /\ suppressed' = (suppressed \/ turn'.reason = "opt_out")
         /\ contact' = IF turn'.reason = "opt_out" THEN "CLOSED" ELSE contact
<1> DEFINE declines == Count(talk.declines, o.intent = "negative")
           unclear  == Count(talk.unclear, o.intent = "unclear")
           pending  == memory.pending \ o.captured
           d == Decide(memory.phase, o, turn.phrase, declines, unclear, pending # {})
<1>1. /\ memory' = [memory EXCEPT !.pending = pending, !.phase = d.phase]
      /\ talk' = [talk EXCEPT !.declines = declines, !.unclear = unclear]
      /\ suppressed' = (suppressed \/ d.reason = "opt_out")
      /\ contact' = IF d.reason = "opt_out" THEN "CLOSED" ELSE contact
      /\ turn' = [turn EXCEPT !.at = "tts", !.reason = d.reason]
  BY DEF Apply
<1>2. declines \in Nat /\ (o.intent # "negative" => declines = 0)
  BY DEF TurnTypes, Talk, Count
<1>3. unclear \in Nat /\ (o.intent # "unclear" => unclear = 0)
  BY DEF TurnTypes, Talk, Count
<1>4. memory.phase \in Phases /\ turn.phrase \in BOOLEAN /\ (pending # {}) \in BOOLEAN
  BY DEF TurnTypes, Turn, MemoryTypes, Memory
<1>5. /\ d \in Decision
      /\ o.intent = "negative" => d.reason # "none"
      /\ o.intent = "unclear" /\ unclear >= MaxUnclear => d.reason # "none"
      /\ turn.phrase => d.reason = "opt_out"
  <2> DEFINE some == pending # {}
             ph == memory.phase
             said == turn.phrase
  <2>1. d = Decide(ph, o, said, declines, unclear, some)
    OBVIOUS
  <2>2. ph \in Phases /\ said \in BOOLEAN /\ some \in BOOLEAN
    BY <1>4
  <2> HIDE DEF declines, unclear, d, some, ph, said
  <2>3. /\ d \in Decision
        /\ o.intent = "negative" => d.reason # "none"
        /\ o.intent = "unclear" /\ unclear >= MaxUnclear => d.reason # "none"
        /\ said => d.reason = "opt_out"
    BY <1>2, <1>3, <2>1, <2>2, PolicyDecides
  <2> QED BY <2>3 DEF said
<1>6. pending \in SUBSET Fields
  BY DEF MemoryTypes, Memory
<1> HIDE DEF declines, unclear, pending, d
<1>7. memory' \in Memory /\ memory'.drops = memory.drops
  BY <1>1, <1>5, <1>6 DEF MemoryTypes, Memory, Decision
<1>8. /\ talk' \in Talk /\ talk'.gen = talk.gen /\ talk'.turns = talk.turns
      /\ talk'.declines = declines /\ talk'.unclear = unclear
  BY <1>1, <1>2, <1>3 DEF TurnTypes, Talk
<1>9. /\ turn' \in Turn /\ turn'.at = "tts" /\ turn'.gen = turn.gen
      /\ turn'.phrase = turn.phrase /\ turn'.reason = d.reason
  BY <1>1, <1>5 DEF TurnTypes, Turn, Decision
<1>10. d.reason = "none" => declines = 0 /\ unclear < MaxUnclear
  BY <1>2, <1>3, <1>5, ConvConstants
<1> QED BY <1>1, <1>5, <1>7, <1>8, <1>9, <1>10

\* A turn that is over, and the fresh values.
LEMMA OverIsTurn ==
  ASSUME TurnTypes
  PROVE  /\ Over(turn) \in Turn /\ Over(turn).at = "idle" /\ Over(turn).reason = "none"
         /\ Over(turn).phrase = turn.phrase
         /\ turn.phrase => Over(turn).gen = turn.gen
         /\ Idle \in Turn /\ Idle.at = "idle" /\ Idle.phrase = FALSE /\ FreshTalk \in Talk
<1>1. /\ turn.phrase \in BOOLEAN /\ turn.gen \in 0 .. MaxInterrupts /\ 0 \in 0 .. MaxInterrupts
      /\ 0 \in 0 .. MaxLLMRetries /\ 0 \in 0 .. MaxRegenerations /\ 0 \in 0 .. MaxPrompts
      /\ 0 \in 0 .. (MaxTurns + 1)
  BY ConvConstants DEF TurnTypes, Turn
<1>2. Idle \in Turn /\ Idle.at = "idle" /\ Idle.phrase = FALSE /\ FreshTalk \in Talk
  BY <1>1 DEF Idle, Turn, FreshTalk, Talk
<1>3. /\ Over(turn).at = "idle" /\ Over(turn).reason = "none" /\ Over(turn).phrase = turn.phrase
      /\ turn.phrase => Over(turn).gen = turn.gen
  BY DEF Over, Idle
<1>4. Over(turn) \in Turn
  <2> DEFINE g == IF turn.phrase THEN turn.gen ELSE 0
             f == turn.phrase
  <2>1. g \in 0 .. MaxInterrupts /\ f \in BOOLEAN
    BY <1>1
  <2>2. Over(turn) = [Idle EXCEPT !.phrase = f, !.gen = g]
    BY DEF Over
  <2> HIDE DEF g, f
  <2> QED BY <1>2, <2>1, <2>2 DEF Turn
<1> QED BY <1>2, <1>3, <1>4

\* Counters and turns stay in their types; turns are bounded because a call that
\* has had all its turns is over.
LEMMA TurnTypesStep ==
  ASSUME TypeInv, ConvNext
  PROVE  TurnTypes'
<1>0. TurnTypes /\ MemoryTypes
  BY DEF TypeInv
<1>1. ASSUME NEW a \in Attempts, CallAccepted(a) \/ \E r, l \in BOOLEAN : CallRefused(a, r, l)
      PROVE  TurnTypes'
  BY <1>0, <1>1, OverIsTurn DEF CallAccepted, CallRefused, TurnTypes
<1>2. CASE UNCHANGED <<talk, turn>>
  BY <1>0, <1>2 DEF TurnTypes
<1>3. ASSUME NEW phrase \in BOOLEAN, NEW late \in BOOLEAN, Utterance(phrase, late)
      PROVE  TurnTypes'
  <2>1. talk.turns <= MaxTurns /\ talk.turns \in 0 .. (MaxTurns + 1) /\ 0 \in 0 .. MaxPrompts
    BY <1>0, <1>3, ConvConstants DEF Utterance, TypeInv, DropInv, TurnTypes, Talk
  <2>2. talk.turns + 1 \in 0 .. (MaxTurns + 1)
    BY <2>1, ConvConstants
  <2>3. talk' = [talk EXCEPT !.turns = @ + 1] \/ talk' = [talk EXCEPT !.turns = @ + 1, !.prompts = 0]
    BY <1>3 DEF Utterance
  <2>4. talk' \in Talk
    BY <1>0, <2>1, <2>2, <2>3 DEF TurnTypes, Talk
  <2>5. CASE turn' = Over(turn)
    BY <1>0, <2>4, <2>5, OverIsTurn DEF TurnTypes
  <2>6. CASE turn' = [Idle EXCEPT !.at = "llm", !.gen = talk.gen, !.phrase = phrase]
    <3>1. turn' \in Turn
      BY <1>0, <2>6, OverIsTurn DEF TurnTypes, Turn, Talk
    <3> QED BY <2>4, <3>1 DEF TurnTypes
  <2> QED BY <1>3, <2>5, <2>6 DEF Utterance
<1>4. CASE BargeIn
  BY <1>0, <1>4, ConvConstants DEF BargeIn, TurnTypes, Talk
<1>5. CASE LLMFails
  <2>1. turn.tries + 1 \in 0 .. MaxLLMRetries
    BY <1>0, <1>5, ConvConstants DEF LLMFails, TurnTypes, Turn
  <2>2. turn' \in Turn
    BY <1>0, <1>5, <2>1 DEF LLMFails, TurnTypes, Turn
  <2> QED BY <1>0, <1>5, <2>2 DEF LLMFails, TurnTypes
<1>6. CASE LLMInvalid
  <2>1. turn.redos + 1 \in 0 .. MaxRegenerations /\ 0 \in 0 .. MaxLLMRetries
    BY <1>0, <1>6, ConvConstants DEF LLMInvalid, TurnTypes, Turn
  <2>2. turn' \in Turn
    BY <1>0, <1>6, <2>1 DEF LLMInvalid, TurnTypes, Turn
  <2> QED BY <1>0, <1>6, <2>2 DEF LLMInvalid, TurnTypes
<1>7. ASSUME NEW o \in Answers, LLMAnswers(o)
      PROVE  TurnTypes'
  <2>1. CASE Apply(o)
    BY <1>0, <2>1, ApplyEffect, AnswersAreOutputs DEF TurnTypes
  <2>2. CASE turn' = Over(turn) /\ talk' = talk
    BY <1>0, <2>2, OverIsTurn DEF TurnTypes
  <2> QED BY <1>7, <2>1, <2>2 DEF LLMAnswers
<1>8. CASE Spoken
  BY <1>0, <1>8, OverIsTurn DEF Spoken, TurnTypes
<1>9. CASE PromptSpoken
  <2>1. turn' \in Turn
    BY <1>0, <1>9 DEF PromptSpoken, TurnTypes, Turn
  <2> QED BY <1>0, <1>9, <2>1 DEF PromptSpoken, TurnTypes
<1>10. CASE Silence
  <2>1. CASE MayPrompt
    <3>1. talk' \in Talk
      BY <1>0, <1>10, <2>1, ConvConstants DEF Silence, MayPrompt, TurnTypes, Talk
    <3>2. turn' \in Turn
      BY <1>0, <1>10, <2>1 DEF Silence, TurnTypes, Turn
    <3> QED BY <3>1, <3>2 DEF TurnTypes
  <2>2. CASE ~MayPrompt
    BY <1>0, <1>10, <2>2, OverIsTurn DEF Silence, TurnTypes
  <2> QED BY <2>1, <2>2
<1> QED BY <1>1, <1>2, <1>3, <1>4, <1>5, <1>6, <1>7, <1>8, <1>9, <1>10
        DEF ConvNext, Place, Webhook, Customer, Agent, HookLoad, HookCommit, Disconnect, CacheLoss

\* A recovery decision keeps the caller's status, schedules a retry or gives up;
\* a suppressed number keeps the caller's status.
LEMMA RecoverEffect ==
  ASSUME NEW a \in Attempts, NEW status \in Statuses, NEW allowed, Recover(a, status, allowed)
  PROVE  /\ contact' \in {status, "RETRY_SCHEDULED", "COMPLETED_PARTIAL"} /\ contact' \in Statuses
         /\ retryOf' \in {0, a}
         /\ suppressed => contact' = status
  BY DEF Recover, Statuses

\* What the end of a conversation changes.
LEMMA EndEffect ==
  ASSUME CallTypes, NEW m, NEW reason, EndConversation(m, reason)
  PROVE  /\ session' \in [Attempts -> {"none", "ACTIVE", "ENDED"}]
         /\ row' \in [Attempts -> [state : RowStates, ended : BOOLEAN]]
         /\ contact' \in Statuses
         /\ \A a \in Attempts : IF a = current /\ Live
                                THEN /\ session'[a] = "ENDED"
                                     /\ row'[a].state = "ENDED_NORMALLY" /\ row'[a].ended = TRUE
                                ELSE session'[a] = session[a] /\ row'[a] = row[a]
         /\ Live => contact' = EndStatus(m, reason)
         /\ ~Live => contact' = contact
<1>1. EndStatus(m, reason) \in Statuses
  BY DEF EndStatus, Statuses
<1>2. CASE Live
  <2>1. current \in Attempts
    BY <1>2 DEF Live, CallTypes
  <2>2. /\ session' = [session EXCEPT ![current] = "ENDED"]
        /\ row' = [row EXCEPT ![current] = [state |-> "ENDED_NORMALLY", ended |-> TRUE]]
        /\ contact' = EndStatus(m, reason)
    BY <1>2 DEF EndConversation
  <2> QED BY <1>1, <1>2, <2>1, <2>2 DEF CallTypes, RowStates
<1>3. CASE ~Live
  BY <1>3 DEF EndConversation, CallTypes
<1> QED BY <1>2, <1>3

\* The rows, the session and the status stay in their types.
LEMMA CallTypesStep ==
  ASSUME TypeInv, ConvNext
  PROVE  CallTypes'
<1>0. CallTypes /\ TurnTypes /\ MemoryTypes
  BY DEF TypeInv
<1>1. ASSUME NEW a \in Attempts, CallAccepted(a)
      PROVE  CallTypes'
  <2>1. row' \in [Attempts -> [state : RowStates, ended : BOOLEAN]]
    BY <1>0, <1>1 DEF CallAccepted, CallTypes, RowStates
  <2> QED BY <1>0, <1>1, <2>1 DEF CallAccepted, CallTypes, Statuses
<1>2. ASSUME NEW a \in Attempts, NEW r, NEW l, CallRefused(a, r, l)
      PROVE  CallTypes'
  <2>1. row' \in [Attempts -> [state : RowStates, ended : BOOLEAN]]
    BY <1>0, <1>2 DEF CallRefused, CallTypes, RowStates
  <2>2. contact' \in Statuses /\ retryOf' \in {0, a}
    BY <1>2, RecoverEffect DEF CallRefused, Statuses
  <2> QED BY <1>0, <1>2, <2>1, <2>2 DEF CallRefused, CallTypes
<1>3. ASSUME NEW a \in Attempts, HookLoad(a)
      PROVE  CallTypes'
  BY <1>0, <1>3 DEF HookLoad, CallTypes
<1>4. ASSUME NEW x, HookCommit(x)
      PROVE  CallTypes'
  <2>1. row' \in [Attempts -> [state : RowStates, ended : BOOLEAN]]
    <3>1. row \in [Attempts -> [state : RowStates, ended : BOOLEAN]] /\ hook \in Attempts
      BY <1>0, <1>4 DEF HookCommit, CallTypes
    <3>2. [state |-> "FAILED_TO_CONNECT", ended |-> TRUE] \in [state : RowStates, ended : BOOLEAN]
      BY DEF RowStates
    <3>3. [row EXCEPT ![hook].state = "CONNECTED"] \in [Attempts -> [state : RowStates, ended : BOOLEAN]]
      BY <3>1 DEF RowStates
    <3>4. [row EXCEPT ![hook] = [state |-> "FAILED_TO_CONNECT", ended |-> TRUE]]
            \in [Attempts -> [state : RowStates, ended : BOOLEAN]]
      BY <3>1, <3>2
    <3> QED BY <1>4, <3>1, <3>3, <3>4 DEF HookCommit
  <2> QED BY <1>0, <1>4, <2>1 DEF HookCommit, CallTypes, Statuses
<1>5. ASSUME NEW l, Disconnect(l)
      PROVE  CallTypes'
  <2>1. current \in Attempts
    BY <1>0, <1>5 DEF Disconnect, Live, CallTypes
  <2>2. contact' \in Statuses /\ retryOf' \in {0, current}
    BY <1>5, <2>1, RecoverEffect DEF Disconnect, Statuses
  <2>3. row' \in [Attempts -> [state : RowStates, ended : BOOLEAN]]
    BY <1>0, <1>5 DEF Disconnect, CallTypes, RowStates
  <2> QED BY <1>0, <1>5, <2>1, <2>2, <2>3 DEF Disconnect, CallTypes
<1>6. ASSUME NEW m, NEW reason, EndConversation(m, reason),
             UNCHANGED <<retryOf, suppressed, current, hook>>
      PROVE  CallTypes'
  BY <1>0, <1>6, EndEffect DEF CallTypes
<1>7. CASE UNCHANGED <<row, session, contact, retryOf, suppressed, current, hook>>
  BY <1>0, <1>7 DEF CallTypes
<1>8. ASSUME NEW o \in Answers, LLMAnswers(o)
      PROVE  CallTypes'
  <2>1. CASE Apply(o)
    <3>1. contact' \in Statuses
      BY <1>0, <2>1, ApplyEffect, AnswersAreOutputs DEF CallTypes, Statuses
    <3>2. suppressed' \in BOOLEAN
      BY <1>0, <2>1, ApplyEffect, AnswersAreOutputs DEF CallTypes
    <3> QED BY <1>0, <1>8, <3>1, <3>2 DEF LLMAnswers, CallTypes
  <2>2. CASE ~Apply(o)
    BY <1>0, <1>7, <1>8, <2>2 DEF LLMAnswers
  <2> QED BY <2>1, <2>2
<1>9. ASSUME NEW p, NEW l, Utterance(p, l)
      PROVE  CallTypes'
  BY <1>6, <1>7, <1>9 DEF Utterance
<1>10. CASE Spoken
  BY <1>6, <1>7, <1>10 DEF Spoken
<1>11. CASE Silence
  BY <1>6, <1>7, <1>11 DEF Silence
<1> QED BY <1>1, <1>2, <1>3, <1>4, <1>5, <1>7, <1>8, <1>9, <1>10, <1>11
        DEF ConvNext, Place, Webhook, Customer, Agent, BargeIn, LLMFails, LLMInvalid, PromptSpoken,
            CacheLoss

-----------------------------------------------------------------------------
(* Working memory. *)

\* A checkpoint keeps the types and the bound on disconnects.
LEMMA CheckpointEffect ==
  ASSUME MemoryTypes, DropInv, current \in Attempts, NEW m \in Memory, m.drops <= 2 * current - 1,
         Checkpoint(m)
  PROVE  /\ snapshot' \in [Attempts -> Memory \cup {NoMemory}]
         /\ cache' \in [Attempts -> Memory \cup {NoMemory}]
         /\ \A a \in Attempts : Drops(snapshot'[a], 2 * a - 1) /\ Drops(cache'[a], 2 * a - 1)
<1>1. \A a \in Attempts : snapshot'[a] = IF a = current THEN m ELSE snapshot[a]
  BY DEF Checkpoint, MemoryTypes
<1>2. \A a \in Attempts : cache'[a] = cache[a] \/ (a = current /\ cache'[a] = m)
  BY DEF Checkpoint, MemoryTypes
<1>3. /\ snapshot' \in [Attempts -> Memory \cup {NoMemory}]
      /\ cache' \in [Attempts -> Memory \cup {NoMemory}]
  BY DEF Checkpoint, MemoryTypes
<1> QED BY <1>1, <1>2, <1>3 DEF DropInv, Drops

\* Memory counts its disconnects.
LEMMA MemoryDrops == \A m \in Memory : m.drops \in Nat /\ \A n : Drops(m, n) <=> m.drops <= n
<1>1. \A m \in Memory : m.drops \in Nat
  BY ConvConstants DEF Memory
<1> QED BY <1>1, NoMemoryIsNone DEF Drops

\* The attempt a retry resumes came before the attempt that is placed.
LEMMA RetryOfEarlier ==
  ASSUME CallTypes, Order, NEW a \in Attempts, Dialable(a), retryOf # 0
  PROVE  retryOf \in Attempts /\ retryOf < a
<1>1. retryOf \in Attempts /\ row[retryOf].state # "none" /\ row[a].state = "none"
  BY DEF CallTypes, Order, Dialable
<1>2. retryOf \in Int /\ a \in Int
  BY <1>1, ConvConstants DEF Attempts
<1> QED BY <1>1, <1>2 DEF Order

\* The memory a conversation starts with: one disconnect more than the memory
\* of the earlier attempt it resumes.
LEMMA StartEffect ==
  ASSUME TypeInv, NEW a \in Attempts, Dialable(a)
  PROVE  StartMemory(a, retryOf) \in Memory /\ StartMemory(a, retryOf).drops <= 2 * a - 2
<1> DEFINE found == LoadLatest(MemorySource(a, retryOf))
<1>0. a \in 1 .. MaxAttempts /\ MaxAttempts \in Nat
  BY ConvConstants DEF Attempts
<1>1. CASE retryOf # 0 /\ found # NoMemory
  <2>1. retryOf \in Attempts /\ retryOf < a /\ MemorySource(a, retryOf) = retryOf
    BY <1>1, RetryOfEarlier DEF TypeInv, MemorySource
  <2>2. found \in Memory /\ Drops(found, 2 * retryOf - 1)
    BY <1>1, <2>1 DEF LoadLatest, TypeInv, MemoryTypes, DropInv
  <2>3. StartMemory(a, retryOf) = [found EXCEPT !.drops = @ + 1]
    BY <1>1 DEF StartMemory
  <2> HIDE DEF found
  <2>4. found.drops \in Nat /\ found.drops <= 2 * retryOf - 1
    BY <2>2, MemoryDrops
  <2>5. retryOf \in Nat
    BY <2>1 DEF Attempts
  <2>6. found.drops + 1 <= 2 * a - 2 /\ found.drops + 1 \in 0 .. (2 * MaxAttempts)
    BY <1>0, <2>1, <2>4, <2>5
  <2> QED BY <2>2, <2>3, <2>6 DEF Memory
<1>2. CASE ~(retryOf # 0 /\ found # NoMemory)
  <2>1. StartMemory(a, retryOf) = FreshMemory
    BY <1>2 DEF StartMemory
  <2>2. FreshMemory.drops = 0
    BY DEF FreshMemory
  <2> QED BY <1>0, <2>1, <2>2, NoMemoryIsNone
<1> QED BY <1>1, <1>2

\* A step that leaves the memory alone keeps the bound on disconnects.
LEMMA DropsKept ==
  ASSUME TypeInv, current' = current, memory' \in Memory, memory'.drops = memory.drops,
         Live' => Live /\ talk'.turns <= MaxTurns,
         UNCHANGED <<snapshot, cache>> \/ (current # 0 /\ Checkpoint(memory'))
  PROVE  MemoryTypes' /\ DropInv'
<1>1. memory \in Memory /\ (current # 0 => memory.drops <= 2 * current - 1)
      /\ (Live => memory.drops <= 2 * current - 2)
  BY MemoryDrops DEF TypeInv, MemoryTypes, DropInv
<1>2. /\ snapshot' \in [Attempts -> Memory \cup {NoMemory}]
      /\ cache' \in [Attempts -> Memory \cup {NoMemory}]
      /\ \A a \in Attempts : Drops(snapshot'[a], 2 * a - 1) /\ Drops(cache'[a], 2 * a - 1)
  <2>1. CASE UNCHANGED <<snapshot, cache>>
    BY <2>1 DEF TypeInv, MemoryTypes, DropInv
  <2>2. CASE current # 0 /\ Checkpoint(memory')
    <3>1. current \in Attempts
      BY <2>2 DEF TypeInv, CallTypes
    <3> QED BY <1>1, <2>2, <3>1, CheckpointEffect DEF TypeInv
  <2> QED BY <2>1, <2>2
<1>3. /\ current' # 0 => Drops(memory', 2 * current' - 1)
      /\ Live' => Drops(memory', 2 * current' - 2) /\ talk'.turns <= MaxTurns
  BY <1>1, MemoryDrops
<1> QED BY <1>2, <1>3 DEF MemoryTypes, DropInv

\* The steps of a conversation that goes on or ends, disconnects apart.
Within ==
  \/ \E p, l \in BOOLEAN : Utterance(p, l)
  \/ BargeIn \/ LLMFails \/ LLMInvalid \/ Spoken \/ PromptSpoken \/ Silence
  \/ \E o \in Answers : LLMAnswers(o)

\* Such a step revives no call.
LEMMA WithinLive ==
  ASSUME TypeInv, Within
  PROVE  current' = current /\ (Live' => Live) /\ hook' = hook /\ retryOf' = retryOf
<1>1. UNCHANGED <<current, hook, retryOf>>
  BY DEF Within, Utterance, BargeIn, LLMFails, LLMInvalid, Spoken, PromptSpoken, Silence, LLMAnswers
<1>2. current # 0 => current \in Attempts
  BY DEF TypeInv, CallTypes
<1>3. ASSUME NEW m, NEW reason, EndConversation(m, reason)
      PROVE  \A a \in Attempts : session'[a] \in {session[a], "ENDED"}
  BY <1>3, EndEffect DEF TypeInv
<1>4. \A a \in Attempts : session'[a] \in {session[a], "ENDED"}
  BY <1>3 DEF Within, Utterance, BargeIn, LLMFails, LLMInvalid, Spoken, PromptSpoken, Silence, LLMAnswers
<1> QED BY <1>1, <1>2, <1>4 DEF Live

\* A turn keeps the types of memory and the bound on disconnects.
LEMMA WithinDrops ==
  ASSUME TypeInv, Within
  PROVE  MemoryTypes' /\ DropInv'
<1>0. memory \in Memory /\ talk \in Talk /\ (Live => talk.turns <= MaxTurns)
  BY DEF TypeInv, MemoryTypes, TurnTypes, DropInv
<1>1. current' = current /\ (Live' => Live)
  BY WithinLive
<1>2. memory' \in Memory /\ memory'.drops = memory.drops
  <2>1. ASSUME NEW o \in Answers, Apply(o)
        PROVE  memory' \in Memory /\ memory'.drops = memory.drops
    BY <2>1, ApplyEffect, AnswersAreOutputs DEF TypeInv
  <2> QED BY <1>0, <2>1
          DEF Within, Utterance, BargeIn, LLMFails, LLMInvalid, Spoken, PromptSpoken, Silence, LLMAnswers
<1>3. Live' => talk'.turns <= MaxTurns
  <2>1. ASSUME NEW p, NEW l, Utterance(p, l), Live'
        PROVE  talk'.turns <= MaxTurns
    <3>1. current \in Attempts /\ Live
      BY <2>1 DEF Utterance, Live, TypeInv, CallTypes
    <3>2. ~EndConversation(memory, "max_reached")
      BY <1>1, <2>1, <3>1, EndEffect DEF Live, TypeInv
    <3>3. talk.turns + 1 <= MaxTurns /\ talk' = [talk EXCEPT !.turns = @ + 1, !.prompts = 0]
      BY <1>0, <2>1, <3>2, ConvConstants DEF Utterance, Talk
    <3> QED BY <1>0, <3>3 DEF Talk
  <2>2. ASSUME NEW o \in Answers, LLMAnswers(o)
        PROVE  talk'.turns = talk.turns
    BY <2>2, ApplyEffect, AnswersAreOutputs DEF LLMAnswers, TypeInv
  <2>3. CASE BargeIn \/ Silence
    BY <1>0, <1>1, <2>3 DEF BargeIn, Silence, Talk
  <2> QED BY <1>0, <1>1, <2>1, <2>2, <2>3 DEF Within, LLMFails, LLMInvalid, Spoken, PromptSpoken
<1>4. UNCHANGED <<snapshot, cache>> \/ (current # 0 /\ Checkpoint(memory'))
  <2>1. ASSUME NEW p, NEW l, Utterance(p, l)
        PROVE  UNCHANGED <<snapshot, cache>> \/ (current # 0 /\ Checkpoint(memory'))
    BY <2>1 DEF Utterance, Live
  <2>2. CASE Spoken
    BY <2>2 DEF Spoken, TypeInv, Order
  <2>3. CASE Silence
    BY <2>3 DEF Silence, Live
  <2> QED BY <2>1, <2>2, <2>3 DEF Within, BargeIn, LLMFails, LLMInvalid, PromptSpoken, LLMAnswers
<1> QED BY <1>1, <1>2, <1>3, <1>4, DropsKept

\* Every step keeps the types of memory and the bound on disconnects.
LEMMA DropsStep ==
  ASSUME TypeInv, ConvNext
  PROVE  MemoryTypes' /\ DropInv'
<1>1. ASSUME NEW a \in Attempts, CallAccepted(a) \/ \E r, l \in BOOLEAN : CallRefused(a, r, l)
      PROVE  MemoryTypes' /\ DropInv'
  <2>1. UNCHANGED <<snapshot, cache>> /\ talk' = FreshTalk /\ FreshTalk.turns = 0
    BY <1>1 DEF CallAccepted, CallRefused, FreshTalk
  <2>2. \/ current' = 0 /\ memory' = FreshMemory
        \/ Dialable(a) /\ current' = a /\ memory' = StartMemory(a, retryOf)
    BY <1>1 DEF CallAccepted, CallRefused
  <2>3. memory' \in Memory /\ (current' # 0 => current' = a /\ memory'.drops <= 2 * a - 2)
    BY <2>2, StartEffect, NoMemoryIsNone
  <2>4. a \in Nat
    BY DEF Attempts
  <2>5. /\ current' # 0 => Drops(memory', 2 * current' - 1)
        /\ Live' => Drops(memory', 2 * current' - 2) /\ talk'.turns <= MaxTurns
    BY <2>1, <2>3, <2>4, MemoryDrops, ConvConstants DEF Live
  <2> QED BY <2>1, <2>3, <2>5 DEF TypeInv, MemoryTypes, DropInv
<1>2. ASSUME NEW l, Disconnect(l)
      PROVE  MemoryTypes' /\ DropInv'
  <2>1. current \in Attempts /\ current \in 1 .. MaxAttempts /\ MaxAttempts \in Nat
    BY <1>2, ConvConstants DEF Disconnect, Live, TypeInv, CallTypes, Attempts
  <2>2. memory \in Memory /\ memory.drops \in Nat /\ memory.drops <= 2 * current - 2
    BY <1>2, MemoryDrops DEF Disconnect, TypeInv, MemoryTypes, DropInv
  <2>3. memory.drops + 1 \in 0 .. (2 * MaxAttempts) /\ memory.drops + 1 <= 2 * current - 1
    BY <2>1, <2>2
  <2>4. memory' \in Memory /\ memory'.drops <= 2 * current - 1 /\ current' = current
    BY <1>2, <2>2, <2>3 DEF Disconnect, Memory
  <2>5. ~Live'
    BY <1>2, <2>1 DEF Disconnect, Live, TypeInv, CallTypes
  <2>6. /\ snapshot' \in [Attempts -> Memory \cup {NoMemory}]
        /\ cache' \in [Attempts -> Memory \cup {NoMemory}]
        /\ \A a \in Attempts : Drops(snapshot'[a], 2 * a - 1) /\ Drops(cache'[a], 2 * a - 1)
    BY <1>2, <2>1, <2>4, CheckpointEffect DEF Disconnect, TypeInv
  <2> QED BY <2>4, <2>5, <2>6, MemoryDrops DEF MemoryTypes, DropInv
<1>3. ASSUME NEW a \in Attempts, CacheLoss(a)
      PROVE  MemoryTypes' /\ DropInv'
  <2>1. /\ UNCHANGED <<snapshot, current, memory, talk, session>>
        /\ \A b \in Attempts : cache'[b] = cache[b] \/ cache'[b] = NoMemory
    BY <1>3 DEF CacheLoss, TypeInv, MemoryTypes
  <2>2. cache' \in [Attempts -> Memory \cup {NoMemory}]
    BY <1>3 DEF CacheLoss, TypeInv, MemoryTypes
  <2> QED BY <2>1, <2>2 DEF TypeInv, MemoryTypes, DropInv, Live, Drops
<1>4. CASE Webhook
  <2>1. UNCHANGED <<snapshot, cache, current, memory, talk, session>>
    BY <1>4 DEF Webhook, HookLoad, HookCommit
  <2> QED BY <2>1 DEF TypeInv, MemoryTypes, DropInv, Live
<1> QED BY <1>1, <1>2, <1>3, <1>4, WithinDrops DEF ConvNext, Place, Customer, Agent, Within

-----------------------------------------------------------------------------
(* The order of attempts. *)

\* What a step does to the rows and sessions: attempts are placed in order, no
\* row disappears, and only a placed attempt gets a session.
LEMMA RowsStep ==
  ASSUME TypeInv, ConvNext, NEW b \in Attempts
  PROVE  /\ row[b].state # "none" => row'[b].state # "none"
         /\ row[b].state = "none" /\ row'[b].state # "none" => Dialable(b)
         /\ session[b] = "none" /\ session'[b] # "none" => row'[b].state # "none"
<1>0. CallTypes /\ Order
  BY DEF TypeInv
<1>1. ASSUME NEW a \in Attempts, CallAccepted(a) \/ \E r, l \in BOOLEAN : CallRefused(a, r, l)
      PROVE  /\ Dialable(a) /\ row'[a].state # "none" /\ (b # a => row'[b] = row[b])
             /\ session'[b] = session[b] \/ b = a
  BY <1>0, <1>1 DEF CallAccepted, CallRefused, CallTypes
<1>2. CASE Within
  <2>1. ASSUME NEW m, NEW reason, EndConversation(m, reason)
        PROVE  /\ row'[b] = row[b] \/ row'[b].state # "none"
               /\ row'[b] # row[b] => b = current
               /\ session'[b] = session[b] \/ b = current
    BY <1>0, <2>1, EndEffect
  <2>2. /\ row'[b] = row[b] \/ row'[b].state # "none"
        /\ row'[b] # row[b] => b = current
        /\ session'[b] = session[b] \/ b = current
    BY <1>2, <2>1
       DEF Within, Utterance, BargeIn, LLMFails, LLMInvalid, Spoken, PromptSpoken, Silence, LLMAnswers
  <2>3. current = b => row[b].state # "none"
    BY <1>0 DEF Order, Attempts
  <2> QED BY <1>0, <2>2, <2>3 DEF Order
<1>3. ASSUME NEW l, Disconnect(l)
      PROVE  /\ (row'[b].state # "none" /\ b = current) \/ (row'[b] = row[b] /\ session'[b] = session[b])
             /\ row[current].state # "none"
  BY <1>0, <1>3 DEF Disconnect, Live, CallTypes, Order
<1>4. CASE Webhook
  <2>1. session' = session
    BY <1>4 DEF Webhook, HookLoad, HookCommit
  <2>2. row'[b] = row[b] \/ (b = hook /\ row[b].state # "none" /\ row'[b].state # "none")
    BY <1>0, <1>4 DEF Webhook, HookLoad, HookCommit, CallTypes, Order
  <2> QED BY <2>1, <2>2
<1>5. ASSUME NEW a \in Attempts, CacheLoss(a)
      PROVE  UNCHANGED <<row, session>>
  BY <1>5 DEF CacheLoss
<1>6. CASE Place
  <2>1. PICK a \in Attempts : CallAccepted(a) \/ \E r, l \in BOOLEAN : CallRefused(a, r, l)
    BY <1>6 DEF Place
  <2>2. CASE a = b
    <3>1. Dialable(b) /\ row'[b].state # "none"
      BY <1>1, <2>1, <2>2
    <3> QED BY <3>1
  <2>3. CASE a # b
    BY <1>1, <2>1, <2>3
  <2> QED BY <2>2, <2>3
<1>7. CASE \E l \in BOOLEAN : Disconnect(l)
  BY <1>3, <1>7
<1> QED BY <1>2, <1>4, <1>5, <1>6, <1>7 DEF ConvNext, Customer, Agent, Within

\* Every step keeps the order of attempts.
LEMMA OrderStep ==
  ASSUME TypeInv, ConvNext
  PROVE  Order'
<1>0. CallTypes /\ Order /\ TurnTypes
  BY DEF TypeInv
<1>1. \A a, b \in Attempts : a < b /\ row'[b].state # "none" => row'[a].state # "none"
  <2> SUFFICES ASSUME NEW a \in Attempts, NEW b \in Attempts, a < b, row'[b].state # "none"
               PROVE  row'[a].state # "none"
    OBVIOUS
  <2>1. CASE row[b].state # "none"
    BY <1>0, <2>1, RowsStep DEF Order
  <2>2. CASE row[b].state = "none"
    <3>1. Dialable(b)
      BY <2>2, RowsStep
    <3>2. a \in 1 .. (b - 1)
      BY DEF Attempts
    <3> QED BY <3>1, <3>2, RowsStep DEF Dialable
  <2> QED BY <2>1, <2>2
<1>2. \A a \in Attempts : row'[a].state = "none" => session'[a] = "none"
  BY <1>0, RowsStep DEF Order
<1>3. ASSUME NEW a \in Attempts, CallAccepted(a) \/ \E r, l \in BOOLEAN : CallRefused(a, r, l)
      PROVE  /\ retryOf' \in {0, a} /\ current' \in {0, a} /\ hook' = hook
             /\ row'[a].state # "none" /\ turn'.at = "idle"
  <2>1. /\ current' \in {0, a} /\ hook' = hook /\ turn' = Idle
        /\ row'[a].state # "none"
    BY <1>0, <1>3 DEF CallAccepted, CallRefused, CallTypes
  <2>2. retryOf' \in {0, a}
    BY <1>3, RecoverEffect DEF CallAccepted, CallRefused, Statuses
  <2> QED BY <1>0, <2>1, <2>2, OverIsTurn
<1>4. ASSUME NEW l, Disconnect(l)
      PROVE  retryOf' \in {0, current} /\ UNCHANGED <<current, hook, turn>>
  <2>1. current \in Attempts
    BY <1>0, <1>4 DEF Disconnect, Live, CallTypes
  <2> QED BY <1>4, <2>1, RecoverEffect DEF Disconnect, Statuses
<1>5. /\ retryOf' # 0 => row'[retryOf'].state # "none"
      /\ hook' # 0 => row'[hook'].state # "none"
      /\ current' # 0 => row'[current'].state # "none"
  <2>1. /\ retryOf # 0 => row'[retryOf].state # "none"
        /\ hook # 0 => row'[hook].state # "none"
        /\ current # 0 => row'[current].state # "none"
    BY <1>0, RowsStep DEF Order, CallTypes
  <2>2. CASE Place
    BY <1>3, <2>1, <2>2 DEF Place
  <2>3. CASE \E l \in BOOLEAN : Disconnect(l)
    BY <1>4, <2>1, <2>3
  <2>4. CASE Webhook
    BY <2>1, <2>4, RowsStep DEF Webhook, HookLoad, HookCommit
  <2>5. CASE Within
    BY <2>1, <2>5, WithinLive
  <2>6. CASE \E a \in Attempts : CacheLoss(a)
    BY <2>1, <2>6 DEF CacheLoss
  <2> QED BY <2>2, <2>3, <2>4, <2>5, <2>6 DEF ConvNext, Customer, Agent, Within
<1>6. turn'.at # "idle" => current' # 0
  <2>1. CASE Place
    BY <1>3, <2>1 DEF Place
  <2>2. CASE (\E l \in BOOLEAN : Disconnect(l)) \/ Webhook \/ \E a \in Attempts : CacheLoss(a)
    BY <1>0, <2>2 DEF Disconnect, Webhook, HookLoad, HookCommit, CacheLoss, Order
  <2>3. CASE Within
    <3>1. current' = current
      BY <2>3, WithinLive
    <3>2. Live \/ turn.at # "idle"
      BY <2>3 DEF Within, Utterance, BargeIn, LLMFails, LLMInvalid, Spoken, PromptSpoken, Silence,
                  LLMAnswers
    <3> QED BY <1>0, <3>1, <3>2 DEF Live, Order
  <2> QED BY <2>1, <2>2, <2>3 DEF ConvNext, Customer, Agent, Within
<1> QED BY <1>1, <1>2, <1>5, <1>6 DEF Order

\* The types, the order and the disconnects are inductive together.
LEMMA TypeInvStep ==
  ASSUME TypeInv, [ConvNext]_vars
  PROVE  TypeInv'
<1>1. CASE UNCHANGED vars
  BY <1>1 DEF vars, TypeInv, CallTypes, MemoryTypes, TurnTypes, Order, DropInv, Live
<1> QED BY <1>1, CallTypesStep, TurnTypesStep, DropsStep, OrderStep DEF TypeInv

-----------------------------------------------------------------------------
(* What the policy ensures. *)

\* A turn that ends a call that goes on.
LEMMA EndedNotLive ==
  ASSUME TypeInv, NEW m, NEW reason, EndConversation(m, reason), current' = current
  PROVE  ~Live'
<1>1. CASE Live
  <2>1. current \in Attempts
    BY <1>1 DEF Live, TypeInv, CallTypes
  <2> QED BY <1>1, <2>1, EndEffect DEF Live, TypeInv
<1>2. CASE ~Live
  BY <1>2 DEF EndConversation, Live
<1> QED BY <1>1, <1>2

\* Every step keeps what the policy ensures.
LEMMA PolicyStep ==
  ASSUME TypeInv, PolicyInv, [ConvNext]_vars
  PROVE  PolicyInv'
<1>0. CallTypes /\ TurnTypes /\ Order /\ talk \in Talk /\ turn \in Turn
  BY DEF TypeInv, TurnTypes
<1>1. CASE Place
  <2>1. ~suppressed /\ suppressed' = suppressed /\ talk' = FreshTalk
    BY <1>1 DEF Place, CallAccepted, CallRefused, Dialable
  <2> QED BY <2>1, ConvConstants DEF PolicyInv, FreshTalk
<1>2. CASE Webhook \/ (\E a \in Attempts : CacheLoss(a)) \/ UNCHANGED vars
  <2>1. UNCHANGED <<session, suppressed, current, talk, turn>>
    BY <1>2 DEF Webhook, HookLoad, HookCommit, CacheLoss, vars
  <2> QED BY <2>1 DEF PolicyInv, Live, Ends
<1>3. ASSUME NEW l, Disconnect(l)
      PROVE  PolicyInv'
  <2>1. current \in Attempts /\ UNCHANGED <<suppressed, current>>
    BY <1>0, <1>3 DEF Disconnect, Live, CallTypes
  <2>2. ~Live'
    BY <1>0, <1>3, <2>1 DEF Disconnect, Live, CallTypes
  <2> QED BY <2>1, <2>2 DEF PolicyInv
<1>5. ASSUME NEW p, NEW l, Utterance(p, l)
      PROVE  PolicyInv'
  <2>2. /\ turn.at = "idle" /\ Live /\ UNCHANGED <<suppressed, current>>
        /\ talk'.declines = talk.declines /\ talk'.unclear = talk.unclear
    BY <1>0, <1>5 DEF Utterance, Talk
  <2> QED BY <2>2 DEF PolicyInv
<1>6. CASE BargeIn
  <2>1. /\ UNCHANGED <<session, suppressed, current, turn>>
        /\ talk'.declines = talk.declines /\ talk'.unclear = talk.unclear
    BY <1>0, <1>6 DEF BargeIn, Talk
  <2> QED BY <2>1 DEF PolicyInv, Live, Ends
<1>7. CASE LLMFails \/ LLMInvalid
  <2>1. /\ UNCHANGED <<session, suppressed, current, talk>>
        /\ turn.at = "llm" /\ turn'.at = "llm"
    BY <1>0, <1>7 DEF LLMFails, LLMInvalid, Turn
  <2> QED BY <2>1 DEF PolicyInv, Live
<1>8. ASSUME NEW o \in Answers, LLMAnswers(o)
      PROVE  PolicyInv'
  <2>1. UNCHANGED <<session, current>> /\ turn.at = "llm" /\ current # 0
    BY <1>0, <1>8 DEF LLMAnswers, Order
  <2>2. ~(suppressed /\ Live)
    BY <2>1 DEF PolicyInv
  <2>3. CASE Apply(o)
    <3>1. /\ turn'.at = "tts"
          /\ turn'.reason = "none" => talk'.declines = 0 /\ talk'.unclear < MaxUnclear
          /\ suppressed' = (suppressed \/ turn'.reason = "opt_out")
      BY <2>3, ApplyEffect, AnswersAreOutputs DEF TypeInv
    <3> QED BY <2>1, <2>2, <3>1 DEF PolicyInv, Live, Ends
  <2>4. CASE turn' = Over(turn) /\ UNCHANGED <<talk, suppressed>>
    BY <1>0, <2>1, <2>2, <2>4 DEF PolicyInv, Live
  <2> QED BY <1>8, <2>3, <2>4 DEF LLMAnswers
<1>9. CASE Spoken
  <2>1. UNCHANGED <<suppressed, current, talk>> /\ turn.at = "tts"
    BY <1>9 DEF Spoken
  <2>2. CASE Ends
    <3>1. ~Live'
      BY <1>9, <2>1, <2>2, EndedNotLive DEF Spoken
    <3> QED BY <2>1, <3>1 DEF PolicyInv
  <2>3. CASE ~Ends
    <3>1. session' = session
      BY <1>9, <2>3 DEF Spoken
    <3> QED BY <2>1, <2>3, <3>1 DEF PolicyInv, Live, Ends
  <2> QED BY <2>2, <2>3
<1>10. CASE PromptSpoken
  <2>1. UNCHANGED <<session, suppressed, current, talk>> /\ turn.at = "prompt"
    BY <1>10 DEF PromptSpoken
  <2> QED BY <2>1 DEF PolicyInv, Live
<1>11. CASE Silence
  <2>1. /\ turn.at = "idle" /\ Live /\ UNCHANGED <<suppressed, current>>
        /\ talk'.declines = talk.declines /\ talk'.unclear = talk.unclear
    BY <1>0, <1>11 DEF Silence, Talk
  <2> QED BY <2>1 DEF PolicyInv
<1> QED BY <1>1, <1>2, <1>3, <1>5, <1>6, <1>7, <1>8, <1>9, <1>10, <1>11
        DEF ConvNext, Customer, Agent

\* Every step keeps what is known of a phrase.
LEMMA HeardStep ==
  ASSUME TypeInv, HeardInv, [ConvNext]_vars
  PROVE  HeardInv'
<1>0. /\ talk \in Talk /\ turn \in Turn /\ TurnTypes /\ suppressed \in BOOLEAN
      /\ turn.gen \in Nat /\ talk.gen \in Nat
  BY ConvConstants DEF TypeInv, TurnTypes, Turn, Talk, CallTypes
<1>1. CASE Place
  <2>1. turn' = Idle
    BY <1>1 DEF Place, CallAccepted, CallRefused
  <2> QED BY <1>0, <2>1, OverIsTurn DEF HeardInv, OptOutHeard
<1>2. CASE Webhook \/ (\E a \in Attempts : CacheLoss(a)) \/ (\E l \in BOOLEAN : Disconnect(l))
           \/ UNCHANGED vars
  <2>1. UNCHANGED <<suppressed, talk, turn>>
    BY <1>2 DEF Webhook, HookLoad, HookCommit, CacheLoss, Disconnect, vars
  <2> QED BY <2>1 DEF HeardInv, OptOutHeard

<1>3. ASSUME turn' = Over(turn), talk'.gen = talk.gen, suppressed' = suppressed,
             turn.phrase /\ ~suppressed => turn.gen < talk.gen
      PROVE  HeardInv'
  BY <1>0, <1>3, OverIsTurn DEF HeardInv, OptOutHeard
<1>4. ASSUME NEW p, NEW l, Utterance(p, l)
      PROVE  HeardInv'
  <2>1. turn.at = "idle" /\ suppressed' = suppressed /\ talk'.gen = talk.gen
    BY <1>0, <1>4 DEF Utterance, Talk
  <2>2. CASE turn' = Over(turn)
    BY <1>3, <2>1, <2>2 DEF HeardInv, OptOutHeard
  <2>3. CASE turn' = [Idle EXCEPT !.at = "llm", !.gen = talk.gen, !.phrase = p]
    <3>1. turn'.at = "llm" /\ turn'.gen = talk.gen
      BY <2>3 DEF Idle
    <3> QED BY <1>0, <2>1, <3>1 DEF HeardInv, OptOutHeard
  <2> QED BY <1>4, <2>2, <2>3 DEF Utterance
<1>5. CASE BargeIn
  <2>1. UNCHANGED <<suppressed, turn>> /\ talk'.gen = talk.gen + 1
    BY <1>0, <1>5 DEF BargeIn, Talk
  <2> QED BY <1>0, <2>1 DEF HeardInv, OptOutHeard
<1>6. CASE LLMFails \/ LLMInvalid
  <2>1. /\ UNCHANGED <<suppressed, talk>> /\ turn.at = "llm"
        /\ turn'.at = "llm" /\ turn'.gen = turn.gen
    BY <1>0, <1>6 DEF LLMFails, LLMInvalid, Turn
  <2> QED BY <2>1 DEF HeardInv, OptOutHeard
<1>7. ASSUME NEW o \in Answers, LLMAnswers(o)
      PROVE  HeardInv'
  <2>1. turn.at = "llm" /\ turn.gen <= talk.gen
    BY <1>7 DEF LLMAnswers, HeardInv
  <2>2. CASE turn.gen # talk.gen
    BY <1>0, <1>3, <1>7, <2>1, <2>2 DEF LLMAnswers
  <2>3. CASE turn.gen = talk.gen
    <3>1. /\ turn'.at = "tts" /\ turn'.gen = turn.gen /\ turn'.phrase = turn.phrase
          /\ talk'.gen = talk.gen
          /\ turn.phrase => turn'.reason = "opt_out"
          /\ suppressed' = (suppressed \/ turn'.reason = "opt_out")
      BY <1>7, <2>3, ApplyEffect, AnswersAreOutputs DEF LLMAnswers, TypeInv
    <3> QED BY <2>1, <3>1 DEF HeardInv, OptOutHeard
  <2> QED BY <2>2, <2>3
<1>8. CASE Spoken
  <2>1. turn.at = "tts" /\ turn' = Over(turn) /\ UNCHANGED <<suppressed, talk>>
    BY <1>8 DEF Spoken
  <2> QED BY <1>3, <2>1 DEF HeardInv
<1>9. CASE PromptSpoken
  <2>1. /\ turn.at = "prompt" /\ UNCHANGED <<suppressed, talk>>
        /\ turn'.at = "idle" /\ turn'.gen = turn.gen /\ turn'.phrase = turn.phrase
    BY <1>0, <1>9 DEF PromptSpoken, Turn
  <2> QED BY <2>1 DEF HeardInv, OptOutHeard
<1>10. CASE Silence
  <2>1. turn.at = "idle" /\ suppressed' = suppressed /\ talk'.gen = talk.gen
    BY <1>0, <1>10 DEF Silence, Talk
  <2>2. CASE turn' = Over(turn)
    BY <1>3, <2>1, <2>2 DEF HeardInv, OptOutHeard
  <2>3. CASE turn' = [turn EXCEPT !.at = "prompt"]
    <3>1. turn'.at = "prompt" /\ turn'.gen = turn.gen /\ turn'.phrase = turn.phrase
      BY <1>0, <2>3 DEF Turn
    <3> QED BY <2>1, <3>1 DEF HeardInv, OptOutHeard
  <2> QED BY <1>10, <2>2, <2>3 DEF Silence
<1> QED BY <1>1, <1>2, <1>4, <1>5, <1>6, <1>7, <1>8, <1>9, <1>10 DEF ConvNext, Customer, Agent

-----------------------------------------------------------------------------
(* The outcome of a conversation, when a webhook does not commit late. *)

\* Every step keeps the outcome.  The end of a call needs PolicyInv: a suppressed
\* number is in its last speech, so that the reason of its end is the opt-out.
LEMMA OutcomeStep ==
  ASSUME "lateHook" \notin Env, TypeInv, PolicyInv, OutcomeInv, [ConvNext]_vars
  PROVE  OutcomeInv'
<1>0. CallTypes /\ Order /\ turn \in Turn
  BY DEF TypeInv, TurnTypes
<1>1. ASSUME UNCHANGED <<row, session, current>>,
             contact' \in {contact, "CLOSED"}, suppressed' => suppressed \/ contact' = "CLOSED"
      PROVE  OutcomeInv'
  BY <1>1 DEF OutcomeInv, OptOutHonoured, Live
<1>2. ASSUME NEW a \in Attempts, CallAccepted(a)
      PROVE  OutcomeInv'
  <2>1. row[a].state = "none" /\ session[a] = "none" /\ ~suppressed /\ ~suppressed'
    BY <1>0, <1>2 DEF CallAccepted, Dialable, Order
  <2>2. \A b \in Attempts : row[b].state = "none" \/ row[b].ended
    BY <1>2 DEF CallAccepted, Dialable, OutcomeInv
  <2>3. contact' = "IN_CONVERSATION"
    BY <1>2 DEF CallAccepted
  <2>4. /\ \A b \in Attempts : b # a => row'[b] = row[b] /\ session'[b] = session[b]
        /\ (current' = 0 /\ session'[a] = "none") \/ (current' = a /\ session'[a] = "ACTIVE")
    BY <1>0, <1>2, <2>1 DEF CallAccepted, CallTypes
  <2>5. a # 0
    BY DEF Attempts
  <2> QED BY <2>1, <2>2, <2>3, <2>4, <2>5 DEF OutcomeInv, OptOutHonoured, Live
<1>3. ASSUME NEW a \in Attempts, NEW r, NEW l, CallRefused(a, r, l)
      PROVE  OutcomeInv'
  <2>1. ~suppressed' /\ current' = 0 /\ session' = session
    BY <1>3 DEF CallRefused, Dialable
  <2>2. \A b \in Attempts : row[b].state = "none" \/ row[b].ended
    BY <1>3 DEF CallRefused, Dialable, OutcomeInv
  <2>3. \A b \in Attempts : row'[b].ended \/ row'[b] = row[b]
    BY <1>0, <1>3 DEF CallRefused, CallTypes
  <2> QED BY <2>1, <2>2, <2>3 DEF OutcomeInv, OptOutHonoured, Live
<1>4. ASSUME NEW c, HookCommit(c)
      PROVE  OutcomeInv'
  <2>1. UNCHANGED <<session, suppressed, current>> /\ hook \in Attempts
    BY <1>0, <1>4 DEF HookCommit, CallTypes
  <2>2. CASE UNCHANGED <<row, contact>>
    BY <1>1, <2>1, <2>2
  <2>3. CASE /\ ~row[hook].ended /\ contact' \in {contact, "IN_CONVERSATION"}
             /\ \A b \in Attempts : b # hook => row'[b] = row[b]
    <3>1. row[hook].state # "none"
      BY <1>0, <2>1 DEF Order, Attempts
    <3>2. contact \notin {"PENDING", "RETRY_SCHEDULED"} /\ session[hook] # "ENDED"
      BY <2>1, <2>3, <3>1 DEF OutcomeInv
    <3>3. current # 0 => hook = current /\ Live
      BY <2>1, <2>3, <3>1 DEF OutcomeInv
    <3>4. suppressed => Live
      BY <3>3 DEF PolicyInv
    <3> QED BY <2>1, <2>3, <3>2, <3>3, <3>4 DEF OutcomeInv, OptOutHonoured, Live
  <2>4. /\ hook # 0
        /\ \/ UNCHANGED <<row, contact>>
           \/ /\ ~row[hook].ended
              /\ contact' \in {contact, "IN_CONVERSATION"}
              /\ \A b \in Attempts : b # hook => row'[b] = row[b]
    BY <1>0, <1>4 DEF HookCommit, CallTypes
  <2> QED BY <2>2, <2>3, <2>4
<1>5. ASSUME NEW l, Disconnect(l)
      PROVE  OutcomeInv'
  <2>1. current \in Attempts /\ current # 0 /\ UNCHANGED <<suppressed, current>>
    BY <1>0, <1>5 DEF Disconnect, Live, CallTypes
  <2>2. /\ \A b \in Attempts : b # current => row'[b] = row[b] /\ session'[b] = session[b]
        /\ row'[current].ended /\ session'[current] = "ENDED"
    BY <1>0, <1>5, <2>1 DEF Disconnect, CallTypes
  <2>3. \A b \in Attempts : row'[b].state = "none" \/ row'[b].ended
    BY <2>1, <2>2 DEF OutcomeInv
  <2>4. suppressed => contact' = "DISCONNECTED"
    BY <1>5, <2>1, RecoverEffect DEF Disconnect, Statuses
  <2> QED BY <2>1, <2>2, <2>3, <2>4 DEF OutcomeInv, OptOutHonoured, Live
<1>6. ASSUME NEW m, NEW reason, EndConversation(m, reason), UNCHANGED <<suppressed, current>>,
             suppressed /\ Live => reason = "opt_out"
      PROVE  OutcomeInv'
  <2>1. CASE Live
    <3>1. current \in Attempts /\ current # 0
      BY <1>0, <2>1 DEF Live, CallTypes
    <3>2. /\ \A b \in Attempts : b # current => row'[b] = row[b] /\ session'[b] = session[b]
          /\ row'[current].ended /\ session'[current] = "ENDED"
          /\ contact' = EndStatus(m, reason)
      BY <1>0, <1>6, <2>1, <3>1, EndEffect
    <3>3. \A b \in Attempts : row'[b].state = "none" \/ row'[b].ended
      BY <3>1, <3>2 DEF OutcomeInv
    <3>4. contact' \notin {"PENDING", "RETRY_SCHEDULED"} /\ (suppressed => contact' = "CLOSED")
      BY <1>6, <2>1, <3>2 DEF EndStatus
    <3> QED BY <1>6, <3>1, <3>2, <3>3, <3>4 DEF OutcomeInv, OptOutHonoured, Live
  <2>2. CASE ~Live
    BY <1>1, <1>6, <2>2 DEF EndConversation
  <2> QED BY <2>1, <2>2
<1>7. ASSUME turn.at = "idle"
      PROVE  ~(suppressed /\ Live)
  BY <1>7 DEF PolicyInv
<1>8. ASSUME NEW p, NEW l, Utterance(p, l)
      PROVE  OutcomeInv'
  <2>1. turn.at = "idle" /\ UNCHANGED <<suppressed, current>>
    BY <1>8 DEF Utterance
  <2>2. EndConversation(memory, "max_reached") \/ UNCHANGED <<row, session, contact>>
    BY <1>8 DEF Utterance
  <2> QED BY <1>1, <1>6, <1>7, <2>1, <2>2
<1>9. CASE Silence
  <2>1. turn.at = "idle" /\ UNCHANGED <<suppressed, current>>
    BY <1>9 DEF Silence
  <2>2. EndConversation(memory, "silence_timeout") \/ UNCHANGED <<row, session, contact>>
    BY <1>9 DEF Silence
  <2> QED BY <1>1, <1>6, <1>7, <2>1, <2>2
<1>10. CASE Spoken
  <2>1. turn.at = "tts" /\ UNCHANGED <<suppressed, current>>
    BY <1>10 DEF Spoken
  <2>2. EndConversation(memory, turn.reason) \/ UNCHANGED <<row, session, contact>>
    BY <1>10 DEF Spoken
  <2>3. suppressed /\ Live => turn.reason = "opt_out"
    BY DEF PolicyInv
  <2> QED BY <1>1, <1>6, <2>1, <2>2, <2>3
<1>11. ASSUME NEW o \in Answers, LLMAnswers(o)
       PROVE  OutcomeInv'
  <2>1. UNCHANGED <<row, session, current>>
    BY <1>11 DEF LLMAnswers
  <2>2. CASE Apply(o)
    <3>1. /\ suppressed' = (suppressed \/ turn'.reason = "opt_out")
          /\ contact' = IF turn'.reason = "opt_out" THEN "CLOSED" ELSE contact
      BY <2>2, ApplyEffect, AnswersAreOutputs DEF TypeInv
    <3> QED BY <1>1, <2>1, <3>1
  <2>3. CASE UNCHANGED <<suppressed, contact>>
    BY <1>1, <2>1, <2>3
  <2> QED BY <1>11, <2>2, <2>3 DEF LLMAnswers
<1>12. CASE \/ \E a \in Attempts : HookLoad(a) \/ CacheLoss(a)
            \/ BargeIn \/ LLMFails \/ LLMInvalid \/ PromptSpoken \/ UNCHANGED vars
  <2>1. UNCHANGED <<row, session, contact, suppressed, current>>
    BY <1>12 DEF HookLoad, CacheLoss, BargeIn, LLMFails, LLMInvalid, PromptSpoken, vars
  <2> QED BY <1>1, <2>1
<1> QED BY <1>2, <1>3, <1>4, <1>5, <1>8, <1>9, <1>10, <1>11, <1>12
        DEF ConvNext, Place, Webhook, Customer, Agent

\* What an ended conversation leaves as it is.
LEMMA OutcomeFinalStep ==
  ASSUME "lateHook" \notin Env, TypeInv, OutcomeInv, [ConvNext]_vars,
         NEW a \in Attempts, session[a] = "ENDED"
  PROVE  session'[a] = "ENDED" /\ row'[a] = row[a]
<1>0. CallTypes /\ Order /\ row[a].ended /\ row[a].state # "none"
  BY DEF TypeInv, OutcomeInv, Order
<1>1. ~(a = current /\ Live)
  BY DEF Live
<1>2. ASSUME NEW b \in Attempts, CallAccepted(b) \/ \E r, l \in BOOLEAN : CallRefused(b, r, l)
      PROVE  session'[a] = session[a] /\ row'[a] = row[a]
  <2>1. b # a
    BY <1>0, <1>2 DEF CallAccepted, CallRefused, Dialable
  <2> QED BY <1>0, <1>2, <2>1 DEF CallAccepted, CallRefused, CallTypes
<1>3. ASSUME NEW c, HookCommit(c)
      PROVE  session'[a] = session[a] /\ row'[a] = row[a]
  BY <1>0, <1>3 DEF HookCommit, CallTypes
<1>4. ASSUME NEW m, NEW reason, EndConversation(m, reason)
      PROVE  session'[a] = session[a] /\ row'[a] = row[a]
  BY <1>0, <1>1, <1>4, EndEffect
<1>5. ASSUME NEW l, Disconnect(l)
      PROVE  session'[a] = session[a] /\ row'[a] = row[a]
  BY <1>0, <1>1, <1>5 DEF Disconnect, CallTypes
<1>6. CASE Within
  BY <1>4, <1>6
     DEF Within, Utterance, BargeIn, LLMFails, LLMInvalid, Spoken, PromptSpoken, Silence, LLMAnswers
<1>7. CASE (\E b \in Attempts : HookLoad(b) \/ CacheLoss(b)) \/ UNCHANGED vars
  BY <1>7 DEF HookLoad, CacheLoss, vars
<1> QED BY <1>2, <1>3, <1>5, <1>6, <1>7 DEF ConvNext, Place, Webhook, Customer, Agent, Within

-----------------------------------------------------------------------------
(* The cache, when no write to it fails. *)

\* Every step keeps the cache equal to the last checkpoint, or empty.
LEMMA CacheStep ==
  ASSUME "cacheWriteFails" \notin Env, TypeInv, CacheInv, [ConvNext]_vars
  PROVE  CacheInv'
<1>0. CallTypes /\ Order /\ MemoryTypes
  BY DEF TypeInv
<1>1. ASSUME NEW m, Checkpoint(m)
      PROVE  CacheInv'
  BY <1>0, <1>1 DEF Checkpoint, MemoryTypes, CacheInv
<1>2. CASE UNCHANGED <<snapshot, cache>>
  BY <1>2 DEF CacheInv
<1>3. ASSUME NEW a \in Attempts, CacheLoss(a)
      PROVE  CacheInv'
  BY <1>0, <1>3 DEF CacheLoss, MemoryTypes, CacheInv
<1>4. ASSUME NEW l, Disconnect(l)
      PROVE  CacheInv'
  BY <1>1, <1>4 DEF Disconnect
<1>5. CASE Within
  BY <1>1, <1>2, <1>5
     DEF Within, Utterance, BargeIn, LLMFails, LLMInvalid, Spoken, PromptSpoken, Silence, LLMAnswers
<1>6. CASE Place \/ Webhook \/ UNCHANGED vars
  BY <1>2, <1>6 DEF Place, Webhook, CallAccepted, CallRefused, HookLoad, HookCommit, vars
<1> QED BY <1>3, <1>4, <1>5, <1>6 DEF ConvNext, Customer, Agent, Within

\* A conversation that starts as a retry has the memory last checkpointed.
LEMMA ReconnectStep ==
  ASSUME TypeInv, CacheInv, [ConvNext]_vars, NEW a \in Attempts,
         session[a] = "none", session'[a] = "ACTIVE", retryOf # 0, snapshot[retryOf] # NoMemory
  PROVE  memory' = [snapshot[retryOf] EXCEPT !.drops = @ + 1]
<1>0. CallTypes /\ retryOf \in Attempts
  BY DEF TypeInv, CallTypes
<1>1. ASSUME NEW b \in Attempts, CallAccepted(b)
      PROVE  memory' = [snapshot[retryOf] EXCEPT !.drops = @ + 1]
  <2>1. LoadLatest(retryOf) = snapshot[retryOf]
    BY <1>0 DEF LoadLatest, CacheInv
  <2>2. session' = [session EXCEPT ![b] = "ACTIVE"] /\ memory' = StartMemory(b, retryOf)
    BY <1>1 DEF CallAccepted
  <2> QED BY <2>1, <2>2 DEF StartMemory, MemorySource
<1>2. ASSUME NEW m, NEW reason, EndConversation(m, reason)
      PROVE  FALSE
  <2>1. session'[a] \in {session[a], "ENDED"}
    BY <1>0, <1>2, EndEffect
  <2> QED BY <2>1
<1>3. ASSUME NEW l, Disconnect(l)
      PROVE  FALSE
  BY <1>0, <1>3 DEF Disconnect, CallTypes
<1>4. CASE Within
  <2>1. session' # session
    OBVIOUS
  <2> QED BY <1>2, <1>4, <2>1
     DEF Within, Utterance, BargeIn, LLMFails, LLMInvalid, Spoken, PromptSpoken, Silence, LLMAnswers
<1>5. CASE \/ Webhook \/ (\E b \in Attempts : CacheLoss(b)) \/ UNCHANGED vars
           \/ \E b \in Attempts : \E r, l \in BOOLEAN : CallRefused(b, r, l)
  BY <1>5 DEF Webhook, HookLoad, HookCommit, CacheLoss, CallRefused, vars
<1> QED BY <1>1, <1>3, <1>4, <1>5 DEF ConvNext, Place, Customer, Agent, Within

-----------------------------------------------------------------------------
(* The theorems. *)

\* The initial state satisfies every part.
LEMMA ConvInitInv ==
  ASSUME ConvInit
  PROVE  TypeInv /\ PolicyInv /\ HeardInv /\ OutcomeInv /\ CacheInv
<1>0. 0 \notin Attempts
  BY DEF Attempts
<1>1. CallTypes
  BY DEF ConvInit, CallTypes, RowStates, Statuses
<1>2. MemoryTypes
  BY NoMemoryIsNone DEF ConvInit, MemoryTypes
<1>3. TurnTypes
  <2>1. /\ 0 \in 0 .. MaxInterrupts /\ 0 \in 0 .. MaxLLMRetries /\ 0 \in 0 .. MaxRegenerations
        /\ 0 \in 0 .. MaxPrompts /\ 0 \in 0 .. (MaxTurns + 1)
    BY ConvConstants
  <2>2. FreshTalk \in Talk
    BY <2>1 DEF FreshTalk, Talk
  <2>3. Idle \in Turn
    BY <2>1 DEF Idle, Turn
  <2> QED BY <2>2, <2>3 DEF ConvInit, TurnTypes
<1>4. Order
  BY DEF ConvInit, Order, Idle
<1>5. DropInv
  BY DEF ConvInit, DropInv, Drops, Live
<1>6. PolicyInv /\ OutcomeInv
  BY DEF ConvInit, PolicyInv, OutcomeInv, OptOutHonoured, Live
<1>7. HeardInv
  BY DEF ConvInit, HeardInv, OptOutHeard, Idle
<1>8. CacheInv
  BY DEF ConvInit, CacheInv
<1> QED BY <1>1, <1>2, <1>3, <1>4, <1>5, <1>6, <1>7, <1>8 DEF TypeInv

\* Whatever the faults, every state of a conversation has its types, the policy
\* has the last word on the call, and a phrase is heard in its turn.
THEOREM ConversationInvariant == ConvSpec => [](TypeInv /\ PolicyInv /\ HeardInv)
<1>1. ConvInit => TypeInv /\ PolicyInv /\ HeardInv
  BY ConvInitInv
<1>2. TypeInv /\ PolicyInv /\ HeardInv /\ [ConvNext]_vars => (TypeInv /\ PolicyInv /\ HeardInv)'
  BY TypeInvStep, PolicyStep, HeardStep
<1> QED BY <1>1, <1>2, PTL DEF ConvSpec

\* Every value the orchestrator, the rows and the webhook handler keep has its
\* type; that the disconnects counted in memory stay within two per attempt is
\* the part that needs an argument (context.py, orchestrator.py 447).
THEOREM ConversationTypes == ConvSpec => []ConvTypeOK
<1>1. TypeInv => ConvTypeOK
  BY TypeParts DEF TypeInv
<1> QED BY <1>1, ConversationInvariant, PTL

\* Between the turns of a call that goes on nobody has opted out, declined in
\* the last answer or been unclear up to the limit.
THEOREM AgentDoesNotPersist == ConvSpec => []NoPersisting
<1>1. PolicyInv => NoPersisting
  BY DEF PolicyInv, NoPersisting
<1> QED BY <1>1, ConversationInvariant, PTL

\* An utterance with an opt-out phrase suppresses the number, unless a barge-in
\* has overtaken its turn.
THEOREM PhraseIsHeard == ConvSpec => []OptOutHeard
<1>1. HeardInv => OptOutHeard
  BY DEF HeardInv
<1> QED BY <1>1, ConversationInvariant, PTL

\* Without late webhooks, an opt-out is not followed by a retry or by a status
\* that counts the contact as completed.
THEOREM OptOutIsHonoured ==
  ASSUME "lateHook" \notin Env
  PROVE  ConvSpec => []OptOutHonoured
<1>1. ConvInit => TypeInv /\ PolicyInv /\ OutcomeInv
  BY ConvInitInv
<1>2. TypeInv /\ PolicyInv /\ OutcomeInv /\ [ConvNext]_vars => (TypeInv /\ PolicyInv /\ OutcomeInv)'
  BY TypeInvStep, PolicyStep, OutcomeStep
<1>3. OutcomeInv => OptOutHonoured
  BY DEF OutcomeInv
<1> QED BY <1>1, <1>2, <1>3, PTL DEF ConvSpec

\* Without late webhooks, an ended conversation keeps its session's and its
\* attempt's state, whatever turn or webhook is still under way.
THEOREM OneOutcome ==
  ASSUME "lateHook" \notin Env
  PROVE  ConvSpec => OutcomeIsFinal
<1>1. ConvInit => TypeInv /\ PolicyInv /\ OutcomeInv
  BY ConvInitInv
<1>2. TypeInv /\ PolicyInv /\ OutcomeInv /\ [ConvNext]_vars => (TypeInv /\ PolicyInv /\ OutcomeInv)'
  BY TypeInvStep, PolicyStep, OutcomeStep
<1>3. TypeInv /\ OutcomeInv /\ [ConvNext]_vars =>
        [\A a \in Attempts : session[a] = "ENDED" =>
           session'[a] = "ENDED" /\ row'[a] = row[a]]_vars
  BY OutcomeFinalStep
<1> QED BY <1>1, <1>2, <1>3, PTL DEF ConvSpec, OutcomeIsFinal

\* When no cache write fails, a conversation resumes from the last checkpoint of
\* the attempt it retries, whether or not the cache has lost it.
THEOREM ReconnectsFromCheckpoint ==
  ASSUME "cacheWriteFails" \notin Env
  PROVE  ConvSpec => ReconnectReadsLatest
<1>1. ConvInit => TypeInv /\ CacheInv
  BY ConvInitInv
<1>2. TypeInv /\ CacheInv /\ [ConvNext]_vars => (TypeInv /\ CacheInv)'
  BY TypeInvStep, CacheStep
<1>3. TypeInv /\ CacheInv /\ [ConvNext]_vars =>
        [\A a \in Attempts :
           session[a] = "none" /\ session'[a] = "ACTIVE" /\ retryOf # 0 =>
             \/ snapshot[retryOf] = NoMemory
             \/ memory' = [snapshot[retryOf] EXCEPT !.drops = @ + 1]]_vars
  BY ReconnectStep
<1> QED BY <1>1, <1>2, <1>3, PTL DEF ConvSpec, ReconnectReadsLatest
=============================================================================
