---------------------------- MODULE Conversation ----------------------------
(***************************************************************************)
(* A contact called over the native telephony provider: the call is placed,*)
(* the conversation orchestrator runs turns (utterance, language model,    *)
(* policy, speech) and ends the call or loses it, and a retry resumes with *)
(* the working memory of the attempt before it.                            *)
(*                                                                         *)
(* A turn waits twice, for the model and for the speech synthesis.  A      *)
(* barge-in or the end of the connection may be reported in either wait;   *)
(* the repository's tests call both handlers from inside them.  The steps  *)
(* of a turn between the waits are one action.                             *)
(*                                                                         *)
(* Working memory is checkpointed to PostgreSQL and to a Redis cache, which*)
(* is read first.  Env "cacheWriteFails": a cache write may fail and leave *)
(* the older value; "cacheLoss": keys may disappear; "lateHook": a status  *)
(* webhook may commit although the attempt has ended since it looked.      *)
(***************************************************************************)
EXTENDS ConversationPolicy, FiniteSets

CONSTANTS
  MaxAttempts,     \* attempts the retry policy allows
  MaxTurns,        \* MAX_CONVERSATION_TURNS
  MaxPrompts,      \* MAX_SILENCE_PROMPTS
  MaxLLMRetries,   \* MAX_LLM_RETRIES
  MaxRegenerations,\* MAX_RESPONSE_REGENERATIONS
  MaxInterrupts,   \* bound: barge-ins per conversation
  Heard,           \* bound: the intents the model reports
  Env              \* which faults this instance includes

ASSUME ConversationAssumption ==
  /\ MaxAttempts \in Nat \ {0} /\ MaxTurns \in Nat /\ MaxPrompts \in Nat
  /\ MaxLLMRetries \in Nat /\ MaxRegenerations \in Nat
  /\ MaxInterrupts \in Nat /\ MaxDeclines \in Nat /\ MaxUnclear \in Nat \ {0}
  /\ Heard \subseteq Intents
  /\ Env \subseteq {"cacheWriteFails", "cacheLoss", "lateHook"}

Attempts == 1..MaxAttempts

VARIABLES
  row,         \* call attempts: their state, and whether ended_at is set
  session,     \* conversation_session per attempt
  contact,     \* the contact's status
  retryOf,     \* retry_attempt_id: the attempt a scheduled retry resumes, or 0
  suppressed,  \* the number is on the suppression list
  snapshot,    \* latest working_memory_snapshot per attempt
  cache,       \* the Redis copy of it
  current,     \* the attempt the orchestrator in memory belongs to, or 0
  memory,      \* its working memory
  talk,        \* its counters
  turn,        \* the turn in progress, and what it waits for
  hook         \* the attempt a status webhook has loaded, or 0

vars == <<row, session, contact, retryOf, suppressed, snapshot, cache,
          current, memory, talk, turn, hook>>

RowStates == {"none", "CONNECTED", "FAILED_TO_CONNECT", "DROPPED_MID_CALL",
              "ENDED_NORMALLY"}
Statuses == {"PENDING", "DIALING", "IN_CONVERSATION", "DISCONNECTED",
             "RETRY_SCHEDULED", "COMPLETED", "COMPLETED_PARTIAL", "CLOSED"}

\* Working memory: the phase, the required fields still pending, the number
\* of disconnects.  NoMemory: no snapshot.
Memory == [phase : Phases, pending : SUBSET Fields, drops : 0..(2 * MaxAttempts)]
NoMemory == [phase |-> "none"]
FreshMemory == [phase |-> "opening", pending |-> Fields, drops |-> 0]

Talk == [gen : 0..MaxInterrupts, turns : 0..(MaxTurns + 1),
         prompts : 0..MaxPrompts, declines : Nat, unclear : Nat]
FreshTalk == [gen |-> 0, turns |-> 0, prompts |-> 0, declines |-> 0, unclear |-> 0]

\* at: what is waited for.  gen: the generation the turn began in.  phrase:
\* the utterance asks not to be called.  tries, redos: failed model calls and
\* regenerations.  reason: why the call ends after the speech.
Turn == [at : {"idle", "llm", "tts", "prompt"}, gen : 0..MaxInterrupts,
         phrase : BOOLEAN, tries : 0..MaxLLMRetries,
         redos : 0..MaxRegenerations, reason : Reasons \cup {"none"}]
Idle == [at |-> "idle", gen |-> 0, phrase |-> FALSE, tries |-> 0, redos |-> 0,
         reason |-> "none"]

ConvTypeOK ==
  /\ row \in [Attempts -> [state : RowStates, ended : BOOLEAN]]
  /\ session \in [Attempts -> {"none", "ACTIVE", "ENDED"}]
  /\ contact \in Statuses /\ retryOf \in {0} \cup Attempts
  /\ suppressed \in BOOLEAN
  /\ snapshot \in [Attempts -> Memory \cup {NoMemory}]
  /\ cache \in [Attempts -> Memory \cup {NoMemory}]
  /\ current \in {0} \cup Attempts
  /\ memory \in Memory /\ talk \in Talk /\ turn \in Turn
  /\ hook \in {0} \cup Attempts

ConvInit ==
  /\ row = [a \in Attempts |-> [state |-> "none", ended |-> FALSE]]
  /\ session = [a \in Attempts |-> "none"]
  /\ contact = "PENDING" /\ retryOf = 0 /\ suppressed = FALSE
  /\ snapshot = [a \in Attempts |-> NoMemory]
  /\ cache = [a \in Attempts |-> NoMemory]
  /\ current = 0 /\ memory = FreshMemory /\ talk = FreshTalk /\ turn = Idle
  /\ hook = 0

\* The orchestrator's `ended` flag: set together with the session's status.
Live == current # 0 /\ session[current] = "ACTIVE"

-----------------------------------------------------------------------------
(***************************************************************************)
(* Working memory.                                                         *)
(***************************************************************************)
Checkpoint(m) ==
  /\ snapshot' = [snapshot EXCEPT ![current] = m]
  /\ \/ cache' = [cache EXCEPT ![current] = m]
     \/ "cacheWriteFails" \in Env /\ UNCHANGED cache

LoadLatest(a) == IF cache[a] # NoMemory THEN cache[a] ELSE snapshot[a]

\* The bug: as the code was before retries had attempts of their own.
Bug_MemorySource(a, prev) == a

\* Where attempt a looks for memory when it follows attempt prev.
MemorySource(a, prev) == IF prev = 0 THEN a ELSE prev

StartMemory(a, prev) ==
  LET found == LoadLatest(MemorySource(a, prev))
  IN  IF prev # 0 /\ found # NoMemory
      THEN [found EXCEPT !.drops = @ + 1] ELSE FreshMemory

-----------------------------------------------------------------------------
(***************************************************************************)
(* The recovery decision after attempt a: opt-out wins, then the policy    *)
(* (`allowed`: its rules permit a retry for this reason) and its limit.    *)
(* status is the contact's status as the caller left it.                   *)
(***************************************************************************)
\* The bug: the suppression list is not asked.
Bug_Recover(a, status, allowed) ==
  IF status # "CLOSED" /\ allowed /\ a < MaxAttempts
  THEN contact' = "RETRY_SCHEDULED" /\ retryOf' = a
  ELSE contact' = status /\ retryOf' = 0

Recover(a, status, allowed) ==
  IF status = "CLOSED" \/ suppressed
  THEN contact' = status /\ retryOf' = 0
  ELSE \/ /\ allowed /\ a < MaxAttempts
          /\ contact' = "RETRY_SCHEDULED" /\ retryOf' = a
       \/ /\ ~(allowed /\ a < MaxAttempts)
          /\ contact' = "COMPLETED_PARTIAL" /\ retryOf' = 0

-----------------------------------------------------------------------------
(***************************************************************************)
(* Placing a call.  The attempt is the next one, and resumes retryOf.      *)
(***************************************************************************)
Dialable(a) ==
  /\ row[a].state = "none" /\ \A b \in 1..(a - 1) : row[b].state # "none"
  /\ contact \in {"PENDING", "RETRY_SCHEDULED"} /\ ~suppressed
  /\ turn.at = "idle"   \* a retry's delay outlasts a provider request

\* The provider accepted the call (or was found to have, after an ambiguous
\* answer); the conversation starts, or its start fails and is only logged.
CallAccepted(a) ==
  /\ Dialable(a)
  /\ row' = [row EXCEPT ![a].state = "CONNECTED"]
  /\ contact' = "IN_CONVERSATION" /\ retryOf' = 0
  /\ talk' = FreshTalk /\ turn' = Idle
  /\ \/ /\ session' = [session EXCEPT ![a] = "ACTIVE"]
        /\ current' = a /\ memory' = StartMemory(a, retryOf)
     \/ /\ current' = 0 /\ memory' = FreshMemory
        /\ UNCHANGED session
  /\ UNCHANGED <<suppressed, snapshot, cache, hook>>

\* The call was refused.  Without a failure reason (an ambiguous answer and no
\* call found) nobody decides what becomes of the contact.
CallRefused(a, reasoned, allowed) ==
  /\ Dialable(a)
  /\ row' = [row EXCEPT ![a] = [state |-> "FAILED_TO_CONNECT", ended |-> TRUE]]
  /\ IF reasoned THEN Recover(a, "DIALING", allowed)
     ELSE contact' = "DIALING" /\ retryOf' = 0
  /\ current' = 0 /\ memory' = FreshMemory /\ talk' = FreshTalk /\ turn' = Idle
  /\ UNCHANGED <<session, suppressed, snapshot, cache, hook>>

\* The provider's status webhook looks at the attempt, which must not have
\* ended, and commits later.
HookLoad(a) ==
  /\ hook = 0 /\ row[a].state # "none" /\ ~row[a].ended
  /\ hook' = a
  /\ UNCHANGED <<row, session, contact, retryOf, suppressed, snapshot, cache,
                 current, memory, talk, turn>>

HookCommit(connected) ==
  /\ hook # 0 /\ hook' = 0
  /\ \/ /\ row[hook].ended /\ "lateHook" \notin Env
        /\ UNCHANGED <<row, contact>>
     \/ /\ ~row[hook].ended \/ "lateHook" \in Env
        /\ IF connected
           THEN /\ row' = [row EXCEPT ![hook].state = "CONNECTED"]
                /\ contact' = "IN_CONVERSATION"
           ELSE /\ row' = [row EXCEPT ![hook] = [state |-> "FAILED_TO_CONNECT", ended |-> TRUE]]
                /\ UNCHANGED contact
  /\ UNCHANGED <<session, retryOf, suppressed, snapshot, cache, current,
                 memory, talk, turn>>

-----------------------------------------------------------------------------
(***************************************************************************)
(* The two ends of a conversation.                                         *)
(***************************************************************************)
\* A turn that is over: what it was about is kept for the properties.
Over(t) == [Idle EXCEPT !.phrase = t.phrase, !.gen = IF t.phrase THEN t.gen ELSE 0]

EndStatus(m, reason) ==
  IF reason = "opt_out" THEN "CLOSED"
  ELSE IF m.pending = {} /\ reason \in {"end_call_goal_met", "wrap_up"}
       THEN "COMPLETED" ELSE "COMPLETED_PARTIAL"

\* The bugs: `ended` is not looked at, or not set.
Bug_EndConversation(m, reason) ==
  /\ session' = [session EXCEPT ![current] = "ENDED"]
  /\ row' = [row EXCEPT ![current] = [state |-> "ENDED_NORMALLY", ended |-> TRUE]]
  /\ contact' = EndStatus(m, reason)

Bug_NoEnd(m, reason) ==
  /\ contact' = EndStatus(m, reason)
  /\ UNCHANGED <<session, row>>

\* _end_conversation, but for its checkpoint, with working memory m; nothing
\* if the call has ended.
EndConversation(m, reason) ==
  IF Live
  THEN /\ session' = [session EXCEPT ![current] = "ENDED"]
       /\ row' = [row EXCEPT ![current] = [state |-> "ENDED_NORMALLY", ended |-> TRUE]]
       /\ contact' = EndStatus(m, reason)
  ELSE UNCHANGED <<session, row, contact>>

\* handle_disconnect: the connection is lost, at any moment of a turn.
Disconnect(allowed) ==
  /\ Live
  /\ memory' = [memory EXCEPT !.drops = @ + 1]
  /\ Checkpoint(memory')
  /\ session' = [session EXCEPT ![current] = "ENDED"]
  /\ row' = [row EXCEPT ![current] = [state |-> "DROPPED_MID_CALL", ended |-> TRUE]]
  /\ Recover(current, "DISCONNECTED", allowed)
  /\ UNCHANGED <<suppressed, current, talk, turn, hook>>

\* The customer starts to speak: what is being prepared is out of date.
BargeIn ==
  /\ current # 0 /\ talk.gen < MaxInterrupts
  /\ Live \/ turn.at # "idle"
  /\ talk' = [talk EXCEPT !.gen = @ + 1]
  /\ UNCHANGED <<row, session, contact, retryOf, suppressed, snapshot, cache,
                 current, memory, turn, hook>>

-----------------------------------------------------------------------------
(***************************************************************************)
(* A turn: the final utterance, the model's answer, the speech.            *)
(***************************************************************************)
\* A final utterance; late says that the call has lasted too long.
Utterance(phrase, late) ==
  /\ Live /\ turn.at = "idle"
  /\ IF talk.turns + 1 > MaxTurns \/ late
     THEN /\ Checkpoint(memory) /\ EndConversation(memory, "max_reached")
          /\ turn' = Over(turn)
          /\ talk' = [talk EXCEPT !.turns = @ + 1]
     ELSE /\ turn' = [Idle EXCEPT !.at = "llm", !.gen = talk.gen, !.phrase = phrase]
          /\ talk' = [talk EXCEPT !.turns = @ + 1, !.prompts = 0]
          /\ UNCHANGED <<snapshot, cache, session, row, contact>>
  /\ UNCHANGED <<retryOf, suppressed, current, memory, hook>>

\* The model timed out or failed, and is asked again.
LLMFails ==
  /\ turn.at = "llm" /\ turn.tries < MaxLLMRetries
  /\ turn' = [turn EXCEPT !.tries = @ + 1]
  /\ UNCHANGED <<row, session, contact, retryOf, suppressed, snapshot, cache,
                 current, memory, talk, hook>>

\* Its answer is empty or too long, and is generated again.
LLMInvalid ==
  /\ turn.at = "llm" /\ turn.redos < MaxRegenerations
  /\ turn' = [turn EXCEPT !.redos = @ + 1, !.tries = 0]
  /\ UNCHANGED <<row, session, contact, retryOf, suppressed, snapshot, cache,
                 current, memory, talk, hook>>

\* What a turn may work with: a valid answer, or the fallback once the model
\* has failed or answered badly too often.
Answers ==
  {o \in LLMOutput : o.intent \in Heard} \cup
  IF turn.tries = MaxLLMRetries \/ turn.redos = MaxRegenerations
  THEN {Fallback} ELSE {}

Count(n, hit) == IF hit THEN n + 1 ELSE 0

\* _apply_output up to the speech: memory, counters, the policy's decision,
\* and an opt-out takes effect.
Apply(o) ==
  LET declines == Count(talk.declines, o.intent = "negative")
      unclear  == Count(talk.unclear, o.intent = "unclear")
      pending  == memory.pending \ o.captured
      d == Decide(memory.phase, o, turn.phrase, declines, unclear, pending # {})
  IN  /\ memory' = [memory EXCEPT !.pending = pending, !.phase = d.phase]
      /\ talk' = [talk EXCEPT !.declines = declines, !.unclear = unclear]
      /\ suppressed' = (suppressed \/ d.reason = "opt_out")
      /\ contact' = IF d.reason = "opt_out" THEN "CLOSED" ELSE contact
      /\ turn' = [turn EXCEPT !.at = "tts", !.reason = d.reason]

\* The answer is there.  One that a barge-in has overtaken is dropped: no
\* memory, no speech, and no policy either.
LLMAnswers(o) ==
  /\ turn.at = "llm" /\ o \in Answers
  /\ IF turn.gen # talk.gen
     THEN /\ turn' = Over(turn)
          /\ UNCHANGED <<memory, talk, suppressed, contact>>
     ELSE Apply(o)
  /\ UNCHANGED <<row, session, retryOf, snapshot, cache, current, hook>>

Ends == turn.reason # "none"

\* The speech is ready (it is played unless it failed or was overtaken): the
\* turn is checkpointed, and ends the call if the policy said so.
Spoken ==
  /\ turn.at = "tts"
  /\ Checkpoint(memory) /\ turn' = Over(turn)
  /\ IF Ends THEN EndConversation(memory, turn.reason)
     ELSE UNCHANGED <<session, row, contact>>
  /\ UNCHANGED <<retryOf, suppressed, current, memory, talk, hook>>

MayPrompt == talk.prompts < MaxPrompts

\* The silence timer: one prompt, then the call ends.
Silence ==
  /\ Live /\ turn.at = "idle"
  /\ IF MayPrompt
     THEN /\ talk' = [talk EXCEPT !.prompts = @ + 1]
          /\ turn' = [turn EXCEPT !.at = "prompt"]
          /\ UNCHANGED <<snapshot, cache, session, row, contact>>
     ELSE /\ Checkpoint(memory) /\ EndConversation(memory, "silence_timeout")
          /\ turn' = Over(turn) /\ UNCHANGED talk
  /\ UNCHANGED <<retryOf, suppressed, current, memory, hook>>

PromptSpoken ==
  /\ turn.at = "prompt"
  /\ turn' = [turn EXCEPT !.at = "idle"]
  /\ UNCHANGED <<row, session, contact, retryOf, suppressed, snapshot, cache,
                 current, memory, talk, hook>>

\* Redis loses keys: expiry, eviction, a restart.
CacheLoss(a) ==
  /\ "cacheLoss" \in Env /\ cache[a] # NoMemory
  /\ cache' = [cache EXCEPT ![a] = NoMemory]
  /\ UNCHANGED <<row, session, contact, retryOf, suppressed, snapshot,
                 current, memory, talk, turn, hook>>

-----------------------------------------------------------------------------
Place == \E a \in Attempts :
  \/ CallAccepted(a)
  \/ \E reasoned, allowed \in BOOLEAN : CallRefused(a, reasoned, allowed)

Webhook == \/ \E a \in Attempts : HookLoad(a)
           \/ \E connected \in BOOLEAN : HookCommit(connected)

Customer == \/ \E phrase, late \in BOOLEAN : Utterance(phrase, late)
            \/ BargeIn
            \/ \E allowed \in BOOLEAN : Disconnect(allowed)

Agent == \/ LLMFails \/ LLMInvalid
         \/ \E o \in Answers : LLMAnswers(o)
         \/ Spoken \/ PromptSpoken

ConvNext ==
  \/ Place \/ Webhook \/ Customer \/ Agent \/ Silence
  \/ \E a \in Attempts : CacheLoss(a)

ConvSpec == ConvInit /\ [][ConvNext]_vars

\* The model answers or times out, the synthesis too, and the silence timer
\* runs.  Nothing is assumed of the customer, the provider or the webhook.
ConvFairSpec ==
  /\ ConvSpec
  /\ WF_vars(\E o \in Answers : LLMAnswers(o))
  /\ WF_vars(Spoken) /\ WF_vars(PromptSpoken) /\ WF_vars(Silence)

-----------------------------------------------------------------------------
(***************************************************************************)
(* Properties.                                                             *)
(***************************************************************************)
\* The agent does not persist (policy/engine.py 22-23): between turns of a call
\* that goes on nobody has opted out, the last answer was not a decline and
\* the last ones were not unclear as often as the limit, whatever the phase
\* the call was resumed in and whether or not the reply was interrupted.
NoPersisting ==
  Live /\ turn.at = "idle" =>
    ~suppressed /\ talk.declines = 0 /\ talk.unclear < MaxUnclear

\* An utterance with an opt-out phrase that got a turn puts the number on the
\* suppression list, whatever the model made of it and although the call was
\* lost meanwhile, unless the customer went on speaking over the answer.
OptOutHeard ==
  turn.at \in {"idle", "prompt"} /\ turn.phrase /\ ~suppressed =>
    turn.gen < talk.gen

\* After an opt-out the contact is never promised another call and never
\* counted as completed, also when the line drops between the opt-out and
\* the end of the call (orchestrator.py 347, manager.py 80-83).
OptOutHonoured ==
  suppressed /\ ~Live => contact \in {"CLOSED", "DISCONNECTED"}

\* A conversation has one outcome: once its session has ended neither the
\* session nor the attempt's state changes, though turns and webhooks that
\* began before may still finish (orchestrator.py 410, 440).
OutcomeIsFinal ==
  [][\A a \in Attempts : session[a] = "ENDED" =>
       session'[a] = "ENDED" /\ row'[a] = row[a]]_vars

\* A reconnected conversation starts from the last checkpoint of the attempt
\* it resumes, one disconnect on, from the cache as from PostgreSQL.
ReconnectReadsLatest ==
  [][\A a \in Attempts :
       session[a] = "none" /\ session'[a] = "ACTIVE" /\ retryOf # 0 =>
         \/ snapshot[retryOf] = NoMemory
         \/ memory' = [snapshot[retryOf] EXCEPT !.drops = @ + 1]]_vars

\* A conversation ends: turns and silence are bounded (orchestrator.py 49-53).
ConversationEnds == Live ~> ~Live
=============================================================================
