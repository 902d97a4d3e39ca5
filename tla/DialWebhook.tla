----------------------------- MODULE DialWebhook -----------------------------
(***************************************************************************)
(* Dograh as the code uses it (trigger requests, runs, completion          *)
(* webhooks) and process_dograh_webhook.  The handler reads its rows, may  *)
(* fetch a transcript, and commits: two steps, between which the dialer,   *)
(* the dispatcher and the sweeper may commit.                              *)
(***************************************************************************)
EXTENDS DialState

-----------------------------------------------------------------------------
(* Dograh *)

Waits(r) == pc[r.w] = "await" /\ job[r.w].n = r.n

\* The answer reaches the worker if it is still waiting for it.
Answer(r, a) ==
  IF Waits(r)
  THEN /\ pc' = [pc EXCEPT ![r.w] = "answer"]
       /\ ans' = [ans EXCEPT ![r.w] = a]
  ELSE UNCHANGED <<pc, ans>>

\* Dograh accepts a request: there is now a run, whether or not the answer
\* gets back ("ambiguous": a timeout or a 5xx after the run was created).
Accept ==
  \E r \in wire, k \in RunIds :
    /\ run[r.n][k] = "none" /\ \A j \in RunIds : j < k => run[r.n][j] # "none"
    /\ run' = [run EXCEPT ![r.n][k] = "live"]
    /\ wire' = wire \ {r}
    /\ \/ Answer(r, [kind |-> "ok", run |-> k])
       \/ May("ambiguous") /\ Answer(r, [kind |-> "ambiguous", run |-> 0])
    /\ UNCHANGED <<pgVars, redisVars, job, seen, prior, otherVars, known,
                   history>>

\* Dograh refuses it (a configuration error counts as a fault; rate limit or
\* transient error, permanent error), or it is lost on the way ("ambiguous").
Refuse ==
  \E r \in wire :
    /\ wire' = wire \ {r}
    /\ \/ Fault("config") /\ Answer(r, [kind |-> "config", run |-> 0])
       \/ /\ May("reject") /\ UNCHANGED faults
          /\ \E kind \in {"reject", "permanent"} :
               Answer(r, [kind |-> kind, run |-> 0])
       \/ /\ May("ambiguous") /\ UNCHANGED faults
          /\ Answer(r, [kind |-> "ambiguous", run |-> 0])
    /\ UNCHANGED <<pgVars, redisVars, run, job, seen, prior, otherVars, known,
                   triggers, holds>>

\* The client times out while the request is still on its way.
TimeOut(w) ==
  /\ pc[w] = "await" /\ May("ambiguous")
  /\ pc' = [pc EXCEPT ![w] = "answer"]
  /\ ans' = [ans EXCEPT ![w] = [kind |-> "ambiguous", run |-> 0]]
  /\ UNCHANGED <<pgVars, redisVars, dograhVars, job, seen, prior, otherVars,
                 known, history>>

\* The call ends.
RunEnds(n, k) ==
  /\ run[n][k] = "live"
  /\ \E o \in Outcomes : run' = [run EXCEPT ![n][k] = o]
  /\ UNCHANGED <<pgVars, redisVars, wire, workerVars, otherVars, history>>

-----------------------------------------------------------------------------
(* process_dograh_webhook *)

Fresh(n, k) == <<n, k>> \notin processed

\* _validate_correlation and the refusal of terminal attempts.
Acceptable(n, k) ==
  /\ attempt[n].run \in {0, k}
  /\ Ambiguous(attempt[n]) \/ attempt[n].state \notin Terminal

\* A delivery (first, repeated or late) of a finished run's webhook passes the
\* checks; a refused one changes nothing but the audit log.
HookLoad(n, k) ==
  /\ ~hook.on
  /\ run[n][k] \in Outcomes /\ attempt[n].state # "none"
  /\ Fresh(n, k) /\ Acceptable(n, k)
  /\ hook' = [on |-> TRUE, n |-> n, k |-> k, amb |-> Ambiguous(attempt[n]),
              bound |-> attempt[n].run # 0, seen |-> contact]
  /\ UNCHANGED <<pgVars, redisVars, dograhVars, workerVars, disp, processed,
                 history>>

FinalState(o) ==
  CASE o \in {"ended", "optout"} -> "ENDED_NORMALLY"
    [] o = "dropped" -> "DROPPED_MID_CALL"
    [] OTHER -> "FAILED_TO_CONNECT"

Reason(o) ==
  CASE o \in {"noanswer", "dropped"} -> "retryable"
    [] o = "error" -> "provider"
    [] OTHER -> "final"

\* The attempt as the handler leaves it.
HookAttempt(a, o) ==
  [a EXCEPT !.state = FinalState(o),
            !.run = IF hook.amb \/ ~hook.bound THEN hook.k ELSE @,
            !.provErr = IF FinalState(o) = "FAILED_TO_CONNECT"
                        THEN o # "noanswer"
                        ELSE @ /\ ~hook.amb,
            !.held = FALSE]

\* The contact in the session before RecoveryManager: adoption reopens it, an
\* opt-out closes it, a dropped call disconnects it.
HookContact(c, o) ==
  LET reopened == IF hook.amb THEN [c EXCEPT !.status = "DIALING"] ELSE c
  IN CASE o = "optout" -> [reopened EXCEPT !.status = "CLOSED"]
       [] o = "ended" -> [reopened EXCEPT !.status = "COMPLETED"]
       [] o = "dropped" -> [reopened EXCEPT !.status = "DISCONNECTED"]
       [] OTHER -> reopened

\* What the row holds once the session's intermediate flushes are written: an
\* adoption has already written DIALING.
HookBase(c) == IF hook.amb THEN [c EXCEPT !.status = "DIALING"] ELSE c

\* claim_event, the outcome, the recovery decision, one commit.  The schedule
\* entry is a Redis write of the same handler.
HookCommit ==
  LET n == hook.n
      o == run[n][hook.k]
      att == [attempt EXCEPT ![n] = HookAttempt(@, o)]
      c == HookContact(hook.seen, o)
      d == IF FinalState(o) = "ENDED_NORMALLY"
           THEN [contact |-> c, entries |-> {}]
           ELSE HandleDisconnect(c, att, n, Reason(o))
  IN /\ hook.on
     /\ attempt' = att
     /\ contact' = Merge(HookBase(contact), HookBase(hook.seen), d.contact,
                         d.entries # {})
     /\ suppressed' = (suppressed \/ o = "optout")
     /\ sched' = sched \cup d.entries
     /\ processed' = processed \cup {<<n, hook.k>>}
     /\ hook' = NoHook
     /\ UNCHANGED <<campaign, stop, windowOpen, stream, guard, lease,
                    dograhVars, workerVars, disp, history>>

\* The request fails before its commit.  Dograh delivers again; a schedule
\* entry written before the failure stays in Redis.
HookAbort ==
  /\ hook.on /\ Fault("webhookAbort")
  /\ hook' = NoHook
  /\ \/ UNCHANGED sched
     \/ sched' = sched \cup HandleDisconnect(
                   HookContact(hook.seen, run[hook.n][hook.k]), attempt,
                   hook.n, Reason(run[hook.n][hook.k])).entries
  /\ UNCHANGED <<pgVars, stream, guard, lease, dograhVars, workerVars, disp,
                 processed, triggers, holds>>

DograhStep ==
  \/ Accept \/ Refuse
  \/ \E w \in Workers : TimeOut(w)
  \/ \E n \in Attempts, k \in RunIds : RunEnds(n, k)

HookStep == (\E n \in Attempts, k \in RunIds : HookLoad(n, k)) \/ HookCommit
=============================================================================
