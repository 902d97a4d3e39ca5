----------------------------- MODULE DialProtocol -----------------------------
(***************************************************************************)
(* The dial protocol of one contact: dialer workers, recovery path and     *)
(* webhook handler composed over PostgreSQL, Redis and Dograh, together    *)
(* with the operators and the faults around them.                          *)
(***************************************************************************)
EXTENDS DialCall, DialRecovery, DialWebhook

-----------------------------------------------------------------------------
(* Operators, the clock and Redis *)

Pause ==
  /\ May("pause") /\ campaign = "ACTIVE"
  /\ campaign' = "PAUSED"
  /\ UNCHANGED <<contact, attempt, suppressed, stop, windowOpen, redisVars,
                 dograhVars, workerVars, otherVars, history>>

\* PAUSED to ACTIVE, and requeue_after_resume, which the kill switch refuses.
Resume ==
  /\ campaign = "PAUSED"
  /\ campaign' = "ACTIVE"
  /\ IF "kill" \in stop THEN UNCHANGED <<stream, guard>> ELSE EnqueueScan
  /\ UNCHANGED <<contact, attempt, suppressed, stop, windowOpen, sched, lease,
                 dograhVars, workerVars, otherVars, history>>

Complete ==
  /\ May("complete") /\ campaign # "COMPLETED"
  /\ campaign' = "COMPLETED"
  /\ UNCHANGED <<contact, attempt, suppressed, stop, windowOpen, redisVars,
                 dograhVars, workerVars, otherVars, history>>

WindowTurns ==
  /\ May("window")
  /\ windowOpen' = ~windowOpen
  /\ UNCHANGED <<contact, attempt, campaign, suppressed, stop, redisVars,
                 dograhVars, workerVars, otherVars, history>>

KillSwitch ==
  /\ May("stop") /\ "kill" \notin stop
  /\ stop' = stop \cup {"kill"}
  /\ UNCHANGED <<contact, attempt, campaign, suppressed, windowOpen, redisVars,
                 dograhVars, workerVars, otherVars, history>>

ReleaseStop ==
  /\ \E s \in stop : stop' = stop \ {s}
  /\ UNCHANGED <<contact, attempt, campaign, suppressed, windowOpen, redisVars,
                 dograhVars, workerVars, otherVars, history>>

\* The number is put on the do-not-call list, or the contact is deactivated.
Suppress ==
  /\ May("suppress")
  /\ \/ ~suppressed /\ suppressed' = TRUE /\ UNCHANGED contact
     \/ /\ contact.status # "CLOSED"
        /\ contact' = [contact EXCEPT !.status = "CLOSED"]
        /\ UNCHANGED suppressed
  /\ UNCHANGED <<attempt, campaign, stop, windowOpen, redisVars, dograhVars,
                 workerVars, otherVars, history>>

GuardExpires ==
  /\ guard # {} /\ Fault("guardExpiry")
  /\ \E n \in guard : guard' = guard \ {n}
  /\ UNCHANGED <<pgVars, stream, sched, lease, dograhVars, workerVars,
                 otherVars, triggers, holds>>

\* Redis comes back empty: stream, guards, schedule and leases are gone, and
\* the message ids workers still hold no longer exist.
RedisLoss ==
  /\ Fault("redisLoss")
  /\ stream' = [s \in Slots |-> NoMessage]
  /\ guard' = {} /\ sched' = {}
  /\ lease' = [n \in Attempts |-> "free"]
  /\ job' = [w \in Workers |-> [job[w] EXCEPT !.slot = 0]]
  /\ UNCHANGED <<pgVars, dograhVars, pc, seen, prior, ans, known, otherVars,
                 triggers, holds>>

Environment ==
  \/ Pause \/ Resume \/ Complete \/ WindowTurns \/ KillSwitch \/ ReleaseStop
  \/ Suppress \/ GuardExpires \/ RedisLoss

Next ==
  \/ \E w \in Workers : \/ Read(w) \/ Reclaim(w) \/ DeadLetter(w)
                        \/ WorkerStep(w) \/ WorkerFault(w) \/ CacheExpires(w)
  \/ LeaseExpires
  \/ RecoveryStep \/ DispatchAbort
  \/ DograhStep \/ HookStep \/ HookAbort
  \/ Environment

Spec == Init /\ [][Next]_vars

-----------------------------------------------------------------------------
(* What keeps running: every worker process loops, the dispatcher, the       *)
(* rebuild and the sweeper are called from that loop, a request is answered  *)
(* or times out, the clock moves, and a handler that started finishes.  No   *)
(* fairness for operators (enqueue, resume, release), for faults, or for     *)
(* Dograh's calls and webhooks: a run may stay live and its webhook be lost. *)

Fairness ==
  /\ \A w \in Workers :
       WF_vars(Read(w) \/ Reclaim(w) \/ DeadLetter(w) \/ WorkerStep(w))
  /\ WF_vars(DispatchClaim \/ DispatchRetry \/ DispatchCommit \/ DispatchDial)
  /\ WF_vars(Rebuild)
  /\ \A n \in Attempts : WF_vars(AttemptAges(n)) /\ WF_vars(Sweep(n))
  /\ WF_vars(Accept \/ Refuse)
  /\ WF_vars(HookCommit)
  /\ WF_vars(LeaseExpires) /\ \A w \in Workers : WF_vars(CacheExpires(w))

FairSpec == Spec /\ Fairness

-----------------------------------------------------------------------------
(* Safety *)

\* A trigger is sent at most once for an attempt number, plus once more for
\* every time Dograh refused the attempt's configuration and the attempt was
\* put on hold.  Dograh's trigger has no idempotency key, so a second request
\* is a second phone call; duplicated deliveries, reclaims, crashes between
\* claim and trigger and a lost Redis must all come to rest on the attempt row.
OneTriggerPerAttempt ==
  \A n \in Attempts : triggers[n] <= 1 + holds[n]

\* attempt_count is the number of attempts spent on the contact: the rows that
\* exist and are not on hold.
CountMatchesClaims ==
  contact.count = Cardinality({n \in Attempts : attempt[n].state # "none"
                                                /\ ~attempt[n].held})

\* A retry that was promised and is still owed exists somewhere the system will
\* look: in PostgreSQL for the rebuild, in the schedule, in the stream or in hand.
RetryHasHome ==
  contact.status = "RETRY_SCHEDULED" /\ ~suppressed /\ campaign # "COMPLETED" =>
    \/ RetryRebuildable
    \/ sched # {} \/ disp.pc # "idle"
    \/ \E s \in Slots : stream[s].st # "empty"
    \/ \E w \in Workers : pc[w] # "idle"

\* The enqueue guard refuses to queue a first dial only while that dial is
\* somewhere: a job put aside (pause, closed window) takes its guard with it.
GuardHasJob ==
  1 \in guard /\ Unattempted(contact) /\ ~suppressed /\ campaign # "COMPLETED"
    => \/ \E s \in Slots : stream[s].st # "empty" /\ stream[s].n = 1
       \/ \E w \in Workers : pc[w] # "idle" /\ job[w].n = 1
       \/ \E e \in sched : e.kind = "dial"
       \/ disp.pc # "idle" /\ disp.e.kind = "dial"

\* A contact shown as being dialed has an attempt in flight, which the webhook
\* or the sweeper will end.
DialingHasAttempt ==
  contact.status = "DIALING" /\ ~suppressed =>
    \E n \in Attempts : attempt[n].state = "INITIATED"

Conversed ==
  \E n \in Attempts, k \in RunIds :
    <<n, k>> \in processed /\ run[n][k] \in {"ended", "optout"}

\* Once the webhook of a held conversation is processed the person is not
\* called again: no attempt is ever added after it.
ConversationIsFinal ==
  [][Conversed =>
       \A n \in Attempts : attempt[n].state = "none" =>
                              attempt'[n].state = "none"]_vars

\* Where no attempt is put on hold, the protocol implements DialContract: every
\* step of workers, dispatcher, sweeper, webhook and faults is a step of the
\* contract or none.
Contract == INSTANCE DialContract WITH
  Numbers <- Attempts, Calls <- RunIds, Limit <- MaxRetries + 1,
  opened <- {n \in Attempts : attempt[n].state # "none"},
  asked  <- triggers,
  line   <- {r \in Attempts \X RunIds : run[r[1]][r[2]] = "live"}

KeepsContract == Contract!ContractSpec

-----------------------------------------------------------------------------
(* Liveness *)

Settled == {"COMPLETED", "COMPLETED_PARTIAL", "CLOSED", "NEEDS_REVIEW"}

\* A contact whose dialing began is eventually settled, even when a worker or
\* the dispatcher dies, Redis comes back empty, or the webhook never arrives:
\* it is completed, given up by policy, closed, or parked for a person.
DialingSettles ==
  contact.status \in {"DIALING", "RETRY_SCHEDULED", "DISCONNECTED"}
    ~> contact.status \in Settled
=============================================================================
