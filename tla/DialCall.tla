------------------------------- MODULE DialCall -------------------------------
(***************************************************************************)
(* _dial and everything below it: the idempotency checks, the two          *)
(* reconciliation lookups, the durable claim, the Dograh trigger and what  *)
(* the worker writes about its answer.                                     *)
(***************************************************************************)
EXTENDS DialWorker

-----------------------------------------------------------------------------
(* _dial up to the claim *)

\* What the session knows at each exit of Load: the lease is released when the
\* job is put aside, kept while it goes on.
Aside(w, label) ==
  /\ Goto(w, label)
  /\ lease' = Released(w)
  /\ UNCHANGED <<stream, job, seen, prior, ans>>

GoOn(w, label, kind) ==
  /\ Goto(w, label)
  /\ seen' = [seen EXCEPT ![w] = contact]
  /\ ans' = [ans EXCEPT ![w] = [kind |-> kind, run |-> 0]]
  /\ UNCHANGED <<stream, job, prior, lease>>

\* _is_held_attempt
InitiatedToo_Held(a) ==
  a.run = 0 /\ (a.state = "INITIATED" \/ (a.state = "FAILED_TO_CONNECT" /\ a.held))
Held(a) == a.run = 0 /\ a.state = "FAILED_TO_CONNECT" /\ a.held

\* _resolve_unresolved_dograh_claim up to its lookup: an existing attempt is
\* never triggered again, only resolved.
ResolveClaim(w, a) ==
  CASE a.state # "INITIATED" -> GoOn(w, "ack", "none")
    [] a.state = "INITIATED" /\ a.age = 0 -> Leave(w, TRUE)
    [] OTHER -> GoOn(w, "lookup1", "none")

\* DialEligibilityService.check without the window, which is transient.
Eligible ==
  /\ campaign = "ACTIVE"
  /\ contact.status \in {"PENDING", "DIALING", "RETRY_SCHEDULED"}
  /\ ~suppressed

\* _second_reconciliation_gate up to its lookup.
BlindRetry_RetryGate(w, n, kind) == GoOn(w, "claim", kind)
RetryGate(w, n, kind) ==
  IF n = 1 \/ attempt[n - 1].state = "none" THEN GoOn(w, "claim", kind)
  ELSE IF attempt[n - 1].state = "INITIATED" THEN GoOn(w, "ack", "none")
  ELSE IF Ambiguous(attempt[n - 1]) THEN GoOn(w, "lookup2", kind)
  ELSE GoOn(w, "claim", kind)

\* The reads of _dial.  They stay in the session (the contact as "seen") until
\* the claim writes from them.
Load(w) ==
  LET n == job[w].n
      a == attempt[n]
  IN /\ pc[w] = "load"
     /\ IF a.run # 0 THEN GoOn(w, "ack", "none")
        ELSE IF a.state # "none" /\ ~Held(a) THEN ResolveClaim(w, a)
        ELSE IF campaign = "PAUSED" THEN Aside(w, "paused")
        ELSE IF ~Eligible THEN GoOn(w, "ack", "none")
        ELSE IF ~windowOpen THEN Aside(w, "closed")
        ELSE RetryGate(w, n, IF Held(a) THEN "held" ELSE "none")
     /\ UNCHANGED <<pgVars, guard, sched, dograhVars, otherVars, known,
                    history>>

\* get_or_create: UNIQUE(contact, attempt number).
Taken(att, n) == att[n].state # "none"

\* The durable claim: contact and attempt commit together, before any request.
\* A held attempt is resumed on its row; otherwise UNIQUE(contact, number)
\* lets one worker create the row.
CommitClaim(w, n, att) ==
  LET c == seen[w]
      resume == ans[w].kind = "held"
  IN IF ~resume /\ Taken(att, n)
     THEN /\ Goto(w, "ack")
          /\ attempt' = att
          /\ UNCHANGED <<contact, prior, job, lease, seen, ans, stream>>
     ELSE /\ attempt' = [att EXCEPT ![n] = [@ EXCEPT !.state = "INITIATED",
                                                      !.held = FALSE,
                                                      !.provErr = FALSE,
                                                      !.age = 0]]
          /\ contact' = Merge(contact, c,
                              [status |-> "DIALING", count |-> c.count + 1,
                               due |-> FALSE, no |-> 0], FALSE)
          /\ prior' = [prior EXCEPT ![w] = c]
          /\ Goto(w, "send")
          /\ UNCHANGED <<job, lease, seen, ans, stream>>

\* Stage 2 of the gate, then the claim.
ClaimIfOpen(w, n, att) ==
  IF OutboundOpen(w)
  THEN CommitClaim(w, n, att)
  ELSE Leave(w, TRUE) /\ attempt' = att /\ UNCHANGED contact

Claim(w) ==
  /\ pc[w] = "claim"
  /\ ClaimIfOpen(w, job[w].n, attempt)
  /\ UNCHANGED <<campaign, suppressed, stop, windowOpen, guard, sched,
                 dograhVars, otherVars, known, history>>

-----------------------------------------------------------------------------
(* The second lookup: an ambiguous retry is re-checked before it is dialed *)

\* find_runs_for_attempt for attempt m; "down" when the answer cannot be
\* trusted.
Listing(m) ==
  CASE Cardinality(RunsOf(m)) = 0 -> [kind |-> "nothing", run |-> 0]
    [] Cardinality(RunsOf(m)) = 1 ->
         [kind |-> "one", run |-> CHOOSE k \in RunsOf(m) : TRUE]
    [] OTHER -> [kind |-> "many", run |-> 0]

\* The listing, combined with whether the attempt to dial is a held one.
Lookup2(w) ==
  /\ pc[w] = "lookup2"
  /\ LET found == Listing(job[w].n - 1)
     IN IF found.kind = "nothing"
        THEN UNCHANGED ans
        ELSE ans' = [ans EXCEPT ![w] = found]
  /\ Goto(w, "gate2")
  /\ UNCHANGED <<pgVars, redisVars, dograhVars, job, seen, prior, otherVars,
                 known, history>>

\* The lookup fails: defer, a bounded number of times, then give the retry up.
Unbounded_DeferralsSpent(m) == FALSE
DeferralsSpent(m) == attempt[m].deferrals >= MaxDeferrals

Lookup2Down(w) ==
  LET m == job[w].n - 1
  IN /\ pc[w] = "lookup2" /\ Fault("lookupDown")
     /\ IF DeferralsSpent(m)
        THEN /\ contact' = Merge(contact, seen[w],
                                 [seen[w] EXCEPT !.status = "COMPLETED_PARTIAL"],
                                 FALSE)
             /\ Goto(w, "ack")
             /\ UNCHANGED <<attempt, job, seen, prior, ans, stream, lease>>
        ELSE /\ attempt' = [attempt EXCEPT ![m].deferrals = @ + 1]
             /\ Leave(w, TRUE)
             /\ UNCHANGED contact
     /\ UNCHANGED <<campaign, suppressed, stop, windowOpen, guard, sched,
                    dograhVars, otherVars, known, triggers, holds>>

\* After the lookup the previous attempt is re-read FOR UPDATE; the lock is
\* held to the claim's commit, so re-read and claim are one step.
StillUnresolved(n) ==
  /\ attempt[n - 1].state = "FAILED_TO_CONNECT" /\ attempt[n - 1].run = 0
  /\ attempt[n].state = "none"

Gate2(w) ==
  LET n == job[w].n
      m == n - 1
  IN /\ pc[w] = "gate2"
     /\ \/ /\ ~StillUnresolved(n)
           /\ Goto(w, "ack")
           /\ UNCHANGED <<contact, attempt, job, seen, prior, ans, stream,
                          lease>>
        \/ /\ StillUnresolved(n) /\ ans[w].kind \in {"one", "many"}
           /\ attempt' = [attempt EXCEPT
                            ![m] = [Reopened(@) EXCEPT !.run = ans[w].run]]
           /\ contact' = Merge(contact, seen[w],
                               [seen[w] EXCEPT !.status = "DIALING"], FALSE)
           /\ Goto(w, "ack")
           /\ UNCHANGED <<job, seen, prior, ans, stream, lease>>
        \/ /\ StillUnresolved(n) /\ ans[w].kind \in {"none", "held"}
           /\ ClaimIfOpen(w, n, attempt)
     /\ UNCHANGED <<campaign, suppressed, stop, windowOpen, guard, sched,
                    dograhVars, otherVars, known, history>>

-----------------------------------------------------------------------------
(* The trigger *)

\* trigger_call: the request leaves.  Reading the phone number after the commit
\* reloads the contact.
Send(w) ==
  /\ pc[w] = "send"
  /\ wire' = wire \cup {[n |-> job[w].n, w |-> w]}
  /\ triggers' = [triggers EXCEPT ![job[w].n] = @ + 1]
  /\ seen' = [seen EXCEPT ![w] = contact]
  /\ Goto(w, "await")
  /\ UNCHANGED <<pgVars, redisVars, run, job, prior, ans, otherVars, known,
                 faults, holds>>

\* Success: the run id is recorded.  State and contact are left to the webhook.
AnswerOk(w) ==
  /\ pc[w] = "answer" /\ ans[w].kind = "ok"
  /\ attempt' = [attempt EXCEPT ![job[w].n] = [@ EXCEPT !.run = ans[w].run,
                                                       !.held = FALSE]]
  /\ Goto(w, "ack")
  /\ UNCHANGED <<contact, campaign, suppressed, stop, windowOpen, redisVars,
                 dograhVars, job, seen, prior, ans, otherVars, known,
                 history>>

\* _hold_for_provider_halt (a configuration error, or one permanent failure too
\* many in a row): engage the halt, record the hold, restore the contact, leave
\* the job pending.
Restored(c, p) == [c EXCEPT !.status = p.status, !.count = p.count]

\* PROVIDER_HALTED leaves the entry pending.
KeepJob(w) == Leave(w, TRUE)

\* The halt is engaged in a transaction of its own, and first.
EngageHalt(w) ==
  /\ pc[w] = "answer" /\ ans[w].kind = "config"
  /\ stop' = stop \cup {"halt"}
  /\ known' = [known EXCEPT ![w] = stop']
  /\ Goto(w, "hold")
  /\ UNCHANGED <<contact, attempt, campaign, suppressed, windowOpen, redisVars,
                 dograhVars, job, seen, prior, ans, otherVars, history>>

AnswerConfig(w) ==
  LET n == job[w].n
  IN /\ pc[w] = "hold"
     /\ attempt' = [attempt EXCEPT ![n] = [@ EXCEPT !.state = "FAILED_TO_CONNECT",
                                                   !.provErr = TRUE,
                                                   !.held = TRUE]]
     /\ contact' = Merge(contact, seen[w], Restored(seen[w], prior[w]), FALSE)
     /\ holds' = [holds EXCEPT ![n] = @ + 1]
     /\ KeepJob(w)
     /\ UNCHANGED <<campaign, suppressed, stop, windowOpen, guard, sched,
                    dograhVars, otherVars, known, faults, triggers>>

\* _record_dograh_trigger_failure: the attempt fails, RecoveryManager decides.
FailedAttempt(n, amb) ==
  [attempt EXCEPT ![n] = [@ EXCEPT !.state = "FAILED_TO_CONNECT", !.provErr = TRUE,
                                   !.amb = attempt[n].amb \/ amb, !.held = FALSE]]

RecordFailure(w, amb, reason) ==
  LET n == job[w].n
      att == FailedAttempt(n, amb)
      d == HandleDisconnect(seen[w], att, n, reason)
  IN /\ attempt' = att
     /\ contact' = Merge(contact, seen[w], d.contact, d.entries # {})
     /\ sched' = sched \cup d.entries
     /\ Goto(w, "ack")
     /\ UNCHANGED <<campaign, suppressed, stop, windowOpen, stream, guard,
                    lease, dograhVars, job, seen, prior, ans, otherVars,
                    known, history>>

AnswerFailed(w) ==
  /\ pc[w] = "answer"
  /\ \/ ans[w].kind = "reject" /\ RecordFailure(w, FALSE, "provider")
     \/ ans[w].kind = "permanent" /\ RecordFailure(w, FALSE, "final")

\* An ambiguous answer is looked up before anything is recorded.
AnswerAmbiguous(w) ==
  /\ pc[w] = "answer" /\ ans[w].kind = "ambiguous"
  /\ Goto(w, "lookup1")
  /\ UNCHANGED <<pgVars, redisVars, dograhVars, job, seen, prior, ans,
                 otherVars, known, history>>

Lookup1(w) ==
  /\ pc[w] = "lookup1"
  /\ \/ ans' = [ans EXCEPT ![w] = Listing(job[w].n)] /\ UNCHANGED faults
     \/ /\ Fault("lookupDown")
        /\ ans' = [ans EXCEPT ![w] = [kind |-> "down", run |-> 0]]
  /\ Goto(w, "resolve1")
  /\ UNCHANGED <<pgVars, redisVars, dograhVars, job, seen, prior, otherVars,
                 known, triggers, holds>>

\* One run: adopt it.  Several: choose none.  Otherwise an ambiguous failure.
Resolve1(w) ==
  /\ pc[w] = "resolve1"
  /\ \/ /\ ans[w].kind \in {"one", "many"}
        /\ attempt' = IF ans[w].kind = "one"
                      THEN [attempt EXCEPT ![job[w].n].run = ans[w].run]
                      ELSE attempt
        /\ Goto(w, "ack")
        /\ UNCHANGED <<contact, campaign, suppressed, stop, windowOpen,
                       redisVars, dograhVars, job, seen, prior, ans,
                       otherVars, known, history>>
     \/ /\ ans[w].kind \in {"nothing", "down"}
        /\ RecordFailure(w, TRUE, "provider")

\* _handle_never_connected_failure catches every Exception, the job deadline's
\* included: the attempt's failure commits and the recovery decision does not.
RecoverySwallowed(w) ==
  /\ pc[w] = "resolve1" /\ ans[w].kind \in {"nothing", "down"}
  /\ Fault("swallow")
  /\ attempt' = FailedAttempt(job[w].n, TRUE)
  /\ Goto(w, "ack")
  /\ UNCHANGED <<contact, campaign, suppressed, stop, windowOpen, redisVars,
                 dograhVars, job, seen, prior, ans, otherVars, known,
                 triggers, holds>>

-----------------------------------------------------------------------------
(* Interruption *)

\* The process dies: what it committed stays, its lease lives to its expiry.
Crash(w) ==
  /\ pc[w] # "idle" /\ Fault("crash")
  /\ ToIdle(w)
  /\ job' = [job EXCEPT ![w] = NoJob]
  /\ lease' = [n \in Attempts |-> IF lease[n] = w THEN "dead" ELSE lease[n]]
  /\ UNCHANGED <<pgVars, stream, guard, sched, dograhVars, otherVars, known,
                 triggers, holds>>

\* JobDeadlineExceeded or any other exception: rollback, lease released, the
\* entry stays pending and keeps its delivery count.
Abandon(w) ==
  /\ pc[w] \notin {"idle", "ack"} /\ Fault("deadline")
  /\ Leave(w, FALSE)
  /\ UNCHANGED <<pgVars, guard, sched, dograhVars, otherVars, known, triggers,
                 holds>>

\* The worker's cached copy of the outbound controls runs out.
CacheExpires(w) ==
  /\ known[w] # stop
  /\ known' = [known EXCEPT ![w] = stop]
  /\ UNCHANGED <<pgVars, redisVars, dograhVars, pc, job, seen, prior, ans,
                 otherVars, history>>

LeaseExpires ==
  /\ \E n \in Attempts :
       lease[n] = "dead" /\ lease' = [lease EXCEPT ![n] = "free"]
  /\ UNCHANGED <<pgVars, stream, guard, sched, dograhVars, workerVars,
                 otherVars, history>>

WorkerStep(w) ==
  \/ Blocked(w) \/ PutAside(w) \/ Admit(w) \/ NotAdmitted(w)
  \/ SettlePaused(w) \/ SettleWindow(w) \/ Unguard(w) \/ Ack(w)
  \/ Load(w) \/ Lookup2(w) \/ Lookup2Down(w) \/ Gate2(w) \/ Claim(w) \/ Send(w)
  \/ AnswerOk(w) \/ EngageHalt(w) \/ AnswerConfig(w) \/ AnswerFailed(w) \/ AnswerAmbiguous(w)
  \/ Lookup1(w) \/ Resolve1(w)

WorkerFault(w) == Crash(w) \/ Abandon(w) \/ RecoverySwallowed(w)
=============================================================================
