----------------------------- MODULE DialRecovery -----------------------------
(***************************************************************************)
(* What brings a contact back: the recovery dispatcher (schedule to        *)
(* stream), the rebuild of the schedule from PostgreSQL, the stuck-call    *)
(* sweeper and the enqueue scan.  The dispatcher writes Redis before its   *)
(* transaction commits, so its commit is a step of its own.                *)
(***************************************************************************)
EXTENDS DialState

-----------------------------------------------------------------------------
(* dispatch_due_recovery_jobs *)

\* The back-off before a retry is longer than a request can be in transit,
\* unless the instance includes requests that land arbitrarily late.
Landed(n) == May("lateLanding") \/ \A r \in wire : r.n # n

\* A worker is between its claim of attempt n, or its check of a claim that
\* somebody left behind, and its last write about the attempt.
AtWork(n) ==
  \E w \in Workers :
    pc[w] \in {"send", "await", "answer", "hold", "lookup1", "resolve1"}
    /\ job[w].n = n

\* The back-off (min_retry_backoff_seconds) is also longer than a job may run
\* (job_deadline_seconds): whoever was at work when attempt n was decided is
\* gone when the retry falls due.
Rested(n) ==
  Landed(n) /\ (May("lateLanding") \/ attempt[n].state = "INITIATED" \/ ~AtWork(n))

\* due_jobs and claim (ZREM): one dispatcher owns the entry from here on.
DispatchClaim ==
  /\ disp.pc = "idle"
  /\ \E e \in sched :
       /\ e.kind # "dial" => Rested(e.n - 1)
       /\ sched' = sched \ {e}
       /\ disp' = [pc |-> "claimed", e |-> e, seen |-> NewContact]
  /\ UNCHANGED <<pgVars, stream, guard, lease, dograhVars, workerVars, hook,
                 processed, history>>

\* Every dispatcher decision about a retry but a full stream adds an event to
\* the previous attempt, which is then no longer "held".
Noted(n) == [attempt EXCEPT ![n].held = FALSE]

RetryWanted ==
  /\ contact.status = "RETRY_SCHEDULED" /\ ~suppressed /\ campaign # "COMPLETED"

\* _process_one on the claimed entry, up to its commit: drop it, move it
\* forward (paused, closed window, full stream), or hand it to the dialer.
RowExists(n) == attempt[n].state # "none"

DispatchRetry ==
  LET e == disp.e
      n == e.n
      decide(label) == disp' = [disp EXCEPT !.pc = label, !.seen = contact]
      \* reschedule and the window's own re-entry keep the member as it was
      forward == sched' = sched \cup {e} /\ UNCHANGED <<stream, guard>>
      drop == UNCHANGED <<sched, stream, guard>>
  IN /\ disp.pc = "claimed" /\ e.kind # "dial"
     /\ \/ ~RetryWanted /\ drop /\ decide("clear")
        \/ RetryWanted /\ campaign = "PAUSED" /\ forward /\ decide("keep")
        \/ /\ RetryWanted /\ campaign = "ACTIVE" /\ ~windowOpen
           /\ forward /\ decide("keep")
        \/ /\ RetryWanted /\ campaign = "ACTIVE" /\ windowOpen /\ RowExists(n)
           /\ drop /\ decide("clear")
        \/ /\ RetryWanted /\ campaign = "ACTIVE" /\ windowOpen /\ ~RowExists(n)
           /\ n \notin guard /\ FreeSlots = {}
           /\ forward /\ decide("full")
        \/ /\ RetryWanted /\ campaign = "ACTIVE" /\ windowOpen /\ ~RowExists(n)
           /\ n \in guard \/ FreeSlots # {}
           /\ EnqueueOnce(n, TRUE) /\ UNCHANGED sched
           /\ decide("keep")
     /\ UNCHANGED <<pgVars, lease, dograhVars, workerVars, hook, processed,
                    history>>

\* The decisions that clear the retry columns (_clear_schedule).
HandedOff_Cleared(label) == label \in {"clear", "keep"}
Cleared(label) == label = "clear"

\* The dispatcher's commit: _clear_schedule, or a new next_retry_at.
DispatchCommit ==
  /\ disp.pc \in {"keep", "full", "clear"}
  /\ contact' = IF Cleared(disp.pc)
                THEN Merge(contact, disp.seen,
                           [disp.seen EXCEPT !.due = FALSE, !.no = 0], FALSE)
                ELSE Merge(contact, disp.seen,
                           [disp.seen EXCEPT !.due = TRUE], TRUE)
  /\ attempt' = IF disp.e.n > 1 /\ disp.pc # "full"
                THEN Noted(disp.e.n - 1) ELSE attempt
  /\ disp' = NoDispatch
  /\ UNCHANGED <<campaign, suppressed, stop, windowOpen, redisVars, dograhVars,
                 workerVars, hook, processed, history>>

\* _process_deferred_dial: a first attempt goes back to the stream, waits for
\* the next window or the end of the pause, or is no longer owed.
DispatchDial ==
  LET owed == Unattempted(contact) /\ ~suppressed /\ campaign # "COMPLETED"
      wait == campaign = "PAUSED" \/ ~windowOpen
              \/ (1 \notin guard /\ FreeSlots = {})
  IN /\ disp.pc = "claimed" /\ disp.e.kind = "dial"
     /\ \/ ~owed /\ UNCHANGED <<sched, stream, guard>>
        \/ /\ owed /\ wait
           /\ sched' = sched \cup {disp.e}
           /\ UNCHANGED <<stream, guard>>
        \/ owed /\ ~wait /\ EnqueueOnce(1, FALSE) /\ UNCHANGED sched
     /\ disp' = NoDispatch
     /\ UNCHANGED <<pgVars, lease, dograhVars, workerVars, hook, processed,
                    history>>

\* An exception rolls the transaction back and puts the entry back; a crash
\* loses the claimed entry.
DispatchAbort ==
  /\ disp.pc # "idle"
  /\ \/ Fault("deadline") /\ sched' = sched \cup {disp.e}
     \/ Fault("crash") /\ UNCHANGED sched
  /\ disp' = NoDispatch
  /\ UNCHANGED <<pgVars, stream, guard, lease, dograhVars, workerVars, hook,
                 processed, triggers, holds>>

-----------------------------------------------------------------------------
(* rebuild_retry_schedule *)

Latest ==
  CHOOSE n \in Attempts \cup {0} :
    /\ n = 0 \/ attempt[n].state # "none"
    /\ \A m \in Attempts : attempt[m].state # "none" => m <= n

\* _job_for: the recorded number, or the one after the latest attempt.
RebuiltNumber == IF contact.no # 0 THEN contact.no ELSE Latest + 1

RetryRebuildable == contact.status = "RETRY_SCHEDULED" /\ contact.due

Rebuild ==
  /\ RetryRebuildable
  /\ Latest # 0 \/ contact.no # 0
  /\ RebuiltNumber \in Attempts
  /\ sched' = sched \cup {[n |-> RebuiltNumber, kind |-> "retry"]}
  /\ UNCHANGED <<pgVars, stream, guard, lease, dograhVars, workerVars,
                 otherVars, history>>

-----------------------------------------------------------------------------
(* sweep_stuck_attempts *)

\* An attempt ages past the in-flight window only when the worker that claimed
\* it is gone (the job deadline is shorter) and its request has landed.
AttemptAges(n) ==
  /\ attempt[n].state = "INITIATED" /\ attempt[n].age < 2
  /\ ~AtWork(n) /\ Landed(n)
  /\ attempt' = [attempt EXCEPT ![n].age = @ + 1]
  /\ UNCHANGED <<contact, campaign, suppressed, stop, windowOpen, redisVars,
                 dograhVars, workerVars, otherVars, history>>

\* _mark_for_review: never redials, and an attempt without a run id becomes an
\* ambiguous failure so that a late webhook can still adopt its run.
Reviewed(a) ==
  IF a.run = 0
  THEN [a EXCEPT !.state = "FAILED_TO_CONNECT", !.provErr = TRUE, !.amb = TRUE]
  ELSE a

OnlyWithoutRun_Stuck(n) ==
  /\ attempt[n].state = "INITIATED" /\ attempt[n].age = 2 /\ attempt[n].run = 0
  /\ contact.status = "DIALING"
Stuck(n) ==
  /\ attempt[n].state = "INITIATED" /\ attempt[n].age = 2
  /\ contact.status = "DIALING"

Sweep(n) ==
  /\ "kill" \notin stop /\ Stuck(n)
  /\ attempt' = [attempt EXCEPT ![n] = Reviewed(@)]
  /\ contact' = [contact EXCEPT !.status = "NEEDS_REVIEW"]
  /\ UNCHANGED <<campaign, suppressed, stop, windowOpen, redisVars, dograhVars,
                 workerVars, otherVars, history>>

-----------------------------------------------------------------------------
(* enqueue_campaign *)

\* The scan for this contact: PENDING, never attempted, not suppressed.
EnqueueScan ==
  IF Unattempted(contact) /\ ~suppressed
  THEN EnqueueOnce(1, FALSE) ELSE UNCHANGED <<stream, guard>>

Enqueue ==
  /\ campaign = "ACTIVE" /\ "kill" \notin stop
  /\ EnqueueScan
  /\ UNCHANGED <<pgVars, sched, lease, dograhVars, workerVars, otherVars,
                 history>>

RecoveryStep ==
  \/ DispatchClaim \/ DispatchRetry \/ DispatchCommit \/ DispatchDial
  \/ Rebuild \/ Enqueue
  \/ \E n \in Attempts : AttemptAges(n) \/ Sweep(n)
=============================================================================
