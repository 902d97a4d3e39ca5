------------------------------ MODULE DialWorker ------------------------------
(***************************************************************************)
(* The dialer worker (dialer_worker.py): one delivery of one DialJob, from *)
(* the read of the stream to the ack.  A step ends where the code commits, *)
(* talks to Redis or Dograh, or reads something it will use after another  *)
(* process may have changed it:                                            *)
(*                                                                         *)
(*   taken -> load -> claim -> send -> await -> answer -> ack              *)
(*                 \-> lookup2 -> gate2 /          \-> lookup1 -> resolve1 *)
(*   taken, load -> paused | closed -> (unguard ->) ack   jobs put aside   *)
(***************************************************************************)
EXTENDS DialState

Goto(w, label) == pc' = [pc EXCEPT ![w] = label]

\* The job's own entries in pc, job, seen, prior and ans are cleared.
ToIdle(w) ==
  /\ pc' = [pc EXCEPT ![w] = "idle"]
  /\ seen' = [seen EXCEPT ![w] = NewContact]
  /\ prior' = [prior EXCEPT ![w] = NewContact]
  /\ ans' = [ans EXCEPT ![w] = NoAnswer]

\* admission.release: frees the lease only if it is this worker's own.
Released(w) ==
  [n \in Attempts |-> IF lease[n] = w THEN "free" ELSE lease[n]]

\* An entry leaves the stream: whoever else still has it in hand now holds a
\* message id that no longer exists.
Forget(w, s) ==
  [v \in Workers |-> IF v = w THEN NoJob
                     ELSE IF s # 0 /\ job[v].slot = s
                          THEN [job[v] EXCEPT !.slot = 0] ELSE job[v]]

-----------------------------------------------------------------------------
(* Taking a job *)

\* process_one_job: stage 0 of the outbound gate, then XREADGROUP.
Read(w) ==
  /\ pc[w] = "idle" /\ OutboundOpen(w)
  /\ \E s \in Slots :
       /\ stream[s].st = "new"
       /\ stream' = [stream EXCEPT ![s] = [@ EXCEPT !.st = "pending", !.del = 1]]
       /\ job' = [job EXCEPT ![w] = [slot |-> s, n |-> stream[s].n,
                                     retry |-> stream[s].retry]]
  /\ Goto(w, "taken")
  /\ UNCHANGED <<pgVars, guard, sched, lease, dograhVars, seen, prior, ans,
                 otherVars, known, history>>

\* XAUTOCLAIM takes an entry that no live worker has in hand.  While the
\* attempt's lease is taken a delivery changes nothing; it is tried again every
\* reclaim period, and the lease ends before those deliveries add up to
\* MaxDeliveries, so the model waits for the lease instead.
Idle(s) ==
  /\ stream[s].st = "pending" /\ lease[stream[s].n] = "free"
  /\ \A v \in Workers : job[v].slot # s

\* A worker reclaims ten entries at once and may come to one of them after its
\* idle time has passed again: a second worker can then take the same entry.
TakenTwice(s) == stream[s].st = "pending" /\ Fault("batch")

\* reclaim_stale: a claim counts as a delivery.
Reclaim(w) ==
  /\ pc[w] = "idle"
  /\ \E s \in Slots :
       /\ (Idle(s) /\ UNCHANGED faults) \/ TakenTwice(s)
       /\ stream[s].del < MaxDeliveries
       /\ stream' = [stream EXCEPT ![s].del = @ + 1]
       /\ job' = [job EXCEPT ![w] = [slot |-> s, n |-> stream[s].n,
                                     retry |-> stream[s].retry]]
  /\ Goto(w, "taken")
  /\ UNCHANGED <<pgVars, guard, sched, lease, dograhVars, seen, prior, ans,
                 otherVars, known, triggers, holds>>

\* _record_dead_letter on the contact.
Parked(c) ==
  IF c.status \in {"PENDING", "RETRY_SCHEDULED"}
  THEN [c EXCEPT !.status = "NEEDS_REVIEW", !.due = FALSE, !.no = 0]
  ELSE c

\* reclaim_stale past the delivery limit, then handle_dead_letters, which may
\* fail or never run: the entry is in the dead-letter stream and the contact
\* stays as it was.
DeadLetter(w) ==
  /\ pc[w] = "idle"
  /\ \E s \in Slots :
       /\ Idle(s) /\ stream[s].del >= MaxDeliveries
       /\ stream' = [stream EXCEPT ![s] = NoMessage]
       /\ job' = Forget(w, s)
  /\ \/ contact' = Parked(contact)
     \/ May("unparked") /\ UNCHANGED contact
  /\ UNCHANGED <<attempt, campaign, suppressed, stop, windowOpen, guard,
                 sched, lease, dograhVars, pc, seen, prior, ans, otherVars,
                 known, history>>

\* The outcome leaves the entry pending on purpose; _LEFT_UNACKED outcomes
\* also reset its delivery counter.
Leave(w, reset) ==
  LET s == job[w].slot
  IN /\ ToIdle(w)
     /\ job' = [job EXCEPT ![w] = NoJob]
     /\ lease' = Released(w)
     /\ stream' = IF s # 0 /\ reset
                  THEN [stream EXCEPT ![s].del = 0] ELSE stream

\* queue.ack, after the lease was released: XACK and XDEL.
Ack(w) ==
  LET s == job[w].slot
  IN /\ pc[w] = "ack"
     /\ ToIdle(w)
     /\ job' = Forget(w, s)
     /\ lease' = Released(w)
     /\ stream' = IF s = 0 THEN stream ELSE [stream EXCEPT ![s] = NoMessage]
     /\ UNCHANGED <<pgVars, guard, sched, dograhVars, otherVars, known,
                    history>>

-----------------------------------------------------------------------------
(* Before admission *)

WindowShut == campaign = "ACTIVE" /\ ~windowOpen

\* Stage 1 of the gate: blocked jobs stay where they are.
Blocked(w) ==
  /\ pc[w] = "taken" /\ ~OutboundOpen(w)
  /\ Leave(w, TRUE)
  /\ UNCHANGED <<pgVars, guard, sched, dograhVars, otherVars, known, history>>

\* A paused campaign or a closed window puts the job aside.
PutAside(w) ==
  /\ pc[w] = "taken" /\ OutboundOpen(w)
  /\ \/ campaign = "PAUSED" /\ Goto(w, "paused")
     \/ WindowShut /\ Goto(w, "closed")
  /\ UNCHANGED <<pgVars, redisVars, dograhVars, job, seen, prior, ans,
                 otherVars, known, history>>

\* try_admit took a slot: the lease is keyed by the attempt.
Admit(w) ==
  /\ pc[w] = "taken" /\ OutboundOpen(w) /\ campaign # "PAUSED" /\ ~WindowShut
  /\ lease[job[w].n] = "free"
  /\ lease' = [lease EXCEPT ![job[w].n] = w]
  /\ Goto(w, "load")
  /\ UNCHANGED <<pgVars, stream, guard, sched, dograhVars, job, seen, prior,
                 ans, otherVars, known, history>>

\* NOT_ADMITTED: a duplicate lease, or no capacity ("backpressure").  The
\* entry stays pending and keeps its delivery count.
NotAdmitted(w) ==
  /\ pc[w] = "taken" /\ OutboundOpen(w) /\ campaign # "PAUSED" /\ ~WindowShut
  /\ \/ lease[job[w].n] # "free" /\ UNCHANGED faults
     \/ Fault("backpressure")
  /\ Leave(w, FALSE)
  /\ UNCHANGED <<pgVars, guard, sched, dograhVars, otherVars, known, triggers,
                 holds>>

-----------------------------------------------------------------------------
(* Putting a job aside *)

\* "Exactly what QueueEnqueueService selects".
Rebuildable(w) == job[w].n = 1 /\ ~job[w].retry /\ Unattempted(contact)
AlreadyDialed(w) == attempt[job[w].n].run # 0

AckFirst_SettlePaused(w) ==
  /\ pc[w] = "paused"
  /\ IF Rebuildable(w) \/ AlreadyDialed(w)
     THEN Goto(w, "ack") /\ UNCHANGED <<job, seen, prior, ans, stream, lease>>
     ELSE Leave(w, TRUE)
  /\ UNCHANGED <<pgVars, guard, sched, dograhVars, otherVars, known, history>>

\* _settle_paused: guard first, ack second.
SettlePaused(w) ==
  /\ pc[w] = "paused"
  /\ IF Rebuildable(w) \/ AlreadyDialed(w)
     THEN /\ guard' = IF Rebuildable(w) THEN guard \ {job[w].n} ELSE guard
          /\ Goto(w, "ack")
          /\ UNCHANGED <<job, seen, prior, ans, stream, lease>>
     ELSE Leave(w, TRUE) /\ UNCHANGED guard
  /\ UNCHANGED <<pgVars, sched, dograhVars, otherVars, known, history>>

\* _settle_outside_window: exist in the schedule first, release the guard
\* second, ack third.  A retry goes back to the schedule and keeps its guard.
SettleWindow(w) ==
  /\ pc[w] = "closed"
  /\ \/ /\ Rebuildable(w)
        /\ sched' = sched \cup {[n |-> 1, kind |-> "dial"]}
        /\ Goto(w, "unguard")
        /\ UNCHANGED <<job, seen, prior, ans, stream, lease>>
     \/ /\ ~Rebuildable(w) /\ AlreadyDialed(w)
        /\ Goto(w, "ack")
        /\ UNCHANGED <<job, seen, prior, ans, stream, lease, sched>>
     \/ /\ ~Rebuildable(w) /\ ~AlreadyDialed(w) /\ job[w].retry
        /\ sched' = sched \cup {[n |-> job[w].n, kind |-> "moved"]}
        /\ Goto(w, "ack")
        /\ UNCHANGED <<job, seen, prior, ans, stream, lease>>
     \/ /\ ~Rebuildable(w) /\ ~AlreadyDialed(w) /\ ~job[w].retry
        /\ Leave(w, TRUE)
        /\ UNCHANGED sched
  /\ UNCHANGED <<pgVars, guard, dograhVars, otherVars, known, history>>

Unguard(w) ==
  /\ pc[w] = "unguard"
  /\ guard' = guard \ {job[w].n}
  /\ Goto(w, "ack")
  /\ UNCHANGED <<pgVars, stream, sched, lease, dograhVars, job, seen, prior,
                 ans, otherVars, known, history>>
=============================================================================
