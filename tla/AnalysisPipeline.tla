--------------------------- MODULE AnalysisPipeline ---------------------------
(***************************************************************************)
(* The post-call analysis: one call_analysis row per finished call, a Redis*)
(* stream that only delivers, workers that claim a row with a fencing token*)
(* and a lease, ask the provider with no transaction open, and write the   *)
(* outcome under the fence; a sweeper that finds every unfinished row again*)
(* and a daily ledger of estimated cost.                                   *)
(*                                                                         *)
(* Timestamps are kept as what is compared with them: whether a lease has  *)
(* run out, a row is due, its publication is old, its deadline has passed. *)
(*                                                                         *)
(* In an operator name such as OffByOne_Name the first part says which bug *)
(* the second, Name, would then have; no action uses such an operator.     *)
(***************************************************************************)
EXTENDS Integers, FiniteSets

CONSTANTS
  Analyses,     \* the calls to analyse
  Workers,      \* analysis worker processes
  MaxAttempts,  \* analysis_max_attempts
  InitialDelay, \* analysis_initial_delay_seconds is not zero
  Cap,          \* daily cap, in analyses: analysis_daily_estimated_spend_cap
  MaxSlots,     \* bound: entries of the stream; one more is lost
  MaxPolls,     \* bound: "not ready" answers per analysis
  MaxDays,      \* bound: budget days
  MaxFaults     \* bound: crashes and losses per behaviour

ASSUME AnalysisAssumption ==
  /\ MaxAttempts \in Nat \ {0} /\ Cap \in Nat /\ MaxSlots \in Nat \ {0}
  /\ MaxPolls \in Nat /\ MaxDays \in Nat \ {0} /\ MaxFaults \in Nat
  /\ IsFiniteSet(Analyses) /\ Analyses # {} /\ IsFiniteSet(Workers)
  /\ InitialDelay \in BOOLEAN

Slots == 1..MaxSlots
Days == 1..MaxDays

Unfinished == {"PENDING", "PROCESSING", "RETRY_WAIT"}
Finished == {"COMPLETED", "FAILED", "SKIPPED"}

\* token: claim_token, 0 when NULL.  due: next_attempt_at is NULL or passed.
\* pub: last_enqueued_at, "old" when it is before the republish threshold or
\* before next_attempt_at.  cost: reserved_cost NULL, reserved or set to zero,
\* on budget_day "day".
Row == [status : {"none"} \cup Unfinished \cup Finished, tries : 0..MaxAttempts,
        token : Nat, lease : {"none", "live", "over"}, due : BOOLEAN,
        pub : {"never", "recent", "old"}, cost : {"null", "held", "zero"},
        day : Days \cup {0}]

NoRow == [status |-> "none", tries |-> 0, token |-> 0, lease |-> "none",
          due |-> TRUE, pub |-> "never", cost |-> "null", day |-> 0]

\* What a provider request, or the input it needs, can come to (FailureKind;
\* rate limits and invalid output are handled as transient failures).
Kinds == {"ok", "skip", "transient", "permanent", "notReady", "unavailable"}

VARIABLES
  row, late, ledger, today,      \* PostgreSQL and the clock
  stream,                        \* Redis
  pc, mine,                      \* workers: control, and the delivery in hand
  claims, refunds, requests,     \* history, per analysis
  faults

clock == <<late, today>>
history == <<claims, refunds, requests>>
vars == <<row, ledger, clock, stream, pc, mine, history, faults>>

NoJob(a) == [slot |-> 0, a |-> a, token |-> 0, tries |-> 0, kind |-> "ok"]
NoEntry(a) == [st |-> "empty", a |-> a]
SomeAnalysis == CHOOSE a \in Analyses : TRUE

AnalysisTypeOK ==
  /\ row \in [Analyses -> Row]
  /\ late \in [Analyses -> BOOLEAN] /\ today \in Days
  /\ ledger \in [Days -> Nat]
  /\ stream \in [Slots -> [st : {"empty", "new", "pending"}, a : Analyses]]
  /\ pc \in [Workers -> {"idle", "claim", "unclaimed", "load", "renew",
                         "analyze", "persist", "ack"}]
  /\ mine \in [Workers -> [slot : Slots \cup {0}, a : Analyses, token : Nat,
                           tries : 0..MaxAttempts, kind : Kinds]]
  /\ claims \in [Analyses -> Nat] /\ refunds \in [Analyses -> Nat]
  /\ requests \in [Analyses -> Nat]
  /\ faults \in 0..MaxFaults

AnalysisInit ==
  /\ row = [a \in Analyses |-> NoRow]
  /\ late = [a \in Analyses |-> FALSE] /\ today = 1
  /\ ledger = [d \in Days |-> 0]
  /\ stream = [s \in Slots |-> NoEntry(SomeAnalysis)]
  /\ pc = [w \in Workers |-> "idle"]
  /\ mine = [w \in Workers |-> NoJob(SomeAnalysis)]
  /\ claims = [a \in Analyses |-> 0] /\ refunds = [a \in Analyses |-> 0]
  /\ requests = [a \in Analyses |-> 0]
  /\ faults = 0

Fault == faults < MaxFaults /\ faults' = faults + 1

-----------------------------------------------------------------------------
(* Admission and publication *)

\* queue.enqueue: XADD; the stream is trimmed at its maximum length.
FreeSlots == {s \in Slots : stream[s].st = "empty"}
Published(a) ==
  IF FreeSlots = {} THEN stream
  ELSE LET s == CHOOSE s \in FreeSlots : \A t \in FreeSlots : s <= t
       IN [stream EXCEPT ![s] = [st |-> "new", a |-> a]]

\* enqueue_call_analysis commits with the call's own outcome and publishes
\* after the commit; with an initial delay the row is due later.  The publish
\* may be lost.
Register(a) ==
  /\ row[a].status = "none"
  /\ row' = [row EXCEPT ![a] =
               [NoRow EXCEPT !.status = "PENDING", !.due = ~InitialDelay,
                             !.pub = IF InitialDelay THEN "old" ELSE "recent"]]
  /\ \/ stream' = Published(a) /\ UNCHANGED faults
     \/ Fault /\ UNCHANGED stream
  /\ UNCHANGED <<ledger, clock, pc, mine, history>>

\* The sweeper registers a finished call that has no row; its publish step
\* finds the row by its missing last_enqueued_at.
SweepRegister(a) ==
  /\ row[a].status = "none"
  /\ row' = [row EXCEPT ![a] = [NoRow EXCEPT !.status = "PENDING"]]
  /\ UNCHANGED <<ledger, clock, stream, pc, mine, history, faults>>

\* _publish_due: what the sweeper publishes again.
Publishable(r) ==
  \/ r.status \in {"PENDING", "RETRY_WAIT"} /\ r.due /\ r.pub # "recent"
  \/ r.status = "PROCESSING" /\ r.lease = "over" /\ r.tries < MaxAttempts

\* last_enqueued_at is written only if the XADD succeeded; a crash before the
\* commit leaves an entry that is not marked.
SweepPublish(a) ==
  /\ Publishable(row[a])
  /\ stream' = Published(a)
  /\ \/ row' = [row EXCEPT ![a].pub = "recent"] /\ UNCHANGED faults
     \/ Fault /\ UNCHANGED row
  /\ UNCHANGED <<ledger, clock, pc, mine, history>>

\* finalize_exhausted: no attempt left and no live owner.
WaitingOnly_Exhausted(r) ==
  r.tries >= MaxAttempts /\ r.status \in {"PENDING", "RETRY_WAIT"}
Exhausted(r) ==
  /\ r.tries >= MaxAttempts
  /\ \/ r.status \in {"PENDING", "RETRY_WAIT"}
     \/ r.status = "PROCESSING" /\ r.lease = "over"

Closed(r, status) ==
  [r EXCEPT !.status = status, !.token = 0, !.lease = "none", !.due = TRUE]

SweepFinalize(a) ==
  /\ Exhausted(row[a])
  /\ row' = [row EXCEPT ![a] = Closed(@, "FAILED")]
  /\ UNCHANGED <<ledger, clock, stream, pc, mine, history, faults>>

-----------------------------------------------------------------------------
(* Worker: delivery and claim *)

\* A new entry, or one pending longer than the reclaim time, which another
\* worker may still be busy with.
Take(w) ==
  /\ pc[w] = "idle"
  /\ \E s \in Slots :
       /\ stream[s].st # "empty"
       /\ stream' = [stream EXCEPT ![s].st = "pending"]
       /\ mine' = [mine EXCEPT ![w] = [NoJob(stream[s].a) EXCEPT !.slot = s]]
  /\ pc' = [pc EXCEPT ![w] = "claim"]
  /\ UNCHANGED <<row, ledger, clock, history, faults>>

\* claim_for_processing's WHERE clause.
NoLimit_Claimable(r) ==
  \/ r.status \in {"PENDING", "RETRY_WAIT"} /\ r.due
  \/ r.status = "PROCESSING" /\ r.lease = "over"
SkippedToo_Claimable(r) ==
  /\ r.tries < MaxAttempts
  /\ \/ r.status \in {"PENDING", "RETRY_WAIT", "SKIPPED"} /\ r.due
     \/ r.status = "PROCESSING" /\ r.lease = "over"
Claimable(r) ==
  /\ r.tries < MaxAttempts
  /\ \/ r.status \in {"PENDING", "RETRY_WAIT"} /\ r.due
     \/ r.status = "PROCESSING" /\ r.lease = "over"

\* budget.reserve: a row that already holds a reservation never reserves again.
NeedsBudget(r) == r.cost = "null"
OffByOne_Affordable(r) == NeedsBudget(r) => ledger[today] <= Cap
Affordable(r) == NeedsBudget(r) => ledger[today] + 1 <= Cap

\* claim_for_processing: claim and reservation in one savepoint.
Claim(w) ==
  LET a == mine[w].a
      r == row[a]
      token == claims[a] + 1
  IN /\ pc[w] = "claim"
     /\ \/ /\ Claimable(r) /\ Affordable(r)
           /\ row' = [row EXCEPT ![a] =
                [r EXCEPT !.status = "PROCESSING", !.tries = @ + 1,
                          !.token = token, !.lease = "live", !.due = TRUE,
                          !.cost = IF NeedsBudget(r) THEN "held" ELSE @,
                          !.day = IF NeedsBudget(r) THEN today ELSE @]]
           /\ ledger' = IF NeedsBudget(r)
                        THEN [ledger EXCEPT ![today] = @ + 1] ELSE ledger
           /\ claims' = [claims EXCEPT ![a] = token]
           /\ mine' = [mine EXCEPT ![w] =
                         [@ EXCEPT !.token = token, !.tries = r.tries + 1]]
           /\ pc' = [pc EXCEPT ![w] = "load"]
        \/ /\ Claimable(r) /\ ~Affordable(r)
           /\ row' = IF r.status = "PROCESSING" THEN row
                     ELSE [row EXCEPT ![a] = [@ EXCEPT !.due = FALSE,
                                                       !.pub = "old"]]
           /\ pc' = [pc EXCEPT ![w] = "ack"]
           /\ UNCHANGED <<ledger, claims, mine>>
        \/ /\ ~Claimable(r)
           /\ pc' = [pc EXCEPT ![w] = "unclaimed"]
           /\ UNCHANGED <<row, ledger, claims, mine>>
     /\ UNCHANGED <<clock, stream, refunds, requests, faults>>

\* _handle_unclaimed: the row is read again; a row without attempts left is
\* finalised, any other is left to its owner or to the sweeper.
HandleUnclaimed(w) ==
  LET a == mine[w].a
  IN /\ pc[w] = "unclaimed"
     /\ row' = IF Exhausted(row[a])
               THEN [row EXCEPT ![a] = Closed(@, "FAILED")] ELSE row
     /\ pc' = [pc EXCEPT ![w] = "ack"]
     /\ UNCHANGED <<ledger, clock, stream, mine, history, faults>>

-----------------------------------------------------------------------------
(* Worker: input, provider, outcome *)

\* _fenced: WHERE claim_token = :mine AND status = 'processing'.
StatusOnly_Owns(w) == row[mine[w].a].status = "PROCESSING"
Owns(w) ==
  row[mine[w].a].status = "PROCESSING" /\ row[mine[w].a].token = mine[w].token

\* _load_input: an input, nothing to analyse, or a transcript that cannot be
\* had now, or ever.
LoadInput(w) ==
  /\ pc[w] = "load"
  /\ \/ /\ pc' = [pc EXCEPT ![w] = "renew"]
        /\ UNCHANGED mine
     \/ \E kind \in {"skip", "transient", "permanent"} :
          /\ mine' = [mine EXCEPT ![w].kind = kind]
          /\ pc' = [pc EXCEPT ![w] = "persist"]
  /\ UNCHANGED <<row, ledger, clock, stream, history, faults>>

RenewLease(w) ==
  /\ pc[w] = "renew"
  /\ row' = IF Owns(w) THEN [row EXCEPT ![mine[w].a].lease = "live"] ELSE row
  /\ pc' = [pc EXCEPT ![w] = IF Owns(w) THEN "analyze" ELSE "ack"]
  /\ UNCHANGED <<ledger, clock, stream, mine, history, faults>>

\* llm.analyze: one request, no transaction open.
Analyze(w) ==
  LET a == mine[w].a
  IN /\ pc[w] = "analyze"
     /\ \E kind \in Kinds \ {"skip"} :
          /\ kind = "notReady" => refunds[a] < MaxPolls \/ late[a]
          /\ mine' = [mine EXCEPT ![w].kind = kind]
     /\ requests' = [requests EXCEPT ![a] = @ + 1]
     /\ pc' = [pc EXCEPT ![w] = "persist"]
     /\ UNCHANGED <<row, ledger, clock, stream, claims, refunds, faults>>

\* _persist_failure: what an outcome of the attempt makes of the row.  "Not
\* ready" costs no attempt until the deadline, then the row is skipped.
Verdict(w) ==
  LET kind == mine[w].kind
  IN CASE kind = "ok" -> "COMPLETED"
       [] kind \in {"skip", "unavailable"} -> "SKIPPED"
       [] kind = "notReady" -> IF late[mine[w].a] THEN "SKIPPED" ELSE "RETRY_WAIT"
       [] OTHER -> IF kind = "permanent" \/ mine[w].tries >= MaxAttempts
                   THEN "FAILED" ELSE "RETRY_WAIT"

Refunded(w) == Verdict(w) = "RETRY_WAIT" /\ mine[w].kind = "notReady"

\* complete, skip (which returns the reservation), fail, schedule_retry.
NotZeroed_Written(r, verdict, refund) ==
  IF verdict = "RETRY_WAIT"
  THEN [Closed(r, verdict) EXCEPT !.due = FALSE, !.pub = "old",
                                  !.tries = IF refund THEN @ - 1 ELSE @]
  ELSE Closed(r, verdict)
RefundAll_Written(r, verdict, refund) ==
  CASE verdict = "RETRY_WAIT" ->
         [Closed(r, verdict) EXCEPT !.due = FALSE, !.pub = "old", !.tries = @ - 1]
    [] verdict = "SKIPPED" ->
         [Closed(r, verdict) EXCEPT !.cost = IF @ = "held" THEN "zero" ELSE @]
    [] OTHER -> Closed(r, verdict)
Written(r, verdict, refund) ==
  CASE verdict = "RETRY_WAIT" ->
         [Closed(r, verdict) EXCEPT !.due = FALSE, !.pub = "old",
                                    !.tries = IF refund THEN @ - 1 ELSE @]
    [] verdict = "SKIPPED" ->
         [Closed(r, verdict) EXCEPT !.cost = IF @ = "held" THEN "zero" ELSE @]
    [] OTHER -> Closed(r, verdict)

\* budget.release: GREATEST(reserved_cost - cost, 0) on the day of the
\* reservation.
Returned(r) ==
  IF r.cost = "held"
  THEN [ledger EXCEPT ![r.day] = IF @ > 0 THEN @ - 1 ELSE 0] ELSE ledger

\* The fenced write and its commit; a stale worker writes nothing.
Persist(w) ==
  LET a == mine[w].a
      verdict == Verdict(w)
  IN /\ pc[w] = "persist"
     /\ IF Owns(w)
        THEN /\ row' = [row EXCEPT ![a] = Written(@, verdict, Refunded(w))]
             /\ ledger' = IF verdict = "SKIPPED" THEN Returned(row[a]) ELSE ledger
             /\ refunds' = IF Refunded(w)
                           THEN [refunds EXCEPT ![a] = @ + 1] ELSE refunds
        ELSE UNCHANGED <<row, ledger, refunds>>
     /\ pc' = [pc EXCEPT ![w] = "ack"]
     /\ mine' = [mine EXCEPT ![w] = [NoJob(a) EXCEPT !.slot = mine[w].slot]]
     /\ UNCHANGED <<clock, stream, claims, requests, faults>>

\* queue.ack, after the commit: the entry is not delivered again.
Ack(w) ==
  LET s == mine[w].slot
  IN /\ pc[w] = "ack"
     /\ stream' = IF s = 0 THEN stream
                  ELSE [stream EXCEPT ![s] = NoEntry(SomeAnalysis)]
     /\ mine' = [v \in Workers |->
                   IF v = w THEN NoJob(SomeAnalysis)
                   ELSE IF mine[v].slot = s THEN [mine[v] EXCEPT !.slot = 0]
                   ELSE mine[v]]
     /\ pc' = [pc EXCEPT ![w] = "idle"]
     /\ UNCHANGED <<row, ledger, clock, history, faults>>

\* The process dies or the job raises: nothing is acked.
Crash(w) ==
  /\ pc[w] # "idle" /\ Fault
  /\ pc' = [pc EXCEPT ![w] = "idle"]
  /\ mine' = [mine EXCEPT ![w] = NoJob(SomeAnalysis)]
  /\ UNCHANGED <<row, ledger, clock, stream, history>>

-----------------------------------------------------------------------------
(* Time and Redis *)

\* A lease may run out under a worker that is only slow.
LeaseRunsOut(a) ==
  /\ row[a].lease = "live"
  /\ row' = [row EXCEPT ![a].lease = "over"]
  /\ UNCHANGED <<ledger, clock, stream, pc, mine, history, faults>>

BecomesDue(a) ==
  /\ ~row[a].due
  /\ row' = [row EXCEPT ![a].due = TRUE]
  /\ UNCHANGED <<ledger, clock, stream, pc, mine, history, faults>>

\* Read only while the row waits.
PublicationAges(a) ==
  /\ row[a].pub = "recent" /\ row[a].status \in {"PENDING", "RETRY_WAIT"}
  /\ row' = [row EXCEPT ![a].pub = "old"]
  /\ UNCHANGED <<ledger, clock, stream, pc, mine, history, faults>>

\* Read only by an attempt in progress.
DeadlinePasses(a) ==
  /\ row[a].status = "PROCESSING" /\ ~late[a]
  /\ late' = [late EXCEPT ![a] = TRUE]
  /\ UNCHANGED <<row, ledger, today, stream, pc, mine, history, faults>>

NewDay ==
  /\ today < MaxDays
  /\ today' = today + 1
  /\ UNCHANGED <<row, ledger, late, stream, pc, mine, history, faults>>

RedisLoss ==
  /\ Fault
  /\ stream' = [s \in Slots |-> NoEntry(SomeAnalysis)]
  /\ mine' = [w \in Workers |-> [mine[w] EXCEPT !.slot = 0]]
  /\ UNCHANGED <<row, ledger, clock, pc, history>>

WorkerStep(w) ==
  \/ Take(w) \/ Claim(w) \/ HandleUnclaimed(w) \/ LoadInput(w) \/ RenewLease(w)
  \/ Analyze(w) \/ Persist(w) \/ Ack(w)

Sweep(a) == SweepRegister(a) \/ SweepFinalize(a) \/ SweepPublish(a)

Time(a) ==
  LeaseRunsOut(a) \/ BecomesDue(a) \/ PublicationAges(a) \/ DeadlinePasses(a)

AnalysisNext ==
  \/ \E w \in Workers : WorkerStep(w) \/ Crash(w)
  \/ \E a \in Analyses : Register(a) \/ Sweep(a) \/ Time(a)
  \/ NewDay \/ RedisLoss

AnalysisSpec == AnalysisInit /\ [][AnalysisNext]_vars

\* Worker processes loop and call the sweeper; time passes; days change.
AnalysisFairness ==
  /\ \A w \in Workers : WF_vars(WorkerStep(w))
  /\ \A a \in Analyses : /\ WF_vars(SweepFinalize(a))
                         /\ WF_vars(SweepPublish(a))
                         /\ WF_vars(LeaseRunsOut(a)) /\ WF_vars(BecomesDue(a))
                         /\ WF_vars(PublicationAges(a))
                         /\ WF_vars(DeadlinePasses(a))
  /\ WF_vars(NewDay)

AnalysisFairSpec == AnalysisSpec /\ AnalysisFairness

-----------------------------------------------------------------------------
(* Properties *)

HeldOn(d) == {a \in Analyses : row[a].cost = "held" /\ row[a].day = d}

\* The ledger of a day is exactly what the rows reserved on it and did not
\* return: retries reserve once, a skip returns once, a denied claim nothing.
LedgerMatchesRows == \A d \in Days : ledger[d] = Cardinality(HeldOn(d))

\* Any number of workers cannot reserve past the day's cap: the rows that hold
\* a reservation of one day are at most what the cap allows.
LedgerWithinCap == \A d \in Days : Cardinality(HeldOn(d)) <= Cap

\* An outcome is only ever written by the latest claim of its row: a worker
\* whose lease ran out, and whose row was claimed again, changes nothing.
LatestClaimWrites ==
  [][\A w \in Workers :
       LET a == mine[w].a
       IN pc[w] = "persist" /\ pc'[w] = "ack" /\ row'[a] # row[a]
            => mine[w].token = claims[a]]_vars

\* The provider is asked at most MaxAttempts times for one analysis, plus once
\* for every "not ready" that gave its attempt back.
RequestsBounded ==
  \A a \in Analyses : requests[a] <= MaxAttempts + refunds[a]

\* A finished analysis stays what it is, whatever is still delivered or swept.
FinishedIsFinal ==
  [][\A a \in Analyses :
       row[a].status \in Finished => row'[a].status = row[a].status]_vars

\* The last day the model has, with nothing left of its cap.
BudgetSpent == today = MaxDays /\ ledger[today] >= Cap

\* An analysis that was registered is eventually finished, although publishes
\* are lost, workers die on their last attempt, Redis comes back empty and the
\* day's cap defers it; only a cap that stays used up keeps it waiting.
AnalysisSettles ==
  \A a \in Analyses :
    row[a].status \in Unfinished ~> (row[a].status \in Finished \/ []BudgetSpent)
=============================================================================
