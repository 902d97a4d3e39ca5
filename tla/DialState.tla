------------------------------ MODULE DialState ------------------------------
(***************************************************************************)
(* The state one contact's dialing is spread over, and the operators the   *)
(* dialer, the recovery path and the webhook share.                        *)
(*                                                                         *)
(* PostgreSQL: the contact row, its call attempts, the campaign status, the*)
(* suppression list and the outbound stop.  Redis: the dial stream with its*)
(* pending list, the enqueue guards, the recovery schedule, the admission  *)
(* leases.  Dograh: trigger requests in transit and the runs they create.  *)
(* Contacts share none of the rows that a dial writes, so one contact is   *)
(* modelled; what contacts compete for (slots, call rate) is the subject   *)
(* of ConcurrencyLease.                                                    *)
(*                                                                         *)
(* In an operator name such as OffByOne_Name the first part says which bug *)
(* the second, Name, would then have; no action uses such an operator.     *)
(***************************************************************************)
EXTENDS Integers, FiniteSets

CONSTANTS
  Workers,         \* dialer processes
  MaxRetries,      \* max_retries of the effective retry policy
  ProviderBudget,  \* dograh_provider_error_max_retries
  MaxDeferrals,    \* dograh_reconcile_max_deferrals
  MaxDeliveries,   \* queue_max_deliveries
  MaxBacklog,      \* queue_max_backlog: entries the stream may hold
  MaxRuns,         \* bound: runs Dograh may create for one attempt
  Outcomes,        \* how a run may end
  Env,             \* which environment events this instance includes
  MaxFaults        \* bound: faults (crashes, losses, outages) per behaviour

AllOutcomes == {"ended", "optout", "noanswer", "error", "unknown", "dropped"}

AllEvents == {"crash", "deadline", "redisLoss", "guardExpiry", "lookupDown",
              "lateLanding", "batch", "pause", "complete", "window", "stop",
              "suppress", "config", "reject", "ambiguous", "backpressure",
              "swallow", "webhookAbort", "unparked"}

ASSUME DialAssumption ==
  /\ MaxRetries \in Nat /\ ProviderBudget \in Nat /\ MaxDeferrals \in Nat
  /\ MaxDeliveries \in Nat \ {0} /\ MaxBacklog \in Nat \ {0}
  /\ MaxRuns \in Nat \ {0} /\ MaxFaults \in Nat
  /\ Outcomes \subseteq AllOutcomes /\ Env \subseteq AllEvents
  /\ Workers \cap {"free", "dead"} = {}

\* Attempt numbers.  The policy allows 1..MaxRetries + 1; one more is included
\* so that exceeding the policy is a state of the model and not outside it.
Attempts == 1..(MaxRetries + 2)
Slots == 1..MaxBacklog
RunIds == 1..MaxRuns

Statuses == {"PENDING", "DIALING", "RETRY_SCHEDULED", "COMPLETED",
             "COMPLETED_PARTIAL", "DISCONNECTED", "CLOSED", "NEEDS_REVIEW"}
AttemptStates == {"none", "INITIATED", "FAILED_TO_CONNECT", "ENDED_NORMALLY",
                  "DROPPED_MID_CALL"}
Terminal == {"FAILED_TO_CONNECT", "ENDED_NORMALLY", "DROPPED_MID_CALL"}

\* due: next_retry_at is set.  no: retry_attempt_number, 0 when NULL.
ContactRow == [status : Statuses, count : Nat,
               due : BOOLEAN, no : Attempts \cup {0}]

\* amb: a DOGRAH_TRIGGER_AMBIGUOUS event exists.  held: the latest event is the
\* provider-hold marker.  age: 0 inside the in-flight window, 1 past it, 2 past
\* the sweeper's threshold.  provErr: connection_failure_reason is
\* PROVIDER_ERROR.  deferrals: reconciliation_deferred audit rows.
AttemptRow == [state : AttemptStates, run : RunIds \cup {0}, amb : BOOLEAN,
               held : BOOLEAN, age : 0..2, provErr : BOOLEAN,
               deferrals : 0..MaxDeferrals]

\* st: "new" never delivered, "pending" delivered and not acked.
Message == [st : {"empty", "new", "pending"}, n : Attempts, retry : BOOLEAN,
            del : 0..(MaxDeliveries + 1)]

\* A schedule member.  "retry": the canonical member a rebuild also produces;
\* "moved": a retry put back outside its window, whose member keeps the dial
\* job's random id; "dial": a first attempt deferred to the next window.
Entry == [n : Attempts, kind : {"retry", "moved", "dial"}]

NoJob == [slot |-> 0, n |-> 1, retry |-> FALSE]
NoRow == [state |-> "none", run |-> 0, amb |-> FALSE, held |-> FALSE,
          age |-> 0, provErr |-> FALSE, deferrals |-> 0]
NoMessage == [st |-> "empty", n |-> 1, retry |-> FALSE, del |-> 0]
NewContact == [status |-> "PENDING", count |-> 0, due |-> FALSE, no |-> 0]
NoAnswer == [kind |-> "none", run |-> 0]

VARIABLES
  contact, attempt, campaign, suppressed, stop, windowOpen,  \* PostgreSQL, clock
  stream, guard, sched, lease,                               \* Redis
  wire, run,                                                 \* Dograh
  pc, job, seen, prior, ans, known,                          \* dialer workers
  disp, hook, processed,                                     \* dispatcher, webhook
  faults, triggers, holds                                 \* bounds and history

pgVars == <<contact, attempt, campaign, suppressed, stop, windowOpen>>
redisVars == <<stream, guard, sched, lease>>
dograhVars == <<wire, run>>
workerVars == <<pc, job, seen, prior, ans, known>>
otherVars == <<disp, hook, processed>>
history == <<faults, triggers, holds>>
vars == <<pgVars, redisVars, dograhVars, workerVars, otherVars, history>>

PCs == {"idle", "taken", "paused", "closed", "unguard", "ack", "load", "claim",
        "lookup2", "gate2", "send", "await", "answer", "hold", "lookup1",
        "resolve1"}

Answers == {"none", "held", "ok", "config", "reject", "permanent", "ambiguous",
            "one", "many", "nothing", "down"}

PgTypeOK ==
  /\ contact \in ContactRow
  /\ attempt \in [Attempts -> AttemptRow]
  /\ campaign \in {"ACTIVE", "PAUSED", "COMPLETED"}
  /\ suppressed \in BOOLEAN /\ windowOpen \in BOOLEAN
  /\ stop \subseteq {"kill", "halt"}

RedisTypeOK ==
  /\ stream \in [Slots -> Message]
  /\ guard \subseteq Attempts /\ sched \subseteq Entry
  /\ lease \in [Attempts -> Workers \cup {"free", "dead"}]

DograhTypeOK ==
  /\ wire \subseteq [n : Attempts, w : Workers]
  /\ run \in [Attempts -> [RunIds -> {"none", "live"} \cup AllOutcomes]]

WorkerTypeOK ==
  /\ pc \in [Workers -> PCs]
  /\ job \in [Workers -> [slot : Slots \cup {0}, n : Attempts, retry : BOOLEAN]]
  /\ seen \in [Workers -> ContactRow]
  /\ prior \in [Workers -> ContactRow]
  /\ ans \in [Workers -> [kind : Answers, run : RunIds \cup {0}]]
  /\ known \in [Workers -> SUBSET {"kill", "halt"}]

OtherTypeOK ==
  /\ disp \in [pc : {"idle", "claimed", "keep", "full", "clear"},
               e : Entry, seen : ContactRow]
  /\ hook \in [on : BOOLEAN, n : Attempts, k : RunIds, amb : BOOLEAN,
               bound : BOOLEAN, seen : ContactRow]
  /\ processed \subseteq (Attempts \X RunIds)

HistoryTypeOK ==
  /\ faults \in 0..MaxFaults
  /\ triggers \in [Attempts -> Nat]
  /\ holds \in [Attempts -> Nat]

\* Every variable has its type; in particular the deferrals, the deliveries and
\* the attempt numbers never pass the limits the settings give them.
TypeOK ==
  PgTypeOK /\ RedisTypeOK /\ DograhTypeOK /\ WorkerTypeOK /\ OtherTypeOK
  /\ HistoryTypeOK

NoEntry == [n |-> 1, kind |-> "retry"]
NoDispatch == [pc |-> "idle", e |-> NoEntry, seen |-> NewContact]
NoHook == [on |-> FALSE, n |-> 1, k |-> 1, amb |-> FALSE, bound |-> FALSE,
           seen |-> NewContact]

\* A contact imported into an active campaign, nothing queued yet.
Init ==
  /\ contact = NewContact
  /\ attempt = [n \in Attempts |-> NoRow]
  /\ campaign = "ACTIVE" /\ suppressed = FALSE
  /\ stop = {} /\ windowOpen = TRUE
  /\ stream = [s \in Slots |-> NoMessage]
  /\ guard = {} /\ sched = {}
  /\ lease = [n \in Attempts |-> "free"]
  /\ wire = {} /\ run = [n \in Attempts |-> [k \in RunIds |-> "none"]]
  /\ pc = [w \in Workers |-> "idle"] /\ job = [w \in Workers |-> NoJob]
  /\ seen = [w \in Workers |-> NewContact]
  /\ prior = [w \in Workers |-> NewContact]
  /\ ans = [w \in Workers |-> NoAnswer]
  /\ known = [w \in Workers |-> {}]
  /\ disp = NoDispatch /\ hook = NoHook /\ processed = {}
  /\ faults = 0
  /\ triggers = [n \in Attempts |-> 0]
  /\ holds = [n \in Attempts |-> 0]

-----------------------------------------------------------------------------
(* Shared operators *)

\* An environment event of this instance; a fault also spends the budget.
May(e) == e \in Env
Fault(e) == May(e) /\ faults < MaxFaults /\ faults' = faults + 1

\* The outbound gate (kill switch, provider halt, daily budget) is open as far
\* as this worker knows: it reads the controls through a cache of two seconds.
OutboundOpen(w) == known[w] = {}

\* A session flushes only the columns whose value it changed since it loaded
\* the row; the others keep what other transactions committed meanwhile.  A
\* new due time is a new timestamp, so assigning one always writes it.
WholeRow_Merge(row, loaded, new, newDue) == new
Merge(row, loaded, new, newDue) ==
  [status |-> IF new.status # loaded.status THEN new.status ELSE row.status,
   count |-> IF new.count # loaded.count THEN new.count ELSE row.count,
   due |-> IF newDue \/ new.due # loaded.due THEN new.due ELSE row.due,
   no |-> IF new.no # loaded.no THEN new.no ELSE row.no]

\* XADD into a free place of the stream; MaxBacklog entries refuse the add.
FreeSlots == {s \in Slots : stream[s].st = "empty"}

\* The enqueue_once script: guard, backlog limit, add, set the guard.
EnqueueOnce(n, retry) ==
  IF n \in guard \/ FreeSlots = {}
  THEN UNCHANGED <<stream, guard>>
  ELSE LET s == CHOOSE s \in FreeSlots : \A t \in FreeSlots : s <= t
       IN /\ stream' = [stream EXCEPT
                          ![s] = [st |-> "new", n |-> n, retry |-> retry,
                                  del |-> 0]]
          /\ guard' = guard \cup {n}

Unattempted(c) == c.status = "PENDING" /\ c.count = 0

\* RecoveryManager._provider_error_failures, on the rows "att".
ProviderFailures(att, n) ==
  Cardinality({m \in Attempts : /\ m <= n
                                /\ att[m].state = "FAILED_TO_CONNECT"
                                /\ att[m].provErr})

\* RecoveryManager._decide.  Reasons: "provider" (spends the provider budget),
\* "retryable", "final" (no rule allows a retry).
ShouldRetry(att, n, reason) ==
  /\ reason # "final"
  /\ reason = "provider" => ProviderFailures(att, n) <= ProviderBudget
  /\ n <= MaxRetries

\* RecoveryManager._terminalize, for any reason but suppression.
Unlabelled_GivenUp(view) == view
GivenUp(view) == [view EXCEPT !.status = "COMPLETED_PARTIAL"]

\* RecoveryManager.handle_disconnect on the session's view of the contact: the
\* contact it leaves in the session and the entries it adds to the schedule.
HandleDisconnect(view, att, n, reason) ==
  IF view.status = "CLOSED" \/ suppressed
  THEN [contact |-> view, entries |-> {}]
  ELSE IF campaign # "COMPLETED" /\ ShouldRetry(att, n, reason)
  THEN [contact |-> [view EXCEPT !.status = "RETRY_SCHEDULED", !.due = TRUE,
                                 !.no = n + 1],
        entries |-> {[n |-> n + 1, kind |-> "retry"]}]
  ELSE [contact |-> GivenUp(view), entries |-> {}]

\* is_unresolved_ambiguous_trigger
Ambiguous(a) == a.state = "FAILED_TO_CONNECT" /\ a.run = 0 /\ a.amb

\* reopen_for_adoption, on the attempt.
Reopened(a) == [a EXCEPT !.state = "INITIATED", !.provErr = FALSE]

\* What Dograh's run listing shows for an attempt.
RunsOf(n) == {k \in RunIds : run[n][k] # "none"}
=============================================================================
