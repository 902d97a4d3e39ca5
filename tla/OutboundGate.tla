---------------------------- MODULE OutboundGate ----------------------------
(***************************************************************************)
(* What stands between a dial job and a new call, apart from the contact's *)
(* own eligibility: the outbound gate (kill switch, provider halt, daily   *)
(* budget), read through per-process caches, and the admission controller  *)
(* (circuit breaker, concurrency slot, calls-per-second counters in Redis).*)
(*                                                                         *)
(* A worker process serves one job at a time:                              *)
(*    gate -> admission -> gate -> claim -> provider request               *)
(* The gate is evaluated twice; the second time the slot is already held.  *)
(* The controls are rows of PostgreSQL changed by an administrator (kill   *)
(* switch, release of the halt) or by a worker (halt).  Time is counted in *)
(* ticks; SecondTicks of them make the second the counters are keyed by.   *)
(* Lifetimes are timers that a tick counts down.                           *)
(*                                                                         *)
(* The concurrency slots are those of ConcurrencyLease, reduced here to    *)
(* the set of workers that hold one.                                       *)
(***************************************************************************)
EXTENDS Integers, Sequences, FiniteSets

CONSTANTS
  Workers,           \* dialer worker processes
  Campaigns,
  GlobalCps, CampaignCps, ProviderCps,   \* calls per second, per scope
  ConcurrencyLimit,
  DialCap,           \* DAILY_DIAL_CAP
  SecondTicks,
  ControlTTL,        \* KILL_SWITCH_CACHE_SECONDS, in ticks
  BudgetTTL,         \* BUDGET_CHECK_CACHE_TTL_SECONDS, in ticks
  ErrorThreshold,    \* of the circuit breaker
  OpenTicks,         \* how long an open breaker stays open
  MaxTime,           \* bound: ticks
  MaxSwitches,       \* bound: changes of a control by an administrator
  MaxFaults          \* bound: Redis errors and database outages

ASSUME GateAssumption ==
  /\ IsFiniteSet(Workers) /\ Workers # {}
  /\ \A n \in {GlobalCps, CampaignCps, ProviderCps, ConcurrencyLimit, DialCap,
               ControlTTL, BudgetTTL, OpenTicks, MaxTime, MaxSwitches, MaxFaults} : n \in Nat
  /\ SecondTicks \in Nat \ {0} /\ ErrorThreshold \in Nat \ {0}
  /\ Campaigns \cap {"global", "provider", "none"} = {}

VARIABLES
  now,        \* the clock
  kill, halt, \* outbound_control rows: is the control engaged?
  stopFor,    \* history: ticks a stop has been in force, up to ControlTTL
  readable,   \* does PostgreSQL answer the reads of the gate?
  ctl, bud,   \* per process: the cached rows; the cached count of dials;
              \* with the ticks each stays fresh
  pc,         \* per worker: program counter
  job,        \* per worker: the campaign of its job, which of the two gates it
              \* is at; the second of its counters, how many it has incremented
  slots,      \* workers that hold a concurrency slot
  cps,        \* Redis counters, by key and second
  errors, openFor,      \* circuit breaker: error counter, life of its open key
  dials,      \* attempts started today
  admits,     \* history: admissions, by key and second
  late,       \* history, per worker: claims made ControlTTL after a stop began
  switches, faults      \* bounded counters

vars == <<now, kill, halt, stopFor, readable, ctl, bud, pc, job, slots,
          cps, errors, openFor, dials, admits, late, switches, faults>>

ctlVars   == <<kill, halt, stopFor, switches>>
brkVars   == <<errors, openFor>>
histVars  == <<admits, late>>

Keys    == {"global", "provider"} \cup Campaigns
Seconds == 0 .. MaxTime \div SecondTicks
Second  == now \div SecondTicks
Stopped == kill \/ halt

\* Cache entries of a process that has read nothing yet: never fresh.
NoControls == [left |-> 0, kill |-> FALSE, halt |-> FALSE]
NoJob      == [campaign |-> "none", second |-> 0, step |-> 0]
NoCount    == [left |-> 0, dials |-> 0]

Limit(k) == CASE k = "global" -> GlobalCps
              [] k = "provider" -> ProviderCps
              [] OTHER -> CampaignCps

\* The counters of one admission, in the order they are incremented.
CpsKeys(c) == <<"global", c, "provider">>

-----------------------------------------------------------------------------
(* The gate. *)

\* A cached value younger than its lifetime is used, any other is read again.
Fresh(entry) == entry.left > 0

\* Bug: controls that cannot be read count as off.
Bug_Blocked(w) ==
  IF Fresh(ctl[w]) THEN ctl[w].kill \/ ctl[w].halt ELSE readable /\ Stopped

\* What the worker's process takes the controls to be: from its cache, from
\* PostgreSQL, or unknown, which blocks.
Blocked(w) ==
  IF Fresh(ctl[w]) THEN ctl[w].kill \/ ctl[w].halt
  ELSE ~readable \/ Stopped

\* Bug: a failed read is cached too.
Bug_CacheControls(w) ==
  IF ~Fresh(ctl[w])
  THEN ctl' = [ctl EXCEPT ![w] = [left |-> ControlTTL, kill |-> readable /\ kill,
                                  halt |-> readable /\ halt]]
  ELSE UNCHANGED ctl

CacheControls(w) ==
  IF ~Fresh(ctl[w]) /\ readable
  THEN ctl' = [ctl EXCEPT ![w] = [left |-> ControlTTL, kill |-> kill, halt |-> halt]]
  ELSE UNCHANGED ctl

\* The worker is done with the job, dialed or left where it is; a slot taken
\* for it is given back.
GiveUp(w) ==
  /\ pc' = [pc EXCEPT ![w] = "idle"]
  /\ job' = [job EXCEPT ![w] = NoJob]
  /\ slots' = slots \ {w}

\* The job again, with no counter incremented for it.
Uncounted(w) == job' = [job EXCEPT ![w] = [NoJob EXCEPT !.campaign = job[w].campaign]]

\* A refused admission is asked for again after a pause, a bounded number of
\* times, before the job is left where it is.
NotAdmitted(w) ==
  \/ GiveUp(w)
  \/ /\ pc' = [pc EXCEPT ![w] = "admit"]
     /\ Uncounted(w)
     /\ slots' = slots \ {w}

\* The first gate leads to admission; the second, with the slot held, to the claim.
PassGate(w) ==
  /\ pc' = [pc EXCEPT ![w] = IF w \in slots THEN "claim" ELSE "admit"]
  /\ UNCHANGED <<job, slots>>

Decide(w, count) == IF count >= DialCap THEN GiveUp(w) ELSE PassGate(w)

TakeJob(w) ==
  /\ pc[w] = "idle"
  /\ \E c \in Campaigns : job' = [job EXCEPT ![w].campaign = c]
  /\ pc' = [pc EXCEPT ![w] = "gate"]
  /\ UNCHANGED <<now, ctlVars, readable, ctl, bud, slots, cps, brkVars, dials, histVars, faults>>

\* kill_switch.block_reason() or provider_halt.block_reason(): one cache.
GateControls(w) ==
  /\ pc[w] = "gate"
  /\ CacheControls(w)
  /\ \/ Blocked(w) /\ GiveUp(w)
     \/ /\ ~Blocked(w)
        /\ pc' = [pc EXCEPT ![w] = "budget"]
        /\ UNCHANGED <<job, slots>>
  /\ UNCHANGED <<now, ctlVars, readable, bud, cps, brkVars, dials, histVars, faults>>

\* Bug: a budget that cannot be read does not block.
Bug_GateBudget(w) ==
  /\ pc[w] = "budget"
  /\ \/ /\ Fresh(bud[w]) \/ ~readable
        /\ Decide(w, bud[w].dials)
        /\ UNCHANGED bud
     \/ /\ ~Fresh(bud[w]) /\ readable
        /\ bud' = [bud EXCEPT ![w] = [NoCount EXCEPT !.dials = dials]]
        /\ pc' = [pc EXCEPT ![w] = "counted"]
        /\ UNCHANGED <<job, slots>>
  /\ UNCHANGED <<now, ctlVars, readable, ctl, cps, brkVars, dials, histVars, faults>>

\* spend_cap.block_reason(): an unreadable budget blocks.  The count read is
\* stamped and cached by the next step.
GateBudget(w) ==
  /\ pc[w] = "budget"
  /\ \/ /\ Fresh(bud[w])
        /\ Decide(w, bud[w].dials)
        /\ UNCHANGED bud
     \/ /\ ~Fresh(bud[w]) /\ ~readable
        /\ GiveUp(w)
        /\ UNCHANGED bud
     \/ /\ ~Fresh(bud[w]) /\ readable
        /\ bud' = [bud EXCEPT ![w] = [NoCount EXCEPT !.dials = dials]]
        /\ pc' = [pc EXCEPT ![w] = "counted"]
        /\ UNCHANGED <<job, slots>>
  /\ UNCHANGED <<now, ctlVars, readable, ctl, cps, brkVars, dials, histVars, faults>>

CacheBudget(w) ==
  /\ pc[w] = "counted"
  /\ bud' = [bud EXCEPT ![w].left = BudgetTTL]
  /\ Decide(w, bud[w].dials)
  /\ UNCHANGED <<now, ctlVars, readable, ctl, cps, brkVars, dials, histVars, faults>>

-----------------------------------------------------------------------------
(* Admission. *)

\* The breaker, then the slot; the second of the counters is read once.
Admit(w) ==
  /\ pc[w] = "admit"
  /\ IF openFor > 0 \/ Cardinality(slots) >= ConcurrencyLimit
     THEN NotAdmitted(w)
     ELSE /\ slots' = slots \cup {w}
          /\ pc' = [pc EXCEPT ![w] = "count"]
          /\ job' = [job EXCEPT ![w].second = Second]
  /\ UNCHANGED <<now, ctlVars, readable, ctl, bud, cps, brkVars, dials, histVars, faults>>

CurrentKey(w) == CpsKeys(job[w].campaign)[job[w].step + 1]

Admitted(w) ==
  /\ admits' = [k \in Keys |->
       IF k \in {"global", "provider", job[w].campaign}
       THEN [admits[k] EXCEPT ![job[w].second] = @ + 1] ELSE admits[k]]
  /\ pc' = [pc EXCEPT ![w] = "gate"]
  /\ Uncounted(w)

\* Bug: off by one.
Bug_OverLimit(k, value) == value - 1 > Limit(k)

OverLimit(k, value) == value > Limit(k)

\* INCR of one counter.  Over its limit, the request is refused.
Incr(w) ==
  LET k == CurrentKey(w)
      s == job[w].second
  IN
  /\ pc[w] = "count"
  /\ cps' = [cps EXCEPT ![k][s] = @ + 1]
  /\ \/ /\ ~OverLimit(k, cps'[k][s]) /\ job[w].step = 2
        /\ Admitted(w)
     \/ /\ OverLimit(k, cps'[k][s]) \/ job[w].step < 2
        /\ job' = [job EXCEPT ![w].step = @ + 1]
        /\ pc' = [pc EXCEPT ![w] = IF OverLimit(k, cps'[k][s]) THEN "refused" ELSE @]
        /\ UNCHANGED admits
  /\ UNCHANGED <<now, ctlVars, readable, ctl, bud, slots, brkVars, dials, late, faults>>

\* Bug: a refusal takes back all three counters.
Bug_Rollback(w) == {CpsKeys(job[w].campaign)[i] : i \in 1 .. 3}

\* The counters this request incremented, which a refusal takes back.
Rollback(w) == {CpsKeys(job[w].campaign)[i] : i \in 1 .. job[w].step}

Refuse(w) ==
  /\ pc[w] = "refused"
  /\ cps' = [k \in Keys |->
       IF k \in Rollback(w) THEN [cps[k] EXCEPT ![job[w].second] = @ - 1] ELSE cps[k]]
  /\ NotAdmitted(w)
  /\ UNCHANGED <<now, ctlVars, readable, ctl, bud, brkVars, dials, histVars, faults>>

\* A Redis error between the commands: the slot is released, the counters keep
\* what was added, the error is raised and the job stays queued.
RedisError(w) ==
  /\ pc[w] \in {"count", "refused"} /\ faults < MaxFaults
  /\ faults' = faults + 1
  /\ GiveUp(w)
  /\ UNCHANGED <<now, ctlVars, readable, ctl, bud, cps, brkVars, dials, histVars>>

-----------------------------------------------------------------------------
(* The dial. *)

\* The attempt is committed: from here it counts against the budget.
Claim(w) ==
  /\ pc[w] = "claim"
  /\ dials' = dials + 1
  /\ late' = [late EXCEPT ![w] = IF Stopped /\ stopFor = ControlTTL THEN @ + 1 ELSE @]
  /\ pc' = [pc EXCEPT ![w] = "request"]
  /\ UNCHANGED <<now, ctlVars, readable, ctl, bud, job, slots, cps, brkVars, admits, faults>>

Accepted(w) ==
  /\ pc[w] = "request"
  /\ errors' = 0
  /\ GiveUp(w)
  /\ UNCHANGED <<now, ctlVars, readable, ctl, bud, cps, openFor, dials, histVars, faults>>

\* The error counter has no expiry: it is cleared by a success only.
Failed(w) ==
  /\ pc[w] = "request"
  /\ errors' = IF errors < ErrorThreshold THEN errors + 1 ELSE errors
  /\ openFor' = IF errors + 1 >= ErrorThreshold THEN OpenTicks ELSE openFor
  /\ GiveUp(w)
  /\ UNCHANGED <<now, ctlVars, readable, ctl, bud, cps, dials, histVars, faults>>

\* A provider-configuration error engages the halt and clears the cache of
\* this process; when the row cannot be written the error is raised.
ConfigError(w) ==
  /\ pc[w] = "request"
  /\ \/ /\ readable
        /\ halt' = TRUE
        /\ ctl' = [ctl EXCEPT ![w] = NoControls]
     \/ ~readable /\ UNCHANGED <<halt, ctl>>
  /\ GiveUp(w)
  /\ UNCHANGED <<now, kill, stopFor, switches, readable, bud, cps, brkVars, dials, histVars, faults>>

-----------------------------------------------------------------------------
(* The administrator, the database, the clock. *)

KillSwitch  == kill' = ~kill /\ UNCHANGED halt
ReleaseHalt == halt /\ halt' = FALSE /\ UNCHANGED kill

\* An API process changes a row: the workers' caches are not told.
Switch ==
  /\ readable /\ switches < MaxSwitches
  /\ switches' = switches + 1
  /\ KillSwitch \/ ReleaseHalt
  /\ IF kill' \/ halt' THEN UNCHANGED <<stopFor, late>>
     ELSE stopFor' = 0 /\ late' = [w \in Workers |-> 0]
  /\ UNCHANGED <<now, readable, ctl, bud, pc, job, slots, cps, brkVars, dials, admits, faults>>

Outage ==
  /\ IF readable THEN faults < MaxFaults /\ faults' = faults + 1 ELSE UNCHANGED faults
  /\ readable' = ~readable
  /\ UNCHANGED <<now, ctlVars, ctl, bud, pc, job, slots, cps, brkVars, dials, histVars>>

\* Counting the day's attempts takes less than a tick.
Tick ==
  /\ now < MaxTime
  /\ \A w \in Workers : pc[w] # "counted"
  /\ now' = now + 1
  /\ stopFor' = IF Stopped /\ stopFor < ControlTTL THEN stopFor + 1 ELSE stopFor
  /\ ctl' = [w \in Workers |->
       IF ctl[w].left > 1 THEN [ctl[w] EXCEPT !.left = @ - 1] ELSE NoControls]
  /\ bud' = [w \in Workers |->
       IF bud[w].left > 1 THEN [bud[w] EXCEPT !.left = @ - 1] ELSE NoCount]
  /\ openFor' = IF openFor > 0 THEN openFor - 1 ELSE 0
  /\ UNCHANGED <<kill, halt, switches, readable, errors, pc, job, slots, cps, dials, histVars, faults>>

-----------------------------------------------------------------------------
GateInit ==
  /\ now = 0 /\ kill = FALSE /\ halt = FALSE /\ stopFor = 0 /\ readable = TRUE
  /\ ctl = [w \in Workers |-> NoControls]
  /\ bud = [w \in Workers |-> NoCount]
  /\ pc = [w \in Workers |-> "idle"]
  /\ job = [w \in Workers |-> NoJob]
  /\ slots = {}
  /\ cps = [k \in Keys |-> [s \in Seconds |-> 0]]
  /\ errors = 0 /\ openFor = 0
  /\ dials = 0
  /\ admits = [k \in Keys |-> [s \in Seconds |-> 0]]
  /\ late = [w \in Workers |-> 0]
  /\ switches = 0 /\ faults = 0

GateNext ==
  \/ \E w \in Workers :
       \/ TakeJob(w) \/ GateControls(w) \/ GateBudget(w) \/ CacheBudget(w)
       \/ Admit(w) \/ Incr(w) \/ Refuse(w) \/ RedisError(w)
       \/ Claim(w) \/ Accepted(w) \/ Failed(w) \/ ConfigError(w)
  \/ Switch \/ Outage \/ Tick

GateSpec == GateInit /\ [][GateNext]_vars

-----------------------------------------------------------------------------
(* Properties. *)

ControlTypeOK ==
  /\ now \in 0 .. MaxTime /\ dials \in Nat /\ switches \in Nat /\ faults \in Nat
  /\ stopFor \in 0 .. ControlTTL /\ openFor \in 0 .. OpenTicks /\ errors \in 0 .. ErrorThreshold
  /\ kill \in BOOLEAN /\ halt \in BOOLEAN /\ readable \in BOOLEAN
  /\ ctl \in [Workers -> [left : 0 .. ControlTTL, kill : BOOLEAN, halt : BOOLEAN]]
  /\ bud \in [Workers -> [left : 0 .. BudgetTTL, dials : Nat]]
  /\ late \in [Workers -> Nat]

JobTypeOK ==
  /\ pc \in [Workers -> {"idle", "gate", "budget", "counted", "admit", "count",
                         "refused", "claim", "request"}]
  /\ job \in [Workers -> [campaign : Campaigns \cup {"none"}, second : Seconds, step : 0 .. 3]]
  /\ slots \subseteq Workers

CounterTypeOK ==
  cps \in [Keys -> [Seconds -> Nat]] /\ admits \in [Keys -> [Seconds -> Nat]]

\* Types; in particular no refusal takes a counter below zero.
GateTypeOK == ControlTypeOK /\ JobTypeOK /\ CounterTypeOK

\* No scope admits more calls in a second than its limit, whatever refusals,
\* rollbacks and errors overlap (admission_controller.py, _admit).
CpsWithinLimit == \A k \in Keys, s \in Seconds : admits[k][s] <= Limit(k)

\* A refusal takes back what it added and nothing of anybody else's: a counter
\* is never below the admissions it stands for.
CountersCoverAdmissions == \A k \in Keys, s \in Seconds : cps[k][s] >= admits[k][s]

\* Once a stop has been in force for the cache's lifetime, a worker starts at
\* most the one call it had already checked (dialer_worker.py, stage 2: "lets
\* that one in-flight trigger through").
OneLateDial == \A w \in Workers : late[w] <= 1

\* The passing of the gate by worker w in a step.
Passes(w) == pc[w] = "gate" /\ pc'[w] = "budget"

\* A stop that has been in force for the cache's lifetime is seen by every
\* process, and one that a worker engaged itself is seen by it at once,
\* also while the database does not answer (outbound_control.py, read_all).
StopIsSeen ==
  [][\A w \in Workers : Passes(w) => ~(Stopped /\ stopFor = ControlTTL)]_vars

\* The budget is exceeded at most by the calls of the seconds that one cache
\* lifetime touches and by the other dials in flight (spend_cap.py).
WindowSeconds == (BudgetTTL + SecondTicks - 2) \div SecondTicks + 1

BoundedOvershoot ==
  dials <= DialCap + GlobalCps * WindowSeconds + (ConcurrencyLimit - 1)
=============================================================================
