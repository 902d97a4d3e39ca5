------------------------------ MODULE Schedule ------------------------------
(***************************************************************************)
(* When a campaign may be called: the arithmetic of calling windows        *)
(* (calling_window.py), the campaign's retry policy and its edits          *)
(* (retry_policy_service.py), and a dial job that is deferred to the next  *)
(* opening, dispatched when it is due, and checked again before the call.  *)
(*                                                                         *)
(* Instants are ticks of UTC.  A zone has one change of its clock, at      *)
(* Change, which skips ("spring") or repeats ("fall") Gap ticks of local   *)
(* time; "fixed" has none and "corrupt" is a name that does not load.      *)
(* After the change all days are alike, so the clock of the model steps    *)
(* back a day when it reaches Horizon, and takes `due' with it.            *)
(***************************************************************************)
EXTENDS Integers, FiniteSets

CONSTANTS
  Day,       \* ticks per day
  Change, Gap,   \* when the clock changes, and by how much
  Probe,     \* next_window_open looks this far past a candidate (180 minutes)
  Hard,      \* the global bound
  Default,   \* window of a campaign without a policy row
  Windows,   \* windows a policy row may carry
  Zones,     \* zones of the campaign
  MaxLag,    \* ticks that may pass before the next step of a job in hand
  MaxEdits   \* bound: policy updates

Horizon == 4 * Day

ASSUME ScheduleAssumption ==
  /\ Day \in Nat /\ Gap \in 1 .. Day /\ Change \in Day .. 2 * Day /\ (Change % Day) + Gap < Day
  /\ Probe \in Nat /\ MaxEdits \in Nat /\ MaxLag \in 0 .. Day - 1
  /\ Hard.start < Hard.end
  /\ \A w \in Windows \cup {Hard, Default} :
       {w.start, w.end} \subseteq 0 .. Day - 1 /\ w.start # w.end
  /\ Zones \subseteq {"fixed", "spring", "fall", "corrupt"}

VARIABLES
  now,
  row, zone,   \* the campaign's policy row (a window, or None) and time zone
  legacy,      \* the row was not written by `put'
  job,         \* where the dial job is
  due,         \* when a deferred job is to be looked at again
  seen,        \* zone of the campaign as the worker last read it
  lag,         \* ticks the job in hand has been waited for
  edits

vars == <<now, row, zone, legacy, job, due, seen, lag, edits>>

None == [none |-> TRUE]

Least(S) == CHOOSE x \in S : \A y \in S : x <= y

-----------------------------------------------------------------------------
(* calling_window.py *)

\* _intervals: half-open spans of the day; an overnight window is two.
Intervals(w) ==
  IF w.start < w.end THEN {<<w.start, w.end>>}
  ELSE {<<w.start, Day>>} \cup {<<0, e>> : e \in {w.end} \ {0}}

Latest(a, b)   == IF a[1] < b[1] THEN b[1] ELSE a[1]
Earliest(a, b) == IF a[2] < b[2] THEN a[2] ELSE b[2]

\* _intersect
Intersect(A, B) ==
  {<<Latest(p[1], p[2]), Earliest(p[1], p[2])>> :
     p \in {q \in A \X B : Latest(q[1], q[2]) < Earliest(q[1], q[2])}}

OpenSpans(w) == Intersect(Intervals(w), Intervals(Hard))

\* The zone's offset, before and after the change.
Before(z) == IF z = "fall" THEN Gap ELSE 0
After(z)  == IF z = "spring" THEN Gap ELSE 0

Local(z, t) == t + (IF t < Change THEN Before(z) ELSE After(z))

\* The instant of a local time.  One that occurs twice means its first
\* occurrence; one that was skipped is read with the offset before the change.
ToUtc(z, l) == IF l < Change + Gap THEN l - Before(z) ELSE l - After(z)

Within(t, w) == \E i \in Intervals(w) : i[1] <= t /\ t < i[2]

Bug_IsDialable(t, z, w) ==   \* mutant: the hard bound is only enforced on save
  z # "corrupt" /\ Within(Local(z, t) % Day, w)

\* is_dialable_now; an unloadable zone is never open.
IsDialable(t, z, w) ==
  z # "corrupt" /\ Within(Local(z, t) % Day, w) /\ Within(Local(z, t) % Day, Hard)

Bug_WithinBound(w) == Within(w.start, Hard) /\ Within(w.end, Hard)   \* mutant: ends only

\* window_within_bound
WithinBound(w) ==
  \A i \in Intervals(w) : \E b \in Intervals(Hard) : b[1] <= i[1] /\ i[2] <= b[2]

\* The first dialable instant of the Probe ticks from c on, or the one after.
Probed(c, z, w) ==
  Least({c + Probe} \cup {t \in c .. c + Probe - 1 : IsDialable(t, z, w)})

Bug_Candidates(t, z, w) ==   \* mutant: the opening of the window, not of the overlap
  {Probed(ToUtc(z, (Local(z, t) \div Day + d) * Day + w.start), z, w) : d \in 0 .. 2}

Candidates(t, z, w) ==
  {Probed(ToUtc(z, (Local(z, t) \div Day + d) * Day + i[1]), z, w) :
     d \in 0 .. 2, i \in OpenSpans(w)}

Opens(z, w) == z # "corrupt" /\ OpenSpans(w) # {}

\* next_window_open, where the window opens at all.
NextOpen(t, z, w) ==
  IF IsDialable(t, z, w) THEN t ELSE Least({c \in Candidates(t, z, w) : c > t})

-----------------------------------------------------------------------------
(* The policy in force, and its update. *)

\* get_effective_policy
Policy == IF row = None THEN Default ELSE row

OpenNow == IsDialable(now, zone, Policy)

\* RetryPolicyService.put: a valid window is written to the row, which is
\* created when missing; the zone stays or is replaced by one that loads.
Put(w, z) ==
  /\ edits < MaxEdits
  /\ w.start # w.end /\ WithinBound(w) /\ z # "corrupt"
  /\ row' = w /\ zone' \in {zone, z} /\ legacy' = FALSE
  /\ edits' = edits + 1
  /\ UNCHANGED <<now, job, due, seen, lag>>

-----------------------------------------------------------------------------
(* The job. *)

\* A step is owed: the worker or the scheduler takes it within MaxLag ticks.
Owed == job \in {"queued", "admitted", "outside", "claimed", "held"} \/ (job = "deferred" /\ due <= now)

Step(j) == job' = j /\ UNCHANGED <<now, row, zone, legacy, due, seen, lag, edits>>

\* The job goes to the scheduler, or, with no opening to wait for, stays
\* unacknowledged.
SettleOutsideWindow ==
  /\ IF Opens(zone, Policy)
     THEN job' = "deferred" /\ due' = NextOpen(now, zone, Policy)
     ELSE job' = "held" /\ UNCHANGED due
  /\ lag' = 0
  /\ UNCHANGED <<now, row, zone, legacy, seen, edits>>

\* The worker reads the job: the early check, before admission.
Read ==
  /\ job = "queued"
  /\ \/ OpenNow /\ Step("admitted")
     \/ ~OpenNow /\ SettleOutsideWindow

\* The eligibility check before the attempt is claimed.
Check ==
  /\ job = "admitted"
  /\ job' = IF OpenNow THEN "claimed" ELSE "outside"
  /\ seen' = zone
  /\ UNCHANGED <<now, row, zone, legacy, due, lag, edits>>

\* After a failed check the window is read once more; if it has opened in
\* between there is no time to defer to, and the job stays unacknowledged.
Settle ==
  /\ job = "outside"
  /\ \/ ~OpenNow /\ SettleOutsideWindow
     \/ /\ OpenNow
        /\ job' = "held" /\ lag' = 0
        /\ UNCHANGED <<now, row, zone, legacy, due, seen, edits>>

Redeliver == job = "held" /\ Step("queued")

Call == job = "claimed" /\ Step("called")

Bug_Dispatch ==   \* mutant: an entry that finds the window closed is not put back
  /\ job = "deferred" /\ due <= now
  /\ Step(IF OpenNow THEN "queued" ELSE "dropped")

\* The scheduler takes a due job: back to the stream, to the next opening, or,
\* when the window cannot be evaluated, to the next minute.
Dispatch ==
  /\ job = "deferred" /\ due <= now
  /\ \/ OpenNow /\ Step("queued")
     \/ /\ ~OpenNow
        /\ due' = IF Opens(zone, Policy) THEN NextOpen(now, zone, Policy) ELSE now + 1
        /\ lag' = 0
        /\ UNCHANGED <<now, row, zone, legacy, job, seen, edits>>

\* Time passes; a step that is owed is not put off for ever.
Tick ==
  /\ Owed => lag < MaxLag
  /\ lag' = IF Owed THEN lag + 1 ELSE 0
  /\ IF now + 1 < Horizon
     THEN now' = now + 1 /\ UNCHANGED due
     ELSE now' = now + 1 - Day /\ due' = IF job = "deferred" THEN due - Day ELSE 0
  /\ UNCHANGED <<row, zone, legacy, job, seen, edits>>

ScheduleInit ==
  /\ now \in 0 .. 2 * Day
  /\ row \in Windows \cup {None} /\ zone \in Zones /\ legacy = TRUE
  /\ job = "queued" /\ due = 0 /\ seen = zone /\ lag = 0 /\ edits = 0

ScheduleNext ==
  \/ Tick \/ Read \/ Check \/ Settle \/ Redeliver \/ Call \/ Dispatch
  \/ \E w \in Windows, z \in Zones : Put(w, z)

ScheduleSpec ==
  /\ ScheduleInit /\ [][ScheduleNext]_vars
  /\ WF_vars(Tick) /\ WF_vars(Read \/ Check \/ Settle \/ Redeliver \/ Call) /\ WF_vars(Dispatch)

-----------------------------------------------------------------------------
(* Properties. *)

\* The local times the change skips or repeats.
Changed == <<Change % Day, (Change % Day) + Gap>>

\* The change of the clock does not touch an edge of an open span.
Quiet(z, w) ==
  z = "fixed" \/ \A i \in OpenSpans(w) :
    i[2] <= Changed[1] \/ Changed[2] <= i[1] \/ (i[1] <= Changed[1] /\ Changed[2] < i[2])

\* The first instant from t on at which the window is open, by looking at each.
FirstOpen(t, z, w) == Least({u \in t .. t + 2 * Day + Gap : IsDialable(u, z, w)})

\* next_window_open is the earliest instant, from now on, at which both windows
\* are open, across midnight and across a change of the clock that leaves the
\* edges of the window alone; and there is one exactly when the windows overlap
\* (calling_window.py, next_window_open and _intersect).
NextOpenIsEarliest ==
  Opens(zone, Policy) /\ Quiet(zone, Policy) =>
    NextOpen(now, zone, Policy) = FirstOpen(now, zone, Policy)

\* A window that passed validation has no instant outside the hard bound
\* (window_within_bound, as validate_policy_update uses it).
SavedInsideBound ==
  ~legacy => \A t \in 0 .. Day - 1 : Within(t, row) => Within(t, Hard)

\* Whatever the row says and however it is edited while a job is under way, a
\* call starts inside the hard bound, or within the delay of a step after it
\* (eligibility_service.py, check; the clamp of is_dialable_now).
CallInsideHardBound ==
  [][Call => \E d \in 0 .. MaxLag : Within(Local(seen, now - d) % Day, Hard)]_vars

\* Some open span is longer than the delays.
OpensLongEnough == zone # "corrupt" /\ \E i \in OpenSpans(Policy) : i[2] - i[1] > Gap + 2 * MaxLag

\* A deferred job is called in the end, if the window that stays in force opens
\* for long enough: it is not lost, and not put off from day to day.
JobIsCalled == <>[]OpensLongEnough => <>(job = "called")
=============================================================================
