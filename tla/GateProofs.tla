----------------------------- MODULE GateProofs -----------------------------
(***************************************************************************)
(* Theorems about OutboundGate, for any number of workers and campaigns    *)
(* and any limits, lifetimes and bounds:                                   *)
(*                                                                         *)
(*   GateTypes          types; no refusal takes a counter below zero       *)
(*   AdmissionsCovered  a counter covers the admissions it stands for      *)
(*   CallsPerSecond     no scope exceeds its calls per second              *)
(*   LateDials          one late claim per worker and stop                 *)
(*   StopSeen           nobody passes the gate in a stop as old as a cache *)
(*                                                                         *)
(* The inductive invariant has three parts.  Shape: the types and, per     *)
(* program counter, how much of its counters a worker has incremented.     *)
(* CounterInv: a counter covers the admissions and the requests still      *)
(* open, and the requests not refused fit the limit.  StopInv: a cached    *)
(* "go" and the age of the stop together do not exceed the cache's         *)
(* lifetime.                                                               *)
(***************************************************************************)
EXTENDS OutboundGate, FiniteSetTheorems, TLAPS

\* A worker that counts has a campaign and has not come to the last counter; one
\* that is refused has incremented something; nobody else has.
JobShape ==
  \A w \in Workers :
    /\ pc[w] # "idle" => job[w].campaign \in Campaigns
    /\ pc[w] = "count" => job[w].step \in 0 .. 2
    /\ pc[w] \notin {"count", "refused"} => job[w].step = 0

Shape == ControlTypeOK /\ JobTypeOK /\ JobShape

\* The constants, one by one.
LEMMA GateConstants ==
  /\ GlobalCps \in Nat /\ CampaignCps \in Nat /\ ProviderCps \in Nat /\ ConcurrencyLimit \in Nat
  /\ DialCap \in Nat /\ ControlTTL \in Nat /\ BudgetTTL \in Nat /\ OpenTicks \in Nat
  /\ MaxTime \in Nat /\ MaxSwitches \in Nat /\ MaxFaults \in Nat
  /\ SecondTicks \in Nat \ {0} /\ ErrorThreshold \in Nat \ {0}
  /\ "global" \notin Campaigns /\ "provider" \notin Campaigns /\ "none" \notin Campaigns
  BY GateAssumption

\* The second of the clock has counters.
LEMMA SecondInRange == ASSUME ControlTypeOK PROVE Second \in Seconds /\ 0 \in Seconds
<1>1. now \in Nat /\ now <= MaxTime
  BY GateConstants DEF ControlTypeOK
<1>2. \A x \in Nat : x \div SecondTicks \in Nat
  BY GateConstants
<1>3. now \div SecondTicks <= MaxTime \div SecondTicks
  BY <1>1, GateConstants
<1> QED BY <1>1, <1>2, <1>3, GateConstants DEF Second, Seconds

\* Leaving a job keeps the shape.
LEMMA GiveUpShape ==
  ASSUME Shape, NEW w \in Workers, GiveUp(w)
  PROVE  JobTypeOK' /\ JobShape'
<1>1. NoJob \in [campaign : Campaigns \cup {"none"}, second : Seconds, step : 0 .. 3] /\ NoJob.step = 0
  BY SecondInRange DEF NoJob, Shape
<1> QED BY <1>1 DEF Shape, GiveUp, JobTypeOK, JobShape

\* What a job is after its counters are forgotten; no other job changes.
LEMMA UncountedJob ==
  ASSUME Shape, NEW w \in Workers, Uncounted(w)
  PROVE  /\ job' \in [Workers -> [campaign : Campaigns \cup {"none"}, second : Seconds, step : 0 .. 3]]
         /\ \A v \in Workers :
              IF v = w
              THEN job'[v].campaign = job[v].campaign /\ job'[v].second = 0 /\ job'[v].step = 0
              ELSE job'[v] = job[v]
<1> DEFINE j == [NoJob EXCEPT !.campaign = job[w].campaign]
<1>1. /\ j \in [campaign : Campaigns \cup {"none"}, second : Seconds, step : 0 .. 3]
      /\ j.campaign = job[w].campaign /\ j.second = 0 /\ j.step = 0
  BY SecondInRange DEF Shape, JobTypeOK, NoJob
<1>2. job' = [job EXCEPT ![w] = j]
  BY DEF Uncounted
<1> HIDE DEF j
<1> QED BY <1>1, <1>2 DEF Shape, JobTypeOK

\* A refused admission keeps the shape.
LEMMA NotAdmittedShape ==
  ASSUME Shape, NEW w \in Workers, pc[w] # "idle", NotAdmitted(w)
  PROVE  JobTypeOK' /\ JobShape'
<1>1. CASE GiveUp(w)
  BY <1>1, GiveUpShape
<1>2. CASE ~GiveUp(w)
  <2>1. Uncounted(w) /\ pc' = [pc EXCEPT ![w] = "admit"] /\ slots' = slots \ {w}
    BY <1>2 DEF NotAdmitted
  <2>2. JobTypeOK'
    BY <2>1, UncountedJob DEF Shape, JobTypeOK
  <2>3. JobShape'
    BY <2>1, UncountedJob DEF Shape, JobTypeOK, JobShape
  <2> QED BY <2>2, <2>3
<1> QED BY <1>1, <1>2

\* Passing the gate keeps the shape.
LEMMA PassGateShape ==
  ASSUME Shape, NEW w \in Workers, pc[w] \in {"budget", "counted"}, PassGate(w)
  PROVE  JobTypeOK' /\ JobShape'
  BY DEF Shape, PassGate, JobTypeOK, JobShape

\* The decision on the budget keeps the shape.
LEMMA DecideShape ==
  ASSUME Shape, NEW w \in Workers, pc[w] \in {"budget", "counted"}, NEW n, Decide(w, n)
  PROVE  JobTypeOK' /\ JobShape'
  BY GiveUpShape, PassGateShape DEF Decide

\* Taking a job keeps the shape.
LEMMA TakeJobShape ==
  ASSUME Shape, NEW w \in Workers, TakeJob(w)
  PROVE  Shape'
<1>1. ControlTypeOK'
  BY DEF Shape, TakeJob, ControlTypeOK, ctlVars, brkVars, histVars
<1>2. JobTypeOK' /\ JobShape'
  BY DEF Shape, TakeJob, JobTypeOK, JobShape
<1> QED BY <1>1, <1>2 DEF Shape

\* The gate's check of the controls keeps the shape.
LEMMA GateControlsShape ==
  ASSUME Shape, NEW w \in Workers, GateControls(w)
  PROVE  Shape'
<1>1. ControlTypeOK'
  <2>1. ctl' \in [Workers -> [left : 0 .. ControlTTL, kill : BOOLEAN, halt : BOOLEAN]]
    <3>1. [left |-> ControlTTL, kill |-> kill, halt |-> halt]
            \in [left : 0 .. ControlTTL, kill : BOOLEAN, halt : BOOLEAN]
      BY GateConstants DEF Shape, ControlTypeOK
    <3> QED BY <3>1 DEF Shape, GateControls, CacheControls, ControlTypeOK
  <2> QED BY <2>1 DEF Shape, GateControls, ControlTypeOK, ctlVars, brkVars, histVars
<1>2. JobTypeOK' /\ JobShape'
  <2>1. CASE GiveUp(w)
    BY <2>1, GiveUpShape
  <2>2. CASE pc' = [pc EXCEPT ![w] = "budget"] /\ UNCHANGED <<job, slots>>
    BY <2>2 DEF Shape, GateControls, JobTypeOK, JobShape
  <2> QED BY <2>1, <2>2 DEF GateControls
<1> QED BY <1>1, <1>2 DEF Shape

\* The gate's check of the budget keeps the shape.
LEMMA GateBudgetShape ==
  ASSUME Shape, NEW w \in Workers, GateBudget(w)
  PROVE  Shape'
<1>1. ControlTypeOK'
  <2>1. [NoCount EXCEPT !.dials = dials] \in [left : 0 .. BudgetTTL, dials : Nat]
    BY GateConstants DEF Shape, ControlTypeOK, NoCount
  <2>2. bud' \in [Workers -> [left : 0 .. BudgetTTL, dials : Nat]]
    BY <2>1 DEF Shape, GateBudget, ControlTypeOK
  <2> QED BY <2>2 DEF Shape, GateBudget, ControlTypeOK, ctlVars, brkVars, histVars
<1>2. pc[w] = "budget"
  BY DEF GateBudget
<1>3. JobTypeOK' /\ JobShape'
  <2>1. CASE GiveUp(w) \/ Decide(w, bud[w].dials)
    BY <2>1, <1>2, GiveUpShape, DecideShape
  <2>2. CASE pc' = [pc EXCEPT ![w] = "counted"] /\ UNCHANGED <<job, slots>>
    BY <2>2, <1>2 DEF Shape, JobTypeOK, JobShape
  <2> QED BY <2>1, <2>2 DEF GateBudget
<1> QED BY <1>1, <1>3 DEF Shape

\* Caching the count of dials keeps the shape.
LEMMA CacheBudgetShape ==
  ASSUME Shape, NEW w \in Workers, CacheBudget(w)
  PROVE  Shape'
<1>1. ControlTypeOK'
  <2>1. bud' \in [Workers -> [left : 0 .. BudgetTTL, dials : Nat]]
    BY GateConstants DEF Shape, CacheBudget, ControlTypeOK
  <2> QED BY <2>1 DEF Shape, CacheBudget, ControlTypeOK, ctlVars, brkVars, histVars
<1>2. JobTypeOK' /\ JobShape'
  BY DecideShape DEF CacheBudget
<1> QED BY <1>1, <1>2 DEF Shape

\* The breaker and the slot keep the shape.
LEMMA AdmitShape ==
  ASSUME Shape, NEW w \in Workers, Admit(w)
  PROVE  Shape'
<1>1. ControlTypeOK'
  BY DEF Shape, Admit, ControlTypeOK, ctlVars, brkVars, histVars
<1>2. JobTypeOK' /\ JobShape'
  <2>1. CASE NotAdmitted(w)
    BY <2>1, NotAdmittedShape DEF Admit
  <2>2. CASE ~NotAdmitted(w)
    <3>1. Second \in Seconds
      BY SecondInRange DEF Shape
    <3>2. /\ slots' = slots \cup {w} /\ pc' = [pc EXCEPT ![w] = "count"]
          /\ job' = [job EXCEPT ![w].second = Second]
      BY <2>2 DEF Admit
    <3>3. JobTypeOK'
      BY <3>1, <3>2 DEF Shape, JobTypeOK
    <3>4. JobShape'
      BY <3>2 DEF Shape, JobTypeOK, JobShape, Admit
    <3> QED BY <3>3, <3>4
  <2> QED BY <2>1, <2>2
<1> QED BY <1>1, <1>2 DEF Shape

\* An INCR keeps the shape: the job goes on to the next counter, is
\* admitted or refused.
LEMMA IncrShape ==
  ASSUME Shape, NEW w \in Workers, Incr(w)
  PROVE  Shape'
<1>1. ControlTypeOK'
  BY DEF Shape, Incr, ControlTypeOK, ctlVars, brkVars, histVars
<1>2. pc[w] = "count" /\ slots' = slots /\ job[w].step \in 0 .. 2 /\ 0 \in Seconds
  BY SecondInRange DEF Incr, Shape, JobShape
<1>3. CASE Uncounted(w) /\ pc' = [pc EXCEPT ![w] = "gate"]
  <2>1. JobTypeOK'
    <3>1. job' \in [Workers -> [campaign : Campaigns \cup {"none"}, second : Seconds, step : 0 .. 3]]
      BY <1>3, UncountedJob DEF Shape
    <3>2. pc' \in [Workers -> {"idle", "gate", "budget", "counted", "admit", "count",
                              "refused", "claim", "request"}]
      BY <1>3 DEF Shape, JobTypeOK
    <3> QED BY <1>2, <3>1, <3>2 DEF Shape, JobTypeOK
  <2>2. JobShape'
    BY <1>2, <1>3, UncountedJob DEF Shape, JobTypeOK, JobShape
  <2> QED BY <1>1, <2>1, <2>2 DEF Shape
<1>4. CASE /\ job' = [job EXCEPT ![w].step = @ + 1] /\ job[w].step < 2
           /\ pc' = [pc EXCEPT ![w] = "count"]
  BY <1>1, <1>2, <1>4 DEF Shape, JobTypeOK, JobShape
<1>5. CASE job' = [job EXCEPT ![w].step = @ + 1] /\ pc' = [pc EXCEPT ![w] = "refused"]
  BY <1>1, <1>2, <1>5 DEF Shape, JobTypeOK, JobShape
<1> QED
  <2> DEFINE k == CurrentKey(w)
             over == OverLimit(k, cps'[k][job[w].second])
  <2>1. \/ Admitted(w)
        \/ /\ over \/ job[w].step < 2
           /\ job' = [job EXCEPT ![w].step = @ + 1]
           /\ pc' = [pc EXCEPT ![w] = IF over THEN "refused" ELSE @]
    BY DEF Incr
  <2> HIDE DEF over
  <2>2. pc[w] = "count" /\ pc \in [Workers -> {"idle", "gate", "budget", "counted", "admit", "count",
                         "refused", "claim", "request"}]
    BY <1>2 DEF Shape, JobTypeOK
  <2> QED BY <2>1, <2>2, <1>3, <1>4, <1>5 DEF Admitted

\* A rollback keeps the shape.
LEMMA RefuseShape ==
  ASSUME Shape, NEW w \in Workers, Refuse(w)
  PROVE  Shape'
<1>1. ControlTypeOK'
  BY DEF Shape, Refuse, ControlTypeOK, ctlVars, brkVars, histVars
<1>2. JobTypeOK' /\ JobShape'
  BY NotAdmittedShape DEF Refuse
<1> QED BY <1>1, <1>2 DEF Shape

\* The ends of a job keep the shape.
LEMMA EndShape ==
  ASSUME Shape, NEW w \in Workers, RedisError(w) \/ Accepted(w) \/ Failed(w) \/ ConfigError(w)
  PROVE  Shape'
<1>1. ControlTypeOK'
  <2>1. CASE RedisError(w) \/ Accepted(w) \/ Failed(w)
    BY <2>1, GateConstants
    DEF Shape, RedisError, Accepted, Failed, ControlTypeOK, ctlVars, brkVars, histVars
  <2>2. CASE ConfigError(w)
    <3>1. NoControls \in [left : 0 .. ControlTTL, kill : BOOLEAN, halt : BOOLEAN]
      BY GateConstants DEF NoControls
    <3>2. ctl' \in [Workers -> [left : 0 .. ControlTTL, kill : BOOLEAN, halt : BOOLEAN]]
      BY <2>2, <3>1 DEF Shape, ControlTypeOK, ConfigError
    <3>3. halt' \in BOOLEAN
      BY <2>2 DEF Shape, ControlTypeOK, ConfigError
    <3> QED BY <2>2, <3>2, <3>3 DEF Shape, ConfigError, ControlTypeOK, brkVars, histVars
  <2> QED BY <2>1, <2>2
<1>2. JobTypeOK' /\ JobShape'
  BY GiveUpShape DEF RedisError, Accepted, Failed, ConfigError
<1> QED BY <1>1, <1>2 DEF Shape

\* The claim keeps the shape.
LEMMA ClaimShape ==
  ASSUME Shape, NEW w \in Workers, Claim(w)
  PROVE  Shape'
<1>1. ControlTypeOK'
  BY DEF Shape, Claim, ControlTypeOK, ctlVars, brkVars
<1>2. JobTypeOK' /\ JobShape'
  BY DEF Shape, Claim, JobTypeOK, JobShape
<1> QED BY <1>1, <1>2 DEF Shape

\* The administrator, the database and the clock keep the shape.
LEMMA EnvironmentShape ==
  ASSUME Shape, Switch \/ Outage \/ Tick
  PROVE  Shape'
<1>1. ControlTypeOK'
  <2>1. CASE Switch
    <3>1. kill' \in BOOLEAN /\ halt' \in BOOLEAN
      BY <2>1 DEF Shape, Switch, KillSwitch, ReleaseHalt, ControlTypeOK
    <3>2. switches' \in Nat
      BY <2>1 DEF Shape, Switch, ControlTypeOK
    <3>3. stopFor' \in 0 .. ControlTTL /\ late' \in [Workers -> Nat]
      BY <2>1, GateConstants DEF Shape, Switch, ControlTypeOK
    <3> QED BY <2>1, <3>1, <3>2, <3>3 DEF Shape, Switch, ControlTypeOK, brkVars
  <2>2. CASE Outage
    BY <2>2 DEF Shape, Outage, ControlTypeOK, ctlVars, brkVars, histVars
  <2>3. CASE Tick
    <3>1. NoControls \in [left : 0 .. ControlTTL, kill : BOOLEAN, halt : BOOLEAN]
      BY GateConstants DEF NoControls
    <3>2. ctl' \in [Workers -> [left : 0 .. ControlTTL, kill : BOOLEAN, halt : BOOLEAN]]
      BY <2>3, <3>1, GateConstants DEF Shape, ControlTypeOK, Tick
    <3>3. NoCount \in [left : 0 .. BudgetTTL, dials : Nat]
      BY GateConstants DEF NoCount
    <3>4. bud' \in [Workers -> [left : 0 .. BudgetTTL, dials : Nat]]
      BY <2>3, <3>3, GateConstants DEF Shape, ControlTypeOK, Tick
    <3>5. now' \in 0 .. MaxTime /\ stopFor' \in 0 .. ControlTTL /\ openFor' \in 0 .. OpenTicks
      BY <2>3, GateConstants DEF Shape, ControlTypeOK, Tick
    <3> QED BY <2>3, <3>2, <3>4, <3>5 DEF Shape, Tick, ControlTypeOK, histVars
  <2> QED BY <2>1, <2>2, <2>3
<1>2. JobTypeOK' /\ JobShape'
  BY DEF Shape, Switch, Outage, Tick, JobTypeOK, JobShape
<1> QED BY <1>1, <1>2 DEF Shape

-----------------------------------------------------------------------------
(* The counters. *)

\* Worker w has incremented counter k of second s for a request that is open.
Counted(w, k, s) == job[w].second = s /\ k \in Rollback(w)

Pending(k, s) == {w \in Workers : Counted(w, k, s)}
Passed(k, s)  == {w \in Workers : pc[w] = "count" /\ Counted(w, k, s)}

\* A counter covers the admissions and the open requests that incremented it;
\* those that were not refused fit the limit together with the admissions.
CounterInv ==
  /\ cps \in [Keys -> [Seconds -> Int]]
  /\ admits \in [Keys -> [Seconds -> Nat]]
  /\ \A k \in Keys, s \in Seconds :
       /\ admits[k][s] + Cardinality(Pending(k, s)) <= cps[k][s]
       /\ admits[k][s] + Cardinality(Passed(k, s)) <= Limit(k)

One(b) == IF b THEN 1 ELSE 0

\* What an action of worker w alone must ensure of its share in the counters.
Balanced(w) ==
  \A k \in Keys, s \in Seconds :
    /\ admits'[k][s] + One(Counted(w, k, s))' - cps'[k][s]
         <= admits[k][s] + One(Counted(w, k, s)) - cps[k][s]
    /\ \/ cps'[k][s] <= Limit(k)
       \/ admits'[k][s] + One(pc[w] = "count" /\ Counted(w, k, s))'
            <= admits[k][s] + One(pc[w] = "count" /\ Counted(w, k, s))

\* Every key has a limit.
LEMMA LimitIsNat == \A k : Limit(k) \in Nat
  BY GateConstants DEF Limit

\* A finite set counted without one element.
LEMMA CountWithout ==
  ASSUME NEW A, IsFiniteSet(A), NEW w
  PROVE  Cardinality(A) = Cardinality(A \ {w}) + One(w \in A)
<1>1. CASE w \in A
  <2>1. Cardinality(A \ {w}) = Cardinality(A) - 1 /\ Cardinality(A) \in Nat
    BY <1>1, FS_RemoveElement, FS_CardinalityType
  <2> QED BY <1>1, <2>1 DEF One
<1>2. CASE w \notin A
  <2>1. A \ {w} = A /\ Cardinality(A) \in Nat
    BY <1>2, FS_CardinalityType
  <2> QED BY <1>2, <2>1 DEF One
<1> QED BY <1>1, <1>2

\* The open requests of a counter are finitely many, those that are not
\* refused among them.
LEMMA OpenRequests ==
  ASSUME NEW k, NEW s
  PROVE  /\ IsFiniteSet(Pending(k, s)) /\ IsFiniteSet(Passed(k, s))
         /\ Cardinality(Pending(k, s)) \in Nat /\ Cardinality(Passed(k, s)) \in Nat
         /\ Cardinality(Passed(k, s)) <= Cardinality(Pending(k, s))
<1>1. Pending(k, s) \subseteq Workers /\ Passed(k, s) \subseteq Pending(k, s)
  BY DEF Pending, Passed
<1>2. IsFiniteSet(Pending(k, s))
  BY <1>1, GateAssumption, FS_Subset
<1> QED BY <1>1, <1>2, FS_Subset, FS_CardinalityType

\* A step of one worker preserves the counters' invariant if its own share
\* is balanced.
LEMMA WorkerBalance ==
  ASSUME CounterInv, NEW w \in Workers,
         cps' \in [Keys -> [Seconds -> Int]], admits' \in [Keys -> [Seconds -> Nat]],
         \A v \in Workers \ {w} : job'[v] = job[v] /\ pc'[v] = pc[v],
         Balanced(w)
  PROVE  CounterInv'
<1> SUFFICES ASSUME NEW k \in Keys, NEW s \in Seconds
             PROVE  /\ admits'[k][s] + Cardinality(Pending(k, s)') <= cps'[k][s]
                    /\ admits'[k][s] + Cardinality(Passed(k, s)') <= Limit(k)
  BY DEF CounterInv
<1> DEFINE P == Pending(k, s) \ {w}
           Q == Passed(k, s) \ {w}
<1>1. P = Pending(k, s)' \ {w} /\ Q = Passed(k, s)' \ {w}
  BY DEF Pending, Passed, Counted, Rollback
<1>2. /\ One(w \in Pending(k, s)) = One(Counted(w, k, s))
      /\ One(w \in Passed(k, s)) = One(pc[w] = "count" /\ Counted(w, k, s))
  BY DEF Pending, Passed, One
<1>3. /\ One(w \in Pending(k, s)') = One(Counted(w, k, s))'
      /\ One(w \in Passed(k, s)') = One(pc[w] = "count" /\ Counted(w, k, s))'
  BY DEF Pending, Passed, One
<1>4. /\ Cardinality(Pending(k, s)) = Cardinality(P) + One(Counted(w, k, s))
      /\ Cardinality(Passed(k, s)) = Cardinality(Q) + One(pc[w] = "count" /\ Counted(w, k, s))
  BY <1>2, CountWithout, OpenRequests
<1>5. /\ IsFiniteSet(Pending(k, s)') /\ IsFiniteSet(Passed(k, s)')
      /\ Cardinality(Passed(k, s)') <= Cardinality(Pending(k, s)')
      /\ Cardinality(Pending(k, s)') \in Nat /\ Cardinality(Passed(k, s)') \in Nat
  <2>1. Pending(k, s)' \subseteq Workers /\ Passed(k, s)' \subseteq Pending(k, s)'
    BY DEF Pending, Passed
  <2>2. IsFiniteSet(Pending(k, s)')
    BY <2>1, GateAssumption, FS_Subset
  <2> QED BY <2>1, <2>2, FS_Subset, FS_CardinalityType
<1>6. /\ Cardinality(Pending(k, s)') = Cardinality(P) + One(Counted(w, k, s))'
      /\ Cardinality(Passed(k, s)') = Cardinality(Q) + One(pc[w] = "count" /\ Counted(w, k, s))'
  BY <1>1, <1>3, <1>5, CountWithout
<1>7. IsFiniteSet(P) /\ IsFiniteSet(Q) /\ Cardinality(P) \in Nat /\ Cardinality(Q) \in Nat
  BY OpenRequests, FS_Subset, FS_CardinalityType
<1>8. /\ admits[k][s] + Cardinality(Pending(k, s)) <= cps[k][s]
      /\ admits[k][s] + Cardinality(Passed(k, s)) <= Limit(k)
      /\ admits[k][s] \in Nat /\ cps[k][s] \in Int
      /\ admits'[k][s] \in Nat /\ cps'[k][s] \in Int /\ Limit(k) \in Nat
  BY LimitIsNat DEF CounterInv
<1>9. \A b : One(b) \in Nat
  BY DEF One
<1>10. /\ admits'[k][s] + One(Counted(w, k, s))' - cps'[k][s]
            <= admits[k][s] + One(Counted(w, k, s)) - cps[k][s]
       /\ \/ cps'[k][s] <= Limit(k)
          \/ admits'[k][s] + One(pc[w] = "count" /\ Counted(w, k, s))'
               <= admits[k][s] + One(pc[w] = "count" /\ Counted(w, k, s))
  BY DEF Balanced
<1>11. One(Counted(w, k, s))' \in Nat /\ One(pc[w] = "count" /\ Counted(w, k, s))' \in Nat
  BY DEF One
<1>12. One(Counted(w, k, s)) \in Nat /\ One(pc[w] = "count" /\ Counted(w, k, s)) \in Nat
  BY DEF One
<1> HIDE DEF P, Q
<1>13. admits'[k][s] + Cardinality(Pending(k, s)') <= cps'[k][s]
  BY <1>4, <1>6, <1>7, <1>8, <1>10, <1>11, <1>12
<1>14. admits'[k][s] + Cardinality(Passed(k, s)') <= Limit(k)
  BY <1>4, <1>5, <1>6, <1>7, <1>8, <1>10, <1>11, <1>12, <1>13
<1> QED BY <1>13, <1>14

\* The counters incremented after each number of INCRs.
LEMMA KeysSoFar ==
  ASSUME NEW c
  PROVE  /\ {CpsKeys(c)[i] : i \in 1 .. 0} = {}
         /\ {CpsKeys(c)[i] : i \in 1 .. 1} = {"global"}
         /\ {CpsKeys(c)[i] : i \in 1 .. 2} = {"global", c}
         /\ {CpsKeys(c)[i] : i \in 1 .. 3} = {"global", c, "provider"}
<1>1. CpsKeys(c)[1] = "global" /\ CpsKeys(c)[2] = c /\ CpsKeys(c)[3] = "provider"
  BY DEF CpsKeys
<1>2. 1 .. 0 = {} /\ 1 .. 1 = {1} /\ 1 .. 2 = {1, 2} /\ 1 .. 3 = {1, 2, 3}
  OBVIOUS
<1> QED BY <1>1, <1>2

\* A step that changes no counter and adds nothing to the worker's share.
LEMMA ShareKept ==
  ASSUME Shape, CounterInv, NEW w \in Workers, UNCHANGED <<cps, admits>>,
         \A v \in Workers \ {w} : job'[v] = job[v] /\ pc'[v] = pc[v],
         job'[w].step = 0 \/ (job'[w] = job[w] /\ (pc'[w] = "count" => pc[w] = "count"))
  PROVE  CounterInv'
<1>1. \A k, s : /\ Counted(w, k, s)' => Counted(w, k, s)
                /\ (pc[w] = "count" /\ Counted(w, k, s))' => pc[w] = "count" /\ Counted(w, k, s)
  BY KeysSoFar DEF Counted, Rollback
<1>2. Balanced(w)
  <2> SUFFICES ASSUME NEW k \in Keys, NEW s \in Seconds
               PROVE  /\ admits'[k][s] + One(Counted(w, k, s))' - cps'[k][s]
                           <= admits[k][s] + One(Counted(w, k, s)) - cps[k][s]
                      /\ admits'[k][s] + One(pc[w] = "count" /\ Counted(w, k, s))'
                           <= admits[k][s] + One(pc[w] = "count" /\ Counted(w, k, s))
    BY DEF Balanced
  <2>1. admits[k][s] \in Int /\ cps[k][s] \in Int /\ admits'[k][s] = admits[k][s] /\ cps'[k][s] = cps[k][s]
    BY DEF CounterInv
  <2> QED BY <1>1, <2>1 DEF One
<1> QED BY <1>2, WorkerBalance DEF CounterInv

\* A rollback takes back exactly the worker's share.
LEMMA RefuseBalance ==
  ASSUME Shape, CounterInv, NEW w \in Workers, Refuse(w)
  PROVE  CounterInv'
<1>1. /\ cps' = [k \in Keys |-> IF k \in Rollback(w)
                   THEN [cps[k] EXCEPT ![job[w].second] = @ - 1] ELSE cps[k]]
      /\ admits' = admits
  BY DEF Refuse, histVars
<1>2. /\ \A v \in Workers \ {w} : job'[v] = job[v] /\ pc'[v] = pc[v]
      /\ job'[w].step = 0 /\ pc'[w] # "count"
  <2>1. CASE GiveUp(w)
    BY <2>1 DEF GiveUp, NoJob, Shape, JobTypeOK
  <2>2. CASE ~GiveUp(w)
    BY <2>2, UncountedJob DEF Refuse, NotAdmitted, Shape, JobTypeOK
  <2> QED BY <2>1, <2>2
<1>3. \A k, s : ~Counted(w, k, s)'
  BY <1>2, KeysSoFar DEF Counted, Rollback
<1>4. job[w].second \in Seconds
  BY DEF Shape, JobTypeOK
<1>5. cps' \in [Keys -> [Seconds -> Int]]
  BY <1>1, <1>4 DEF CounterInv
<1>6. Balanced(w)
  <2> SUFFICES ASSUME NEW k \in Keys, NEW s \in Seconds
               PROVE  /\ admits'[k][s] + One(Counted(w, k, s))' - cps'[k][s]
                           <= admits[k][s] + One(Counted(w, k, s)) - cps[k][s]
                      /\ admits'[k][s] + One(pc[w] = "count" /\ Counted(w, k, s))'
                           <= admits[k][s] + One(pc[w] = "count" /\ Counted(w, k, s))
    BY DEF Balanced
  <2>1. admits[k][s] \in Int /\ cps[k][s] \in Int /\ admits'[k][s] = admits[k][s]
    BY <1>1 DEF CounterInv
  <2>2. cps'[k][s] = cps[k][s] - One(Counted(w, k, s))
    BY <1>1, <1>4, <2>1 DEF CounterInv, Counted, One
  <2>3. One(Counted(w, k, s))' = 0 /\ One(pc[w] = "count" /\ Counted(w, k, s))' = 0
    BY <1>3 DEF One
  <2>4. One(Counted(w, k, s)) \in Nat /\ One(pc[w] = "count" /\ Counted(w, k, s)) \in Nat
    BY DEF One
  <2> QED BY <2>1, <2>2, <2>3, <2>4
<1> QED BY <1>1, <1>2, <1>5, <1>6, WorkerBalance DEF CounterInv

\* An INCR adds one to a counter and to the worker's share; an admission
\* turns the share into admissions.
LEMMA IncrBalance ==
  ASSUME Shape, CounterInv, NEW w \in Workers, Incr(w)
  PROVE  CounterInv'
<1> DEFINE c == job[w].campaign
           n == job[w].step
           t == job[w].second
           key == CurrentKey(w)
<1>1. c \in Campaigns /\ n \in 0 .. 2 /\ t \in Seconds /\ pc[w] = "count"
  BY DEF Incr, Shape, JobShape, JobTypeOK
<1>2. /\ n = 0 => key = "global" /\ Rollback(w) = {}
      /\ n = 1 => key = c /\ Rollback(w) = {"global"}
      /\ n = 2 => key = "provider" /\ Rollback(w) = {"global", c}
  BY <1>1, KeysSoFar DEF CurrentKey, CpsKeys, Rollback
<1>3. key \in Keys /\ key \notin Rollback(w)
  BY <1>1, <1>2, GateConstants DEF Keys
<1>4. cps' = [cps EXCEPT ![key][t] = @ + 1]
  BY DEF Incr
<1>5. cps' \in [Keys -> [Seconds -> Int]]
  BY <1>1, <1>3, <1>4 DEF CounterInv
<1>6. \A k \in Keys, s \in Seconds :
        cps'[k][s] = IF k = key /\ s = t THEN cps[k][s] + 1 ELSE cps[k][s]
  BY <1>1, <1>3, <1>4 DEF CounterInv
<1> HIDE DEF c, n, t, key
<1>7. CASE /\ cps'[key][t] <= Limit(key) /\ n = 2 /\ Admitted(w)
  <2>1. \A k \in Keys, s \in Seconds :
          admits'[k][s] = IF k \in {"global", "provider", c} /\ s = t
                          THEN admits[k][s] + 1 ELSE admits[k][s]
    BY <1>1, <1>7 DEF Admitted, CounterInv, c, t
  <2>2. admits' \in [Keys -> [Seconds -> Nat]]
    BY <1>1, <1>7 DEF Admitted, CounterInv, c, t
  <2>3. /\ \A v \in Workers \ {w} : job'[v] = job[v] /\ pc'[v] = pc[v]
        /\ job'[w].step = 0
    BY <1>7, UncountedJob DEF Admitted, Shape, JobTypeOK
  <2>4. \A k, s : ~Counted(w, k, s)'
    BY <2>3, KeysSoFar DEF Counted, Rollback
  <2>5. \A k, s : Counted(w, k, s) <=> k \in {"global", c} /\ s = t
    BY <1>2, <1>7 DEF Counted, t
  <2>6. Balanced(w)
    <3> SUFFICES ASSUME NEW k \in Keys, NEW s \in Seconds
                 PROVE  /\ admits'[k][s] + One(Counted(w, k, s))' - cps'[k][s]
                             <= admits[k][s] + One(Counted(w, k, s)) - cps[k][s]
                        /\ \/ cps'[k][s] <= Limit(k)
                           \/ admits'[k][s] + One(pc[w] = "count" /\ Counted(w, k, s))'
                                <= admits[k][s] + One(pc[w] = "count" /\ Counted(w, k, s))
      BY DEF Balanced
    <3>1. One(Counted(w, k, s))' = 0 /\ One(pc[w] = "count" /\ Counted(w, k, s))' = 0
      BY <2>4 DEF One
    <3>2. /\ One(Counted(w, k, s)) = IF k \in {"global", c} /\ s = t THEN 1 ELSE 0
          /\ One(pc[w] = "count" /\ Counted(w, k, s)) = IF k \in {"global", c} /\ s = t THEN 1 ELSE 0
      BY <1>1, <2>5 DEF One
    <3>3. admits[k][s] \in Int /\ cps[k][s] \in Int
      BY DEF CounterInv
    <3>4. key = "provider" /\ c # "provider"
      BY <1>1, <1>2, <1>7, GateConstants
    <3> QED BY <1>6, <1>7, <2>1, <3>1, <3>2, <3>3, <3>4
  <2> QED BY <1>5, <2>2, <2>3, <2>6, WorkerBalance
<1>8. CASE /\ cps'[key][t] <= Limit(key) \/ pc'[w] = "refused"
           /\ job' = [job EXCEPT ![w].step = n + 1]
           /\ \A v \in Workers \ {w} : pc'[v] = pc[v]
           /\ UNCHANGED admits
  <2>1. /\ \A v \in Workers \ {w} : job'[v] = job[v]
        /\ job'[w].campaign = c /\ job'[w].second = t /\ job'[w].step = n + 1
    BY <1>8 DEF Shape, JobTypeOK, c, t
  <2>2. Rollback(w)' = Rollback(w) \cup {key}
    <3>1. Rollback(w)' = {CpsKeys(c)[i] : i \in 1 .. (n + 1)}
      BY <2>1 DEF Rollback
    <3>2. n = 0 \/ n = 1 \/ n = 2
      BY <1>1
    <3> QED BY <1>2, <3>1, <3>2, KeysSoFar
  <2>3. \A k, s : Counted(w, k, s)' <=> Counted(w, k, s) \/ (k = key /\ s = t)
    BY <2>1, <2>2 DEF Counted, t
  <2>4. Balanced(w)
    <3> SUFFICES ASSUME NEW k \in Keys, NEW s \in Seconds
                 PROVE  /\ admits'[k][s] + One(Counted(w, k, s))' - cps'[k][s]
                             <= admits[k][s] + One(Counted(w, k, s)) - cps[k][s]
                        /\ \/ cps'[k][s] <= Limit(k)
                           \/ admits'[k][s] + One(pc[w] = "count" /\ Counted(w, k, s))'
                                <= admits[k][s] + One(pc[w] = "count" /\ Counted(w, k, s))
      BY DEF Balanced
    <3>1. admits[k][s] \in Int /\ cps[k][s] \in Int /\ admits'[k][s] = admits[k][s]
      BY <1>8 DEF CounterInv
    <3>2. CASE k = key /\ s = t
      <4>1. One(Counted(w, k, s)) = 0 /\ One(Counted(w, k, s))' = 1
        BY <1>3, <2>3, <3>2 DEF One, Counted
      <4>2. One(pc[w] = "count" /\ Counted(w, k, s)) = 0
        BY <1>3, <3>2 DEF One, Counted
      <4>3. pc'[w] = "refused" => One(pc[w] = "count" /\ Counted(w, k, s))' = 0
        BY DEF One
      <4> QED BY <1>6, <1>8, <3>1, <3>2, <4>1, <4>2, <4>3
    <3>3. CASE ~(k = key /\ s = t)
      <4>1. One(Counted(w, k, s)) = One(Counted(w, k, s))'
        BY <2>3, <3>3 DEF One
      <4>2. One(pc[w] = "count" /\ Counted(w, k, s))' <= One(pc[w] = "count" /\ Counted(w, k, s))
        BY <1>1, <2>3, <3>3 DEF One
      <4>3. /\ One(pc[w] = "count" /\ Counted(w, k, s))' \in Nat
            /\ One(pc[w] = "count" /\ Counted(w, k, s)) \in Nat /\ One(Counted(w, k, s)) \in Nat
        BY DEF One
      <4> QED BY <1>6, <3>1, <3>3, <4>1, <4>2, <4>3
    <3> QED BY <3>2, <3>3
  <2> QED BY <1>5, <1>8, <2>1, <2>4, WorkerBalance DEF CounterInv
<1> QED
  <2>1. \/ ~OverLimit(key, cps'[key][t]) /\ n = 2 /\ Admitted(w)
        \/ /\ job' = [job EXCEPT ![w].step = n + 1]
           /\ pc' = [pc EXCEPT ![w] = IF OverLimit(key, cps'[key][t]) THEN "refused" ELSE @]
           /\ UNCHANGED admits
    BY DEF Incr, key, n, t
  <2>2. cps'[key][t] \in Int /\ Limit(key) \in Nat
    BY <1>1, <1>3, <1>5, LimitIsNat
  <2>3. \/ OverLimit(key, cps'[key][t])
        \/ ~OverLimit(key, cps'[key][t]) /\ cps'[key][t] <= Limit(key)
    BY <2>2 DEF OverLimit
  <2>4. CASE ~OverLimit(key, cps'[key][t]) /\ n = 2 /\ Admitted(w)
    BY <2>3, <2>4, <1>7
  <2>5. CASE /\ job' = [job EXCEPT ![w].step = n + 1]
             /\ pc' = [pc EXCEPT ![w] = IF OverLimit(key, cps'[key][t]) THEN "refused" ELSE @]
             /\ UNCHANGED admits
    <3>1. \A v \in Workers \ {w} : pc'[v] = pc[v]
      BY <2>5 DEF Shape, JobTypeOK
    <3>2. OverLimit(key, cps'[key][t]) => pc'[w] = "refused"
      BY <2>5 DEF Shape, JobTypeOK
    <3> QED BY <2>3, <2>5, <3>1, <3>2, <1>8
  <2> QED BY <2>1, <2>4, <2>5

\* Every action of a worker that touches no counter.
CounterFree(w) ==
  \/ TakeJob(w) \/ GateControls(w) \/ GateBudget(w) \/ CacheBudget(w) \/ Admit(w)
  \/ RedisError(w) \/ Claim(w) \/ Accepted(w) \/ Failed(w) \/ ConfigError(w)

\* Who moves when a job is left.
LEMMA GiveUpShare ==
  ASSUME Shape, NEW w \in Workers, GiveUp(w)
  PROVE  /\ \A v \in Workers \ {w} : job'[v] = job[v] /\ pc'[v] = pc[v]
         /\ job'[w].step = 0 /\ pc'[w] = "idle"
  BY DEF GiveUp, NoJob, Shape, JobTypeOK

\* Who moves when an admission is refused.
LEMMA NotAdmittedShare ==
  ASSUME Shape, NEW w \in Workers, NotAdmitted(w)
  PROVE  /\ \A v \in Workers \ {w} : job'[v] = job[v] /\ pc'[v] = pc[v]
         /\ job'[w].step = 0 /\ pc'[w] \in {"idle", "admit"}
<1>1. CASE GiveUp(w)
  BY <1>1, GiveUpShare
<1>2. CASE ~GiveUp(w)
  BY <1>2, UncountedJob DEF NotAdmitted, Shape, JobTypeOK
<1> QED BY <1>1, <1>2

\* Who moves when the budget is decided on.
LEMMA DecideShare ==
  ASSUME Shape, NEW w \in Workers, NEW n, Decide(w, n)
  PROVE  /\ \A v \in Workers \ {w} : job'[v] = job[v] /\ pc'[v] = pc[v]
         /\ job'[w].step = 0 \/ job'[w] = job[w]
         /\ pc'[w] \in {"idle", "admit", "claim"}
<1>1. CASE GiveUp(w)
  BY <1>1, GiveUpShare
<1>2. CASE PassGate(w)
  BY <1>2 DEF PassGate, Shape, JobTypeOK
<1> QED BY <1>1, <1>2 DEF Decide

\* From where an action of a worker goes on.
Moves(w) ==
  /\ \A v \in Workers \ {w} : job'[v] = job[v] /\ pc'[v] = pc[v]
  /\ job'[w].step = 0 \/ (job'[w] = job[w] /\ (pc'[w] = "count" => pc[w] = "count"))
  /\ pc[w] \in {"idle", "gate", "request"} =>
       \/ pc'[w] \in {"idle", "gate", "request"}
       \/ pc[w] = "gate" /\ pc'[w] = "budget"
  /\ pc'[w] = "budget" => GateControls(w) /\ ~Blocked(w)

\* How the actions that touch no counter move their worker.
LEMMA CounterFreeMoves ==
  ASSUME Shape, NEW w \in Workers, CounterFree(w)
  PROVE  Moves(w)
<1>1. CASE TakeJob(w)
  <2>1. job[w].step = 0
    BY <1>1 DEF TakeJob, Shape, JobShape
  <2> QED BY <1>1, <2>1 DEF TakeJob, Shape, JobTypeOK, Moves
<1>2. CASE GateControls(w)
  <2>1. pc[w] = "gate" /\ job[w].step = 0
    BY <1>2 DEF GateControls, Shape, JobShape
  <2>2. CASE GiveUp(w)
    BY <1>2, <2>2, GiveUpShare DEF Moves
  <2>3. CASE ~GiveUp(w)
    BY <1>2, <2>1, <2>3 DEF GateControls, Shape, JobTypeOK, Moves
  <2> QED BY <2>2, <2>3
<1>3. CASE GateBudget(w)
  <2>1. pc[w] = "budget" /\ job[w].step = 0
    BY <1>3 DEF GateBudget, Shape, JobShape
  <2>2. CASE GiveUp(w)
    BY <2>1, <2>2, GiveUpShare DEF Moves
  <2>3. CASE Decide(w, bud[w].dials)
    BY <2>1, <2>3, DecideShare DEF Moves
  <2>4. CASE pc' = [pc EXCEPT ![w] = "counted"] /\ UNCHANGED <<job, slots>>
    BY <2>1, <2>4 DEF Shape, JobTypeOK, Moves
  <2> QED BY <1>3, <2>2, <2>3, <2>4 DEF GateBudget
<1>4. CASE CacheBudget(w)
  <2>1. pc[w] = "counted" /\ Decide(w, bud[w].dials)
    BY <1>4 DEF CacheBudget
  <2> QED BY <2>1, DecideShare DEF Moves
<1>5. CASE Admit(w)
  <2>1. pc[w] = "admit" /\ job[w].step = 0
    BY <1>5 DEF Admit, Shape, JobShape
  <2>2. CASE NotAdmitted(w)
    BY <2>1, <2>2, NotAdmittedShare DEF Moves
  <2>3. CASE ~NotAdmitted(w)
    BY <1>5, <2>1, <2>3 DEF Admit, Shape, JobTypeOK, Moves
  <2> QED BY <2>2, <2>3
<1>6. CASE RedisError(w) \/ Accepted(w) \/ Failed(w) \/ ConfigError(w)
  <2>1. GiveUp(w)
    BY <1>6 DEF RedisError, Accepted, Failed, ConfigError
  <2> QED BY <2>1, GiveUpShare DEF Moves
<1>7. CASE Claim(w)
  BY <1>7 DEF Claim, Shape, JobTypeOK, Moves
<1> QED BY <1>1, <1>2, <1>3, <1>4, <1>5, <1>6, <1>7 DEF CounterFree

\* Every step preserves the counters' invariant.
LEMMA CounterStep ==
  ASSUME Shape, CounterInv, [GateNext]_vars
  PROVE  CounterInv'
<1>1. ASSUME NEW w \in Workers, CounterFree(w)
      PROVE  CounterInv'
  <2>1. UNCHANGED <<cps, admits>>
    BY <1>1 DEF CounterFree, TakeJob, GateControls, GateBudget, CacheBudget, Admit, RedisError,
                Claim, Accepted, Failed, ConfigError, histVars
  <2> QED BY <1>1, <2>1, CounterFreeMoves, ShareKept DEF Moves
<1>2. CASE Switch \/ Outage \/ Tick \/ UNCHANGED vars
  <2>1. UNCHANGED <<cps, admits, job, pc>>
    BY <1>2 DEF Switch, Outage, Tick, vars, histVars
  <2>2. PICK w : w \in Workers
    BY GateAssumption
  <2> QED BY <2>1, <2>2, ShareKept
<1> QED BY <1>1, <1>2, IncrBalance, RefuseBalance DEF GateNext, CounterFree

\* Every step preserves the shape.
LEMMA ShapeStep ==
  ASSUME Shape, [GateNext]_vars
  PROVE  Shape'
<1>1. CASE UNCHANGED vars
  BY <1>1 DEF vars, Shape, ControlTypeOK, JobTypeOK, JobShape
<1> QED BY <1>1, TakeJobShape, GateControlsShape, GateBudgetShape, CacheBudgetShape, AdmitShape,
           IncrShape, RefuseShape, EndShape, ClaimShape, EnvironmentShape DEF GateNext

-----------------------------------------------------------------------------
(* The stop. *)

\* No process holds an unexpired "go" read before a stop began for longer than
\* the stop has been in force; a late claim was made in this stop, by a worker
\* that has not passed the gate since.
StopInv ==
  /\ ~Stopped => stopFor = 0 /\ \A w \in Workers : late[w] = 0
  /\ Stopped => \A w \in Workers : Fresh(ctl[w]) /\ ~(ctl[w].kill \/ ctl[w].halt)
                                     => ctl[w].left + stopFor <= ControlTTL
  /\ \A w \in Workers :
       \/ late[w] = 0
       \/ /\ late[w] = 1 /\ Stopped /\ stopFor = ControlTTL
          /\ pc[w] \in {"idle", "gate", "request"}

\* A stop of the cache's lifetime blocks every process.
LEMMA OldStopBlocks ==
  ASSUME Shape, StopInv, NEW w \in Workers, Stopped, stopFor = ControlTTL
  PROVE  Blocked(w)
<1>1. ctl[w].left \in Nat /\ ControlTTL \in Nat
  BY GateConstants DEF Shape, ControlTypeOK
<1>2. Fresh(ctl[w]) => ctl[w].kill \/ ctl[w].halt
  BY <1>1 DEF StopInv, Fresh
<1> QED BY <1>2 DEF Blocked

\* A step that changes neither the controls nor what is known of them.
LEMMA StopKept ==
  ASSUME Shape, StopInv, UNCHANGED <<kill, halt, stopFor, late, ctl>>,
         \A v \in Workers : late[v] = 1 => pc'[v] \in {"idle", "gate", "request"}
  PROVE  StopInv'
  BY DEF StopInv, Stopped

\* Every step preserves the invariant of the stop.
LEMMA StopStep ==
  ASSUME Shape, StopInv, [GateNext]_vars
  PROVE  StopInv'
<1>1. ASSUME NEW w \in Workers, Moves(w)
      PROVE  \A v \in Workers : late[v] = 1 => pc'[v] \in {"idle", "gate", "request"}
  <2> SUFFICES ASSUME NEW v \in Workers, late[v] = 1
               PROVE  pc'[v] \in {"idle", "gate", "request"}
    OBVIOUS
  <2>1. pc[v] \in {"idle", "gate", "request"} /\ Stopped /\ stopFor = ControlTTL
    BY DEF StopInv
  <2>2. Blocked(v)
    BY <2>1, OldStopBlocks
  <2>3. CASE v # w
    BY <1>1, <2>1, <2>3 DEF Moves
  <2>4. CASE v = w
    BY <1>1, <2>1, <2>2, <2>4 DEF Moves
  <2> QED BY <2>3, <2>4
<1>2. ASSUME NEW w \in Workers,
             \/ TakeJob(w) \/ GateBudget(w) \/ CacheBudget(w) \/ Admit(w)
             \/ RedisError(w) \/ Accepted(w) \/ Failed(w)
      PROVE  StopInv'
  <2>1. UNCHANGED <<kill, halt, stopFor, late, ctl>>
    BY <1>2 DEF TakeJob, GateBudget, CacheBudget, Admit, RedisError, Accepted, Failed,
                ctlVars, histVars
  <2>2. Moves(w)
    BY <1>2, CounterFreeMoves DEF CounterFree
  <2> QED BY <1>1, <2>1, <2>2, StopKept
<1>3. ASSUME NEW w \in Workers, Incr(w) \/ Refuse(w)
      PROVE  StopInv'
  <2>1. UNCHANGED <<kill, halt, stopFor, late, ctl>>
    BY <1>3 DEF Incr, Refuse, ctlVars, histVars
  <2>2. pc[w] \in {"count", "refused"}
    BY <1>3 DEF Incr, Refuse
  <2>3. \A v \in Workers \ {w} : pc'[v] = pc[v]
    <3>1. CASE Incr(w)
      BY <3>1 DEF Incr, Admitted, Shape, JobTypeOK
    <3>2. CASE Refuse(w)
      BY <3>2, NotAdmittedShare DEF Refuse
    <3> QED BY <1>3, <3>1, <3>2
  <2>4. \A v \in Workers : late[v] = 1 => pc'[v] \in {"idle", "gate", "request"}
    BY <2>2, <2>3 DEF StopInv
  <2> QED BY <2>1, <2>4, StopKept
<1>4. ASSUME NEW w \in Workers, GateControls(w)
      PROVE  StopInv'
  <2>1. Moves(w)
    BY <1>4, CounterFreeMoves DEF CounterFree
  <2>2. UNCHANGED <<kill, halt, stopFor, late>>
    BY <1>4 DEF GateControls, ctlVars, histVars
  <2>3. \A v \in Workers : \/ ctl'[v] = ctl[v]
                           \/ ctl'[v] = [left |-> ControlTTL, kill |-> kill, halt |-> halt]
    BY <1>4 DEF GateControls, CacheControls, Shape, ControlTypeOK
  <2>4. Stopped => \A v \in Workers : Fresh(ctl'[v]) /\ ~(ctl'[v].kill \/ ctl'[v].halt)
                                        => ctl'[v].left + stopFor <= ControlTTL
    BY <2>3 DEF StopInv, Stopped
  <2> QED BY <1>1, <2>1, <2>2, <2>4 DEF StopInv, Stopped
<1>5. ASSUME NEW w \in Workers, ConfigError(w)
      PROVE  StopInv'
  <2>1. Moves(w)
    BY <1>5, CounterFreeMoves DEF CounterFree
  <2>2. UNCHANGED <<stopFor, late>> /\ (Stopped => Stopped')
    BY <1>5 DEF ConfigError, histVars, Stopped
  <2>3. \A v \in Workers : ctl'[v] = ctl[v] \/ ctl'[v] = NoControls
    BY <1>5 DEF ConfigError, Shape, ControlTypeOK
  <2>4. ~Fresh(NoControls)
    BY DEF Fresh, NoControls
  <2>5. \A v \in Workers : ctl[v].left \in 0 .. ControlTTL
    BY DEF Shape, ControlTypeOK
  <2>6. Stopped' => \A v \in Workers : Fresh(ctl'[v]) /\ ~(ctl'[v].kill \/ ctl'[v].halt)
                                        => ctl'[v].left + stopFor <= ControlTTL
    BY <2>3, <2>4, <2>5, GateConstants DEF StopInv
  <2> QED BY <1>1, <2>1, <2>2, <2>6 DEF StopInv
<1>6. ASSUME NEW w \in Workers, Claim(w)
      PROVE  StopInv'
  <2>1. UNCHANGED <<kill, halt, stopFor, ctl>> /\ pc[w] = "claim" /\ pc' = [pc EXCEPT ![w] = "request"]
    BY <1>6 DEF Claim, ctlVars
  <2>2. late[w] = 0
    BY <2>1 DEF StopInv
  <2>3. late' = [late EXCEPT ![w] = IF Stopped /\ stopFor = ControlTTL THEN 1 ELSE 0]
    BY <1>6, <2>2 DEF Claim
  <2>4. \A v \in Workers : IF v = w THEN /\ late'[v] = IF Stopped /\ stopFor = ControlTTL THEN 1 ELSE 0
                                         /\ pc'[v] = "request"
                           ELSE late'[v] = late[v] /\ pc'[v] = pc[v]
    BY <2>1, <2>3 DEF Shape, JobTypeOK, ControlTypeOK
  <2> QED BY <2>1, <2>4 DEF StopInv, Stopped
<1>7. CASE Switch
  <2>1. UNCHANGED <<ctl, pc>> /\ IF Stopped' THEN UNCHANGED <<stopFor, late>>
                                 ELSE stopFor' = 0 /\ late' = [w \in Workers |-> 0]
    BY <1>7 DEF Switch, Stopped
  <2>2. \A v \in Workers : ctl[v].left \in 0 .. ControlTTL
    BY DEF Shape, ControlTypeOK
  <2>3. CASE ~Stopped'
    BY <2>1, <2>3 DEF StopInv
  <2>4. CASE Stopped' /\ Stopped
    BY <2>1, <2>4 DEF StopInv
  <2>5. CASE Stopped' /\ ~Stopped
    BY <2>1, <2>2, <2>5, GateConstants DEF StopInv
  <2> QED BY <2>3, <2>4, <2>5
<1>8. CASE Tick
  <2>1. UNCHANGED <<kill, halt, late, pc>>
    BY <1>8 DEF Tick, histVars
  <2>2. stopFor' = IF Stopped /\ stopFor < ControlTTL THEN stopFor + 1 ELSE stopFor
    BY <1>8 DEF Tick
  <2>3. stopFor \in 0 .. ControlTTL /\ ControlTTL \in Nat
    BY GateConstants DEF Shape, ControlTypeOK
  <2>4. ASSUME NEW v \in Workers, Stopped, Fresh(ctl'[v]), ~(ctl'[v].kill \/ ctl'[v].halt)
        PROVE  ctl'[v].left + stopFor' <= ControlTTL
    <3>1. ctl[v] \in [left : 0 .. ControlTTL, kill : BOOLEAN, halt : BOOLEAN]
      BY DEF Shape, ControlTypeOK
    <3>2. ctl'[v] = IF ctl[v].left > 1 THEN [ctl[v] EXCEPT !.left = @ - 1] ELSE NoControls
      BY <1>8 DEF Tick
    <3>3. ctl[v].left > 1 /\ ctl'[v].left = ctl[v].left - 1 /\ ~(ctl[v].kill \/ ctl[v].halt)
      BY <2>4, <3>1, <3>2 DEF Fresh, NoControls
    <3>4. ctl[v].left + stopFor <= ControlTTL
      BY <2>4, <3>1, <3>3 DEF StopInv, Fresh
    <3> QED BY <2>2, <2>3, <2>4, <3>1, <3>3, <3>4
  <2> QED BY <2>1, <2>2, <2>3, <2>4 DEF StopInv, Stopped
<1>9. CASE Outage \/ UNCHANGED vars
  BY <1>9, StopKept DEF Outage, vars, ctlVars, histVars, StopInv
<1> QED BY <1>2, <1>3, <1>4, <1>5, <1>6, <1>7, <1>8, <1>9 DEF GateNext

-----------------------------------------------------------------------------
(* The theorems. *)

GateInv == Shape /\ CounterInv /\ StopInv

\* The invariant holds initially.
LEMMA GateInitially == GateInit => GateInv
<1> SUFFICES ASSUME GateInit PROVE GateInv
  OBVIOUS
<1>1. ControlTypeOK
  <2>1. /\ NoControls \in [left : 0 .. ControlTTL, kill : BOOLEAN, halt : BOOLEAN]
        /\ NoCount \in [left : 0 .. BudgetTTL, dials : Nat]
    BY GateConstants DEF NoControls, NoCount
  <2>2. kill \in BOOLEAN /\ halt \in BOOLEAN /\ readable \in BOOLEAN
    BY DEF GateInit
  <2>3. /\ now \in 0 .. MaxTime /\ stopFor \in 0 .. ControlTTL
        /\ openFor \in 0 .. OpenTicks /\ errors \in 0 .. ErrorThreshold
    BY GateConstants DEF GateInit
  <2> QED BY <2>1, <2>2, <2>3 DEF GateInit, ControlTypeOK
<1>2. JobTypeOK /\ JobShape
  BY <1>1, SecondInRange DEF GateInit, JobTypeOK, JobShape, NoJob
<1>3. CounterInv
  <2>1. \A k, s : Pending(k, s) = {} /\ Passed(k, s) = {}
    BY KeysSoFar DEF GateInit, Pending, Passed, Counted, Rollback, NoJob
  <2>2. \A k \in Keys, s \in Seconds : cps[k][s] = 0 /\ admits[k][s] = 0
    BY DEF GateInit
  <2>3. cps \in [Keys -> [Seconds -> Int]] /\ admits \in [Keys -> [Seconds -> Nat]]
    BY DEF GateInit
  <2>4. Cardinality({}) = 0
    BY FS_EmptySet
  <2>5. ASSUME NEW k \in Keys, NEW s \in Seconds
        PROVE  /\ admits[k][s] + Cardinality(Pending(k, s)) <= cps[k][s]
               /\ admits[k][s] + Cardinality(Passed(k, s)) <= Limit(k)
    <3>1. Cardinality(Pending(k, s)) = 0 /\ Cardinality(Passed(k, s)) = 0
      BY <2>1, <2>4
    <3> QED BY <2>2, <3>1, LimitIsNat
  <2> QED BY <2>3, <2>5 DEF CounterInv
<1>4. StopInv
  BY DEF GateInit, StopInv, Stopped
<1> QED BY <1>1, <1>2, <1>3, <1>4 DEF GateInv, Shape

\* The inductive invariant holds in every reachable state.
THEOREM GateInvariant == GateSpec => []GateInv
<1>1. GateInv /\ [GateNext]_vars => GateInv'
  BY ShapeStep, CounterStep, StopStep DEF GateInv
<1> QED BY <1>1, GateInitially, PTL DEF GateSpec

\* The type invariant; in particular the rollback of a refused admission
\* never takes a Redis counter below zero (admission_controller.py, _admit).
THEOREM GateTypes == GateSpec => []GateTypeOK
<1>1. GateInv => GateTypeOK
  <2> SUFFICES ASSUME GateInv PROVE cps \in [Keys -> [Seconds -> Nat]]
    BY DEF GateInv, Shape, GateTypeOK, CounterTypeOK, CounterInv
  <2>1. \A k \in Keys, s \in Seconds : cps[k][s] \in Nat
    <3> TAKE k \in Keys, s \in Seconds
    <3>1. /\ admits[k][s] + Cardinality(Pending(k, s)) <= cps[k][s]
          /\ admits[k][s] \in Nat /\ cps[k][s] \in Int
      BY DEF GateInv, CounterInv
    <3> QED BY <3>1, OpenRequests
  <2> QED BY <2>1 DEF GateInv, CounterInv
<1> QED BY <1>1, GateInvariant, PTL

\* A refusal takes back what it added and nothing of anybody else's, however
\* admissions, refusals and Redis errors overlap.
THEOREM AdmissionsCovered == GateSpec => []CountersCoverAdmissions
<1>1. GateInv => CountersCoverAdmissions
  <2> SUFFICES ASSUME GateInv, NEW k \in Keys, NEW s \in Seconds
               PROVE  cps[k][s] >= admits[k][s]
    BY DEF CountersCoverAdmissions
  <2>1. /\ admits[k][s] + Cardinality(Pending(k, s)) <= cps[k][s]
        /\ admits[k][s] \in Nat /\ cps[k][s] \in Int
    BY DEF GateInv, CounterInv
  <2> QED BY <2>1, OpenRequests
<1> QED BY <1>1, GateInvariant, PTL

\* No scope admits more calls in a second than its limit, for any number of
\* workers that race through the counters.
THEOREM CallsPerSecond == GateSpec => []CpsWithinLimit
<1>1. GateInv => CpsWithinLimit
  <2> SUFFICES ASSUME GateInv, NEW k \in Keys, NEW s \in Seconds
               PROVE  admits[k][s] <= Limit(k)
    BY DEF CpsWithinLimit
  <2>1. admits[k][s] + Cardinality(Passed(k, s)) <= Limit(k) /\ admits[k][s] \in Nat
    BY DEF GateInv, CounterInv
  <2> QED BY <2>1, OpenRequests, LimitIsNat
<1> QED BY <1>1, GateInvariant, PTL

\* Once a stop has been in force for the cache's lifetime, a worker starts at
\* most the one call it had already checked.
THEOREM LateDials == GateSpec => []OneLateDial
<1>1. GateInv => OneLateDial
  BY DEF GateInv, StopInv, OneLateDial
<1> QED BY <1>1, GateInvariant, PTL

\* No worker passes the gate in a stop that has been in force for the cache's
\* lifetime, whether or not the database answers.
THEOREM StopSeen == GateSpec => StopIsSeen
<1>1. GateInv /\ [GateNext]_vars =>
        [\A w \in Workers : Passes(w) => ~(Stopped /\ stopFor = ControlTTL)]_vars
  <2> SUFFICES ASSUME GateInv, GateNext, NEW w \in Workers, Passes(w), Stopped, stopFor = ControlTTL
               PROVE  FALSE
    OBVIOUS
  <2>1. Blocked(w) /\ pc[w] = "gate" /\ pc'[w] = "budget"
    BY OldStopBlocks DEF GateInv, Passes
  <2>2. ASSUME NEW v \in Workers, CounterFree(v)
        PROVE  FALSE
    <3>1. Moves(v)
      BY <2>2, CounterFreeMoves DEF GateInv
    <3> QED BY <2>1, <3>1 DEF Moves
  <2>3. ASSUME NEW v \in Workers, Incr(v) \/ Refuse(v)
        PROVE  FALSE
    <3>1. pc[v] \in {"count", "refused"}
      BY <2>3 DEF Incr, Refuse
    <3>2. pc'[w] = pc[w]
      <4>1. CASE Incr(v)
        BY <2>1, <3>1, <4>1 DEF Incr, Admitted, GateInv, Shape, JobTypeOK
      <4>2. CASE Refuse(v)
        BY <2>1, <3>1, <4>2, NotAdmittedShare DEF Refuse, GateInv
      <4> QED BY <2>3, <4>1, <4>2
    <3> QED BY <2>1, <3>2
  <2>4. CASE Switch \/ Outage \/ Tick
    BY <2>1, <2>4 DEF Switch, Outage, Tick
  <2> QED BY <2>2, <2>3, <2>4 DEF GateNext, CounterFree
<1> QED BY <1>1, GateInvariant, PTL DEF GateSpec, StopIsSeen
=============================================================================
