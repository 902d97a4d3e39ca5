---------------------------- MODULE ContractProofs ----------------------------
(***************************************************************************)
(* The dial protocol implements DialContract, for any number of workers,   *)
(* any retry policy and any limits, whatever is delivered twice, crashes,  *)
(* times out or stays ambiguous.  Four events are left out: a refused      *)
(* configuration (the code then asks twice), a Redis that forgets leases,  *)
(* a request that lands after the shortest back-off, and a webhook that    *)
(* fails after it scheduled a retry.                                       *)
(*                                                                         *)
(* A phone may ring only while no other call to the person is live.  No    *)
(* guard of the code says so: the worker that opens attempt n looks at the *)
(* row of n - 1, not at the line.  The argument follows what is known of   *)
(* n - 1 while its retry is promised, scheduled, delivered and claimed:    *)
(*   - whoever works on an attempt holds its lease (Owns), so a worker     *)
(*     that leaves an attempt leaves nobody at work on it;                 *)
(*   - a retry is promised when the attempt is Decided: it has ended, or   *)
(*     has the run whose webhook will end it (Dues);                       *)
(*   - it leaves the schedule when requests of n - 1 have landed (Readies);*)
(*   - the row of n is opened when n - 1 is Closed: it has ended, nobody   *)
(*     works on it, nothing of it is in the air or about to be processed,  *)
(*     and where its answer was lost it has no run (Closing, Followed).    *)
(* Closed stays true, so all attempts before the last are out of the air.  *)
(*                                                                         *)
(* The last part shows that a contact shown as being dialed has an attempt *)
(* in flight, from the same invariant and from what the sessions that      *)
(* write the contact have read of it (DInv).                               *)
(***************************************************************************)
EXTENDS DialProofs

-----------------------------------------------------------------------------
(* Leases *)

\* Whoever works on an attempt holds its lease.
Holding == BeforeClaim \cup AfterClaim \cup {"load"}
Owns == \A w \in Workers : pc[w] \in Holding => lease[job[w].n] = w

\* A worker goes on with the job and the leases as they are.
LEMMA OwnsGo ==
  ASSUME TypeOK, Owns, NEW w \in Workers, NEW label, Goto(w, label), UNCHANGED <<job, lease>>,
         label \in Holding => pc[w] \in Holding
  PROVE  Owns'
<1>1. \A v \in Workers : pc'[v] = IF v = w THEN label ELSE pc[v]
  BY DEF Goto, TypeOK, WorkerTypeOK
<1> QED BY <1>1 DEF Owns, Holding, BeforeClaim, AfterClaim

\* A worker that leaves frees its own lease and no other.
LEMMA OwnsFree ==
  ASSUME TypeOK, Owns, NEW w \in Workers, NEW label, label \notin Holding,
         pc' = [pc EXCEPT ![w] = label], \A v \in Workers : v # w => job'[v].n = job[v].n,
         \A n \in Attempts : lease[n] # w => lease'[n] = lease[n]
  PROVE  Owns'
<1>1. \A v \in Workers : pc'[v] = IF v = w THEN label ELSE pc[v]
  BY DEF TypeOK, WorkerTypeOK
<1>2. ASSUME NEW v \in Workers, pc'[v] \in Holding PROVE lease'[job'[v].n] = v
  <2>1. v # w /\ pc[v] \in Holding /\ job'[v].n = job[v].n /\ job[v].n \in Attempts
    BY <1>1, <1>2 DEF TypeOK, WorkerTypeOK
  <2> QED BY <2>1 DEF Owns
<1> QED BY <1>2 DEF Owns, Holding, BeforeClaim, AfterClaim

\* The same for one that gives its job back.
LEMMA OwnsLeave ==
  ASSUME TypeOK, Owns, NEW w \in Workers, ToIdle(w), lease' = Released(w),
         \A v \in Workers : v # w => job'[v].n = job[v].n
  PROVE  Owns'
<1>1. pc' = [pc EXCEPT ![w] = "idle"] /\ "idle" \notin Holding
  BY DEF ToIdle, Holding, BeforeClaim, AfterClaim
<1>2. \A n \in Attempts : lease[n] # w => lease'[n] = lease[n]
  BY DEF Released
<1> QED BY <1>1, <1>2, OwnsFree

\* The lease is taken before the row is loaded and freed after the last write;
\* nothing else frees it while Redis keeps what it was told.
LEMMA OwnsStep ==
  ASSUME "redisLoss" \notin Env, TypeOK, Owns, [Next]_vars PROVE Owns'
<1>a. /\ pc \in [Workers -> PCs] /\ lease \in [Attempts -> Workers \cup {"free", "dead"}]
      /\ job \in [Workers -> [slot : Slots \cup {0}, n : Attempts, retry : BOOLEAN]]
  BY DEF TypeOK, WorkerTypeOK, RedisTypeOK
<1>l. ASSUME NEW w \in Workers, NEW reset, Leave(w, reset) PROVE Owns'
  BY <1>a, <1>l, OwnsLeave DEF Leave
<1>g. ASSUME NEW w \in Workers, NEW label, Goto(w, label), UNCHANGED <<job, lease>>,
             label \notin Holding
      PROVE  Owns'
  BY <1>g, OwnsGo
<1>h. ASSUME NEW w \in Workers, NEW label, Goto(w, label), UNCHANGED <<job, lease>>,
             pc[w] \in Holding
      PROVE  Owns'
  BY <1>h, OwnsGo
<1>i. {"idle", "taken", "paused", "closed", "unguard", "ack"} \cap Holding = {}
  BY DEF Holding, BeforeClaim, AfterClaim
<1>1. ASSUME NEW w \in Workers, Read(w) \/ Reclaim(w) PROVE Owns'
  <2>1. pc' = [pc EXCEPT ![w] = "taken"] /\ lease' = lease
    BY <1>1 DEF Read, Reclaim, Goto
  <2>2. \A v \in Workers : v # w => job'[v] = job[v]
    BY <1>1, <1>a DEF Read, Reclaim
  <2> QED BY <1>i, <2>1, <2>2, OwnsFree
<1>2. ASSUME NEW w \in Workers, DeadLetter(w) PROVE Owns'
  <2>1. UNCHANGED <<pc, lease>> /\ pc[w] = "idle"
    BY <1>2 DEF DeadLetter
  <2>2. PICK s \in Slots : job' = Forget(w, s)
    BY <1>2 DEF DeadLetter
  <2>3. \A v \in Workers : v # w => job'[v].n = job[v].n
    BY <2>2, ForgetKeepsNumber
  <2> QED BY <1>i, <2>1, <2>3 DEF Owns, Holding, BeforeClaim, AfterClaim
<1>3. ASSUME NEW w \in Workers, Ack(w) PROVE Owns'
  <2>1. ToIdle(w) /\ job' = Forget(w, job[w].slot) /\ lease' = Released(w)
    BY <1>3 DEF Ack
  <2>2. \A u \in Workers : u # w => job'[u].n = job[u].n
    BY <2>1, ForgetKeepsNumber
  <2> QED BY <2>1, <2>2, OwnsLeave
<1>4. ASSUME NEW w \in Workers,
             Blocked(w) \/ NotAdmitted(w) \/ AnswerConfig(w) \/ Abandon(w)
      PROVE  Owns'
  BY <1>4, <1>l DEF Blocked, NotAdmitted, AnswerConfig, KeepJob, Abandon
<1>5. ASSUME NEW w \in Workers, Crash(w) PROVE Owns'
  <2>1. pc' = [pc EXCEPT ![w] = "idle"]
    BY <1>5 DEF Crash, ToIdle
  <2>2. /\ \A v \in Workers : v # w => job'[v].n = job[v].n
        /\ \A n \in Attempts : lease[n] # w => lease'[n] = lease[n]
    BY <1>5, <1>a DEF Crash
  <2> QED BY <1>i, <2>1, <2>2, OwnsFree
<1>6. ASSUME NEW w \in Workers, Admit(w) PROVE Owns'
  <2>1. /\ pc' = [pc EXCEPT ![w] = "load"] /\ lease' = [lease EXCEPT ![job[w].n] = w]
        /\ job' = job /\ lease[job[w].n] = "free"
    BY <1>6 DEF Admit, Goto
  <2>2. ASSUME NEW v \in Workers, pc'[v] \in Holding PROVE lease'[job'[v].n] = v
    <3>1. CASE v = w
      BY <1>a, <2>1, <3>1
    <3>2. CASE v # w
      <4>1. pc[v] \in Holding /\ job[v].n \in Attempts
        BY <1>a, <2>1, <2>2, <3>2
      <4>2. lease[job[v].n] = v /\ v # "free"
        BY <4>1, DialAssumption DEF Owns
      <4> QED BY <1>a, <2>1, <4>1, <4>2
    <3> QED BY <3>1, <3>2
  <2> QED BY <2>2 DEF Owns, Holding, BeforeClaim, AfterClaim
<1>7. ASSUME NEW w \in Workers, PutAside(w) \/ Unguard(w) PROVE Owns'
  BY <1>7, <1>g, <1>i DEF PutAside, Unguard, redisVars
<1>8. ASSUME NEW w \in Workers, SettlePaused(w) \/ SettleWindow(w) PROVE Owns'
  <2>1. \/ Leave(w, TRUE)
        \/ UNCHANGED <<job, lease>> /\ (Goto(w, "ack") \/ Goto(w, "unguard"))
    BY <1>8 DEF SettlePaused, SettleWindow
  <2> QED BY <1>g, <1>i, <1>l, <2>1
<1>9. ASSUME NEW w \in Workers, Load(w) PROVE Owns'
  <2>1. \/ Leave(w, TRUE)
        \/ \E label \in {"paused", "closed"} : Aside(w, label)
        \/ \E label, kind : GoOn(w, label, kind)
    BY <1>9 DEF Load, ResolveClaim, RetryGate
  <2>2. ASSUME NEW label \in {"paused", "closed"}, Aside(w, label) PROVE Owns'
    <3>1. pc' = [pc EXCEPT ![w] = label] /\ job' = job
          /\ \A n \in Attempts : lease[n] # w => lease'[n] = lease[n]
      BY <2>2 DEF Aside, Goto, Released
    <3> QED BY <1>i, <3>1, OwnsFree
  <2>3. pc[w] \in Holding
    BY <1>9 DEF Load, Holding
  <2>4. ASSUME NEW label, NEW kind, GoOn(w, label, kind) PROVE Owns'
    BY <1>h, <2>3, <2>4 DEF GoOn
  <2> QED BY <1>l, <2>1, <2>2, <2>4
<1>10. ASSUME NEW w \in Workers,
              \/ Lookup2(w) \/ Lookup2Down(w) \/ Gate2(w) \/ Claim(w) \/ Send(w)
              \/ AnswerOk(w) \/ EngageHalt(w) \/ AnswerFailed(w) \/ AnswerAmbiguous(w)
              \/ Lookup1(w) \/ Resolve1(w) \/ RecoverySwallowed(w)
       PROVE  Owns'
  <2>1. pc[w] \in Holding
    BY <1>10 DEF Lookup2, Lookup2Down, Gate2, Claim, Send, AnswerOk, EngageHalt, AnswerFailed,
         AnswerAmbiguous, Lookup1, Resolve1, RecoverySwallowed, Holding, BeforeClaim, AfterClaim
  <2>2. \/ Leave(w, TRUE)
        \/ UNCHANGED <<job, lease>> /\ \E label : Goto(w, label)
    BY <1>10 DEF Lookup2, Lookup2Down, Gate2, Claim, ClaimIfOpen, CommitClaim, Send, AnswerOk,
         EngageHalt, AnswerFailed, AnswerAmbiguous, Lookup1, Resolve1, RecoverySwallowed,
         RecordFailure, redisVars
  <2> QED BY <1>h, <1>l, <2>1, <2>2
<1>11. ASSUME NEW w \in Workers, CacheExpires(w) PROVE Owns'
  BY <1>11 DEF CacheExpires, redisVars, Owns, Holding, BeforeClaim, AfterClaim
<1>12. CASE LeaseExpires
  <2>1. PICK n \in Attempts : lease[n] = "dead" /\ lease' = [lease EXCEPT ![n] = "free"]
    BY <1>12 DEF LeaseExpires
  <2>2. UNCHANGED <<pc, job>>
    BY <1>12 DEF LeaseExpires, workerVars
  <2>3. \A w \in Workers : w # "dead"
    BY DialAssumption
  <2> QED BY <1>a, <2>1, <2>2, <2>3 DEF Owns, Holding, BeforeClaim, AfterClaim
<1>13. CASE Accept \/ Refuse \/ \E w \in Workers : TimeOut(w)
  <2>1. UNCHANGED <<job, lease>>
    BY <1>13 DEF Accept, Refuse, TimeOut, redisVars
  <2>2. \A v \in Workers : pc'[v] = pc[v] \/ pc[v] = "await"
    BY <1>a, <1>13 DEF Accept, Refuse, TimeOut, Answer, Waits
  <2> QED BY <2>1, <2>2 DEF Owns, Holding, BeforeClaim, AfterClaim
<1>14. CASE \/ RecoveryStep \/ DispatchAbort \/ HookStep \/ HookAbort \/ UNCHANGED vars
            \/ \E n \in Attempts, k \in RunIds : RunEnds(n, k)
  <2>1. UNCHANGED <<pc, job, lease>>
    BY <1>14 DEF RecoveryStep, DispatchClaim, DispatchRetry, DispatchDial, DispatchCommit,
         DispatchAbort, Rebuild, Enqueue, AttemptAges, Sweep, RunEnds, HookStep, HookLoad,
         HookCommit, HookAbort, workerVars, redisVars, vars
  <2> QED BY <2>1 DEF Owns, Holding, BeforeClaim, AfterClaim
<1>15. CASE Environment
  <2>1. UNCHANGED <<pc, job, lease>>
    BY <1>15 DEF Environment, Pause, Resume, Complete, WindowTurns, KillSwitch, ReleaseStop,
         Suppress, GuardExpires, RedisLoss, Fault, May, workerVars, redisVars
  <2> QED BY <2>1 DEF Owns, Holding, BeforeClaim, AfterClaim
<1> QED BY <1>1, <1>2, <1>3, <1>4, <1>5, <1>6, <1>7, <1>8, <1>9, <1>10, <1>11, <1>12, <1>13, <1>14,
           <1>15 DEF Next, WorkerStep, WorkerFault, DograhStep


-----------------------------------------------------------------------------
\* What a lookup says, where an attempt has at most one run.
LEMMA ListingTells ==
  ASSUME TypeOK, CallInv, NEW m \in Attempts
  PROVE  /\ Listing(m).kind \in {"nothing", "one"}
         /\ Listing(m).kind = "nothing" => RunsOf(m) = {}
         /\ Listing(m).kind = "one" => Listing(m).run \in RunsOf(m)
<1>1. CASE RunsOf(m) = {}
  <2>1. Cardinality(RunsOf(m)) = 0
    BY <1>1, FS_EmptySet
  <2>2. Listing(m) = [kind |-> "nothing", run |-> 0]
    BY <2>1 DEF Listing
  <2> QED BY <1>1, <2>2
<1>2. CASE RunsOf(m) # {}
  <2>1. PICK k : k \in RunsOf(m)
    BY <1>2
  <2>2. RunsOf(m) = {k}
    BY <2>1 DEF RunsOf, CallInv
  <2>3. Cardinality(RunsOf(m)) = 1
    BY <2>2, FS_Singleton
  <2>4. Listing(m) = [kind |-> "one", run |-> CHOOSE j \in RunsOf(m) : TRUE]
    BY <2>3 DEF Listing
  <2>5. (CHOOSE j \in RunsOf(m) : TRUE) \in RunsOf(m)
    BY <1>2
  <2> QED BY <2>4, <2>5
<1> QED BY <1>1, <1>2

\* The answers a worker may get.
Silent == {"none", "held", "down", "ambiguous", "config", "reject", "permanent"}
Heard(v) ==
  \/ ans'[v] = ans[v] \/ ans'[v].kind \in Silent
  \/ ans'[v].kind = "ok" /\ ans'[v].run \in RunIds
  \/ ans'[v] = Listing(job[v].n)
  \/ pc[v] = "lookup2" /\ ans'[v] = Listing(job[v].n - 1)
AtAnswer(v) ==
  /\ job'[v].n = job[v].n
  /\ \/ pc[v] = "answer" /\ ans'[v] = ans[v]
     \/ ans'[v].kind \in {"ok", "ambiguous", "config"}
     \/ Refuse /\ \E r \in wire : r.n = job[v].n /\ wire' = wire \ {r}
AtGate2(v) ==
  \/ pc[v] = "gate2" /\ ans'[v] = ans[v] /\ job'[v].n = job[v].n
  \/ Lookup2(v)

\* An answer is heard from Dograh by the worker it is for.
LEMMA AnswerStep ==
  ASSUME TypeOK, [Next]_vars, NEW v \in Workers
  PROVE  /\ Heard(v)
         /\ pc'[v] = "answer" => AtAnswer(v)
         /\ pc'[v] = "gate2" => AtGate2(v)
<1>a. /\ pc \in [Workers -> PCs] /\ ans \in [Workers -> [kind : Answers, run : RunIds \cup {0}]]
      /\ job \in [Workers -> [slot : Slots \cup {0}, n : Attempts, retry : BOOLEAN]]
      /\ wire \subseteq [n : Attempts, w : Workers]
  BY DEF TypeOK, WorkerTypeOK, DograhTypeOK
<1> DEFINE G == /\ Heard(v)
                /\ pc'[v] = "answer" => AtAnswer(v)
                /\ pc'[v] = "gate2" => AtGate2(v)
<1> SUFFICES G
  OBVIOUS
<1> HIDE DEF G
<1>1. ASSUME ans'[v] = ans[v], pc'[v] = pc[v], job'[v].n = job[v].n PROVE G
  BY <1>1 DEF G, Heard, AtGate2, AtAnswer
<1>2. ASSUME NEW w \in Workers, w # v, NEW label,
             Goto(w, label) \/ ToIdle(w),
             \A u \in Workers : u # w => ans'[u] = ans[u] /\ job'[u].n = job[u].n
      PROVE  G
  <2>1. pc'[v] = pc[v]
    BY <1>a, <1>2 DEF Goto, ToIdle
  <2> QED BY <1>1, <1>2, <2>1
<1>3. ASSUME NEW w \in Workers, NEW label, label \notin {"answer", "gate2"}, Goto(w, label),
             UNCHANGED ans, \A u \in Workers : u # w => job'[u].n = job[u].n
      PROVE  G
  <2>1. CASE w = v
    BY <1>a, <1>3, <2>1 DEF Goto, G, Heard
  <2> QED BY <1>2, <1>3, <2>1
<1>4. ASSUME NEW w \in Workers, ToIdle(w), \A u \in Workers : u # w => job'[u].n = job[u].n
      PROVE  G
  <2>1. CASE w = v
    <3>1. ans'[v] = NoAnswer /\ pc'[v] = "idle"
      BY <1>a, <1>4, <2>1 DEF ToIdle
    <3> QED BY <3>1 DEF NoAnswer, G, Heard, Silent
  <2>2. \A u \in Workers : u # w => ans'[u] = ans[u]
    BY <1>a, <1>4 DEF ToIdle
  <2> QED BY <1>2, <1>4, <2>1, <2>2
<1>l. ASSUME NEW w \in Workers, NEW reset, Leave(w, reset) PROVE G
  BY <1>a, <1>l, <1>4 DEF Leave
<1>5. ASSUME NEW w \in Workers, Read(w) \/ Reclaim(w) PROVE G
  <2>1. Goto(w, "taken") /\ UNCHANGED ans
    BY <1>5 DEF Read, Reclaim
  <2>2. \A u \in Workers : u # w => job'[u].n = job[u].n
    BY <1>a, <1>5 DEF Read, Reclaim
  <2> QED BY <1>3, <2>1, <2>2
<1>6. ASSUME NEW w \in Workers, DeadLetter(w) PROVE G
  <2>1. UNCHANGED <<pc, ans>> /\ pc[w] = "idle"
    BY <1>6 DEF DeadLetter
  <2>2. PICK s \in Slots : job' = Forget(w, s)
    BY <1>6 DEF DeadLetter
  <2>3. \A u \in Workers : u # w => job'[u].n = job[u].n
    BY <2>2, ForgetKeepsNumber
  <2>4. CASE v = w
    BY <2>1, <2>4 DEF G, Heard
  <2> QED BY <1>1, <2>1, <2>3, <2>4
<1>7. ASSUME NEW w \in Workers, Ack(w) PROVE G
  <2>1. ToIdle(w) /\ job' = Forget(w, job[w].slot)
    BY <1>7 DEF Ack
  <2>2. \A u \in Workers : u # w => job'[u].n = job[u].n
    BY <2>1, ForgetKeepsNumber
  <2> QED BY <1>4, <2>1, <2>2
<1>8. ASSUME NEW w \in Workers,
             Blocked(w) \/ NotAdmitted(w) \/ AnswerConfig(w) \/ Abandon(w) \/ Lookup2Down(w)
             \/ SettlePaused(w) \/ SettleWindow(w) \/ Unguard(w) \/ PutAside(w) \/ Admit(w)
             \/ Gate2(w) \/ Claim(w) \/ Send(w) \/ AnswerOk(w) \/ EngageHalt(w)
             \/ AnswerFailed(w) \/ AnswerAmbiguous(w) \/ Resolve1(w) \/ RecoverySwallowed(w)
      PROVE  G
  <2>1. \/ \E reset : Leave(w, reset)
        \/ UNCHANGED <<job, ans>> /\ \E label : label \notin {"answer", "gate2"} /\ Goto(w, label)
    <3>1. CASE Blocked(w) \/ NotAdmitted(w) \/ AnswerConfig(w) \/ Abandon(w)
      BY <3>1 DEF Blocked, NotAdmitted, AnswerConfig, KeepJob, Abandon
    <3>2. CASE SettlePaused(w) \/ SettleWindow(w) \/ Unguard(w) \/ PutAside(w) \/ Admit(w) \/ Lookup2Down(w)
      BY <3>2 DEF SettlePaused, SettleWindow, Unguard, PutAside, Admit, Lookup2Down
    <3>3. CASE Gate2(w) \/ Claim(w)
      BY <3>3 DEF Gate2, Claim, ClaimIfOpen, CommitClaim
    <3>4. CASE \/ Send(w) \/ AnswerOk(w) \/ EngageHalt(w)
               \/ AnswerFailed(w) \/ AnswerAmbiguous(w) \/ Resolve1(w) \/ RecoverySwallowed(w)
      BY <3>4 DEF Send, AnswerOk, EngageHalt, AnswerFailed, AnswerAmbiguous, Resolve1,
                  RecoverySwallowed, RecordFailure
    <3> QED BY <1>8, <3>1, <3>2, <3>3, <3>4
  <2> QED BY <1>3, <1>l, <2>1
<1>9. ASSUME NEW w \in Workers, Crash(w) PROVE G
  BY <1>a, <1>4, <1>9 DEF Crash
<1>10. ASSUME NEW w \in Workers, Load(w) PROVE G
  <2>1. \/ Leave(w, TRUE)
        \/ \E label \in {"paused", "closed"} : Aside(w, label)
        \/ \E label \in {"ack", "lookup1", "lookup2", "claim"} :
             \E kind \in {"none", "held"} : GoOn(w, label, kind)
    <3> DEFINE n == job[w].n
               a == attempt[n]
    <3>1. ASSUME NEW kind \in {"none", "held"}, RetryGate(w, n, kind)
          PROVE  \E label \in {"ack", "lookup2", "claim"} : GoOn(w, label, "none") \/ GoOn(w, label, kind)
      BY <3>1 DEF RetryGate
    <3>2. ASSUME ResolveClaim(w, a)
          PROVE  Leave(w, TRUE) \/ GoOn(w, "ack", "none") \/ GoOn(w, "lookup1", "none")
      BY <3>2 DEF ResolveClaim
    <3> QED BY <1>10, <3>1, <3>2 DEF Load
  <2>2. ASSUME NEW label \in {"paused", "closed"}, Aside(w, label) PROVE G
    BY <1>3, <2>2 DEF Aside
  <2>3. ASSUME NEW label \in {"ack", "lookup1", "lookup2", "claim"}, NEW kind \in {"none", "held"},
               GoOn(w, label, kind)
        PROVE  G
    <3>1. Goto(w, label) /\ job' = job /\ ans' = [ans EXCEPT ![w] = [kind |-> kind, run |-> 0]]
      BY <2>3 DEF GoOn
    <3>2. CASE w = v
      <4>1. pc'[v] = label /\ ans'[v].kind = kind
        BY <1>a, <3>1, <3>2 DEF Goto
      <4> QED BY <4>1 DEF G, Heard, Silent
    <3>3. CASE w # v
      BY <1>a, <1>2, <3>1, <3>3
    <3> QED BY <3>2, <3>3
  <2> QED BY <1>l, <2>1, <2>2, <2>3
<1>11. ASSUME NEW w \in Workers, Lookup1(w) PROVE G
  <2>1. Goto(w, "resolve1") /\ job' = job
    BY <1>11 DEF Lookup1
  <2>2. \E x : ans' = [ans EXCEPT ![w] = x] /\ (x = Listing(job[w].n) \/ x = [kind |-> "down", run |-> 0])
    BY <1>11 DEF Lookup1
  <2>3. CASE w = v
    <3>1. pc'[v] = "resolve1" /\ (ans'[v] = Listing(job[v].n) \/ ans'[v] = [kind |-> "down", run |-> 0])
      BY <1>a, <2>1, <2>2, <2>3 DEF Goto
    <3> QED BY <3>1 DEF G, Heard, Silent
  <2>4. CASE w # v
    BY <1>a, <1>2, <2>1, <2>2, <2>4
  <2> QED BY <2>3, <2>4
<1>12. ASSUME NEW w \in Workers, Lookup2(w) PROVE G
  <2>1. Goto(w, "gate2") /\ job' = job /\ pc[w] = "lookup2"
    BY <1>12 DEF Lookup2
  <2>2. ans' = ans \/ ans' = [ans EXCEPT ![w] = Listing(job[w].n - 1)]
    BY <1>12 DEF Lookup2
  <2>3. CASE w = v
    <3>1. pc'[v] = "gate2" /\ (ans'[v] = Listing(job[v].n - 1) \/ ans'[v] = ans[v])
      BY <1>a, <2>1, <2>2, <2>3 DEF Goto
    <3> QED BY <1>12, <2>1, <2>3, <3>1 DEF G, Heard, AtGate2
  <2>4. CASE w # v
    BY <1>a, <1>2, <2>1, <2>2, <2>4
  <2> QED BY <2>3, <2>4
<1>13. ASSUME NEW r \in wire, NEW x, Answer(r, x), UNCHANGED job,
              \/ x.kind \in {"ambiguous", "config"} \/ (x.kind = "ok" /\ x.run \in RunIds)
              \/ Refuse /\ x.kind \in {"reject", "permanent"} /\ wire' = wire \ {r}
       PROVE  G
  <2>1. CASE Waits(r) /\ r.w = v
    <3>1. pc'[v] = "answer" /\ ans'[v] = x /\ job[v].n = r.n
      BY <1>a, <1>13, <2>1 DEF Answer, Waits
    <3> QED BY <1>13, <3>1 DEF G, Heard, Silent, AtAnswer
  <2>2. CASE ~(Waits(r) /\ r.w = v)
    <3>1. pc'[v] = pc[v] /\ ans'[v] = ans[v]
      BY <1>a, <1>13, <2>2 DEF Answer
    <3> QED BY <1>1, <1>13, <3>1
  <2> QED BY <2>1, <2>2
<1>14. CASE Accept
  <2>1. PICK r \in wire, k \in RunIds :
          /\ Answer(r, [kind |-> "ok", run |-> k]) \/ Answer(r, [kind |-> "ambiguous", run |-> 0])
          /\ UNCHANGED job
    BY <1>14 DEF Accept
  <2> DEFINE x == [kind |-> "ok", run |-> k]
             y == [kind |-> "ambiguous", run |-> 0]
  <2>2. x.kind = "ok" /\ x.run \in RunIds /\ y.kind = "ambiguous"
    OBVIOUS
  <2>3. (Answer(r, x) \/ Answer(r, y)) /\ UNCHANGED job
    BY <2>1
  <2> HIDE DEF x, y
  <2> QED BY <1>13, <2>2, <2>3
<1>15. CASE Refuse
  <2>1. PICK r \in wire :
          /\ wire' = wire \ {r} /\ UNCHANGED job
          /\ \/ Answer(r, [kind |-> "config", run |-> 0])
             \/ \E kind \in {"reject", "permanent"} : Answer(r, [kind |-> kind, run |-> 0])
             \/ Answer(r, [kind |-> "ambiguous", run |-> 0])
    BY <1>15 DEF Refuse
  <2>2. ASSUME NEW kind \in {"config", "reject", "permanent", "ambiguous"},
               Answer(r, [kind |-> kind, run |-> 0])
        PROVE  G
    <3> DEFINE x == [kind |-> kind, run |-> 0]
    <3>1. x.kind = kind /\ Answer(r, x)
      BY <2>2
    <3> HIDE DEF x
    <3> QED BY <1>13, <1>15, <2>1, <2>2, <3>1
  <2> QED BY <2>1, <2>2
<1>16. ASSUME NEW w \in Workers, TimeOut(w) PROVE G
  <2>1. /\ pc' = [pc EXCEPT ![w] = "answer"] /\ job' = job
        /\ ans' = [ans EXCEPT ![w] = [kind |-> "ambiguous", run |-> 0]]
    BY <1>16 DEF TimeOut
  <2>2. CASE w = v
    <3>1. pc'[v] = "answer" /\ ans'[v].kind = "ambiguous"
      BY <1>a, <2>1, <2>2
    <3> QED BY <2>1, <3>1 DEF G, Heard, Silent, AtAnswer
  <2>3. CASE w # v
    BY <1>1, <1>a, <2>1, <2>3
  <2> QED BY <2>2, <2>3
<1>17. CASE \/ LeaseExpires \/ RecoveryStep \/ DispatchAbort \/ HookStep \/ HookAbort
            \/ UNCHANGED vars \/ Environment \/ (\E w \in Workers : CacheExpires(w))
            \/ \E n \in Attempts, k \in RunIds : RunEnds(n, k)
  <2>1. CASE RedisLoss
    <3>1. UNCHANGED <<pc, ans>> /\ job'[v] = [job[v] EXCEPT !.slot = 0]
      BY <2>1 DEF RedisLoss
    <3>2. job'[v].n = job[v].n
      BY <1>a, <3>1
    <3> QED BY <1>1, <3>1, <3>2
  <2>2. CASE ~RedisLoss
    <3>1. UNCHANGED <<pc, job, ans>>
      BY <1>17, <2>2
         DEF LeaseExpires, RecoveryStep, DispatchClaim, DispatchRetry, DispatchDial, DispatchCommit,
         DispatchAbort, Rebuild, Enqueue, AttemptAges, Sweep, RunEnds, HookStep, HookLoad,
         HookCommit, HookAbort, CacheExpires, Environment, Pause, Resume, Complete, WindowTurns,
         KillSwitch, ReleaseStop, Suppress, GuardExpires, workerVars, vars
    <3> QED BY <1>1, <3>1
  <2> QED BY <2>1, <2>2
<1> QED BY <1>5, <1>6, <1>7, <1>8, <1>9, <1>10, <1>11, <1>12, <1>14, <1>15, <1>16, <1>17
        DEF Next, WorkerStep, WorkerFault, DograhStep, G

-----------------------------------------------------------------------------
\* What a step may do to the row of attempt n: nothing that matters here,
Still(n) ==
  /\ attempt'[n].state = attempt[n].state /\ attempt'[n].run = attempt[n].run
  /\ attempt'[n].amb = attempt[n].amb

\* open it,
Opens(w, n) ==
  /\ job[w].n = n /\ attempt[n].state = "none"
  /\ attempt'[n].state = "INITIATED" /\ attempt'[n].run = attempt[n].run
  /\ \/ pc[w] = "claim"
     \/ pc[w] = "gate2" /\ StillUnresolved(n) /\ ans[w].kind \in {"none", "held"}
  /\ contact'.status = IF seen[w].status # "DIALING" THEN "DIALING" ELSE contact.status
  /\ pc' = [pc EXCEPT ![w] = "send"]
  /\ UNCHANGED <<job, wire, run, hook, lease>>

\* give it the run that its worker learned of,
Binds(w, n) ==
  /\ job[w].n = n /\ pc[w] \in {"answer", "resolve1"} /\ ans[w].kind \in {"ok", "one"}
  /\ attempt'[n].run = ans[w].run /\ attempt'[n].state = attempt[n].state
  /\ pc' = [pc EXCEPT ![w] = "ack"]
  /\ UNCHANGED <<job, wire, run, hook>>

\* record its failure,
Fails(w, n) ==
  /\ job[w].n = n
  /\ \/ pc[w] = "answer" /\ ans[w].kind \in {"reject", "permanent"}
     \/ pc[w] = "resolve1" /\ attempt'[n].amb = TRUE
  /\ attempt'[n].state = "FAILED_TO_CONNECT" /\ attempt'[n].run = attempt[n].run
  /\ pc' = [pc EXCEPT ![w] = "ack"]
  /\ UNCHANGED <<job, wire, run, hook>>

\* reopen it for a run found when its retry was about to be dialed,
Reopens(w, n) ==
  /\ pc[w] = "gate2" /\ job[w].n = n + 1 /\ StillUnresolved(n + 1)
  /\ ans[w].kind \in {"one", "many"}
  /\ attempt'[n].state = "INITIATED" /\ attempt'[n].run = ans[w].run
  /\ pc' = [pc EXCEPT ![w] = "ack"]
  /\ UNCHANGED <<job, wire, run, hook>>

\* give it up as stuck,
Sweeps(n) ==
  /\ attempt[n].state = "INITIATED" /\ attempt[n].run = 0
  /\ attempt'[n].state = "FAILED_TO_CONNECT" /\ attempt'[n].run = 0 /\ attempt'[n].amb = TRUE
  /\ UNCHANGED <<pc, job, wire, run, hook>>

\* or end it by its webhook.
Ends(n) ==
  /\ HookCommit /\ hook.n = n /\ attempt'[n].state \in Terminal
  /\ attempt'[n].run = IF hook.amb \/ ~hook.bound THEN hook.k ELSE attempt[n].run

Alters(n) ==
  \/ Still(n) \/ Sweeps(n) \/ Ends(n)
  \/ \E w \in Workers : Opens(w, n) \/ Binds(w, n) \/ Fails(w, n) \/ Reopens(w, n)

\* A claim, or a lookup that ends in one.
LEMMA ClaimAlters ==
  ASSUME CountInv, NEW w \in Workers, ClaimIfOpen(w, job[w].n, attempt),
         \/ pc[w] = "claim"
         \/ pc[w] = "gate2" /\ StillUnresolved(job[w].n) /\ ans[w].kind \in {"none", "held"},
         UNCHANGED <<wire, run, hook>>, NEW n \in Attempts
  PROVE  Still(n) \/ Opens(w, n)
<1> DEFINE m == job[w].n
           row == [attempt[m] EXCEPT !.state = "INITIATED", !.held = FALSE,
                                     !.provErr = FALSE, !.age = 0]
           new == [status |-> "DIALING", count |-> seen[w].count + 1, due |-> FALSE, no |-> 0]
<1>a. /\ m \in Attempts /\ attempt[m] \in AttemptRow /\ ans[w].kind # "held"
      /\ attempt \in [Attempts -> AttemptRow]
  BY DEF CountInv, FenceInv, NoHold, TypeOK, WorkerTypeOK, PgTypeOK
<1>1. CASE ~OutboundOpen(w) \/ Taken(attempt, m)
  <2>1. attempt' = attempt
    BY <1>a, <1>1 DEF ClaimIfOpen, CommitClaim
  <2> QED BY <2>1 DEF Still
<1>2. CASE OutboundOpen(w) /\ ~Taken(attempt, m)
  <2>1. /\ attempt' = [attempt EXCEPT ![m] = row]
        /\ contact' = Merge(contact, seen[w], new, FALSE)
        /\ Goto(w, "send") /\ UNCHANGED <<job, lease>>
    BY <1>2 DEF ClaimIfOpen, CommitClaim
  <2>2. attempt[m].state = "none" /\ row.state = "INITIATED" /\ row.run = attempt[m].run
    BY <1>2, <1>a DEF Taken, AttemptRow
  <2>3. contact'.status = IF seen[w].status # "DIALING" THEN "DIALING" ELSE contact.status
    BY <2>1 DEF Merge
  <2> HIDE DEF row, new
  <2>4. CASE n = m
    <3>1. attempt'[n] = row
      BY <1>a, <2>1, <2>4
    <3> QED BY <2>1, <2>2, <2>3, <2>4, <3>1 DEF Opens, Goto
  <2>5. CASE n # m
    BY <1>a, <2>1, <2>5 DEF Still
  <2> QED BY <2>4, <2>5
<1> QED BY <1>1, <1>2

\* A step of a worker changes a row as one of those.
LEMMA WorkerAlters ==
  ASSUME CountInv, NEW w \in Workers,
         \/ Read(w) \/ Reclaim(w) \/ DeadLetter(w)
         \/ WorkerStep(w) \/ WorkerFault(w) \/ CacheExpires(w),
         NEW n \in Attempts
  PROVE  \/ Still(n) \/ Opens(w, n) \/ Binds(w, n) \/ Fails(w, n) \/ Reopens(w, n)
<1> DEFINE m == job[w].n
           p == m - 1
<1>a. /\ m \in Attempts /\ attempt \in [Attempts -> AttemptRow] /\ attempt[m] \in AttemptRow
      /\ TypeOK /\ \A i \in Attempts : i \in Int
  BY DialAssumption DEF CountInv, FenceInv, TypeOK, WorkerTypeOK, PgTypeOK, Attempts
<1>b. m \in Int
  BY <1>a
<1>r. ASSUME NEW i, NEW r, attempt' = [attempt EXCEPT ![i] = r], i # n PROVE Still(n)
  BY <1>a, <1>r DEF Still
<1>1. CASE attempt' = attempt
  BY <1>1 DEF Still
<1>2. CASE Lookup2Down(w)
  <2> HIDE DEF m, p
  <2>1. attempt' = attempt \/ attempt' = [attempt EXCEPT ![p].deferrals = @ + 1]
    BY <1>2 DEF Lookup2Down, p, m
  <2> QED BY <1>a, <2>1 DEF AttemptRow, Still
<1>3. CASE Gate2(w)
  <2>1. CASE /\ StillUnresolved(m) /\ ans[w].kind \in {"one", "many"} /\ Goto(w, "ack")
             /\ attempt' = [attempt EXCEPT ![p] = [Reopened(@) EXCEPT !.run = ans[w].run]]
    <3> DEFINE r == [Reopened(attempt[p]) EXCEPT !.run = ans[w].run]
    <3>1. attempt' = [attempt EXCEPT ![p] = r]
      BY <2>1
    <3>2. CASE n = p
      <4>1. r.state = "INITIATED" /\ r.run = ans[w].run
        BY <1>a, <3>2 DEF Reopened, AttemptRow
      <4>2. m = n + 1
        <5> HIDE DEF m, r
        <5> QED BY <1>b, <3>2
      <4>3. attempt'[n] = r
        BY <1>a, <3>1, <3>2
      <4>4. StillUnresolved(n + 1) /\ job[w].n = n + 1
        BY <2>1, <4>2
      <4>5. /\ pc[w] = "gate2" /\ UNCHANGED <<wire, run, hook>>
            /\ ans[w].kind \in {"one", "many"} /\ Goto(w, "ack")
        BY <1>3, <2>1 DEF Gate2, dograhVars, otherVars
      <4>6. job' = job
        BY <1>3, <2>1 DEF Gate2, ClaimIfOpen
      <4> HIDE DEF r
      <4> QED BY <4>1, <4>3, <4>4, <4>5, <4>6 DEF Reopens, Goto
    <3> HIDE DEF r
    <3> QED BY <1>r, <3>1, <3>2
  <2>2. CASE /\ StillUnresolved(m) /\ ans[w].kind \in {"none", "held"}
             /\ ClaimIfOpen(w, m, attempt)
    <3>1. pc[w] = "gate2" /\ UNCHANGED <<wire, run, hook>>
      BY <1>3 DEF Gate2, dograhVars, otherVars
    <3> QED BY <2>2, <3>1, ClaimAlters
  <2> QED BY <1>1, <1>3, <2>1, <2>2 DEF Gate2
<1>4. CASE Claim(w)
  <2>1. pc[w] = "claim" /\ UNCHANGED <<wire, run, hook>> /\ ClaimIfOpen(w, m, attempt)
    BY <1>4 DEF Claim, dograhVars, otherVars
  <2> QED BY <2>1, ClaimAlters
<1>5. CASE AnswerOk(w)
  <2> DEFINE r == [attempt[m] EXCEPT !.run = ans[w].run, !.held = FALSE]
  <2>1. /\ attempt' = [attempt EXCEPT ![m] = r] /\ pc[w] = "answer" /\ ans[w].kind = "ok"
        /\ pc' = [pc EXCEPT ![w] = "ack"] /\ UNCHANGED <<job, wire, run, hook>>
    BY <1>5 DEF AnswerOk, Goto, dograhVars, otherVars
  <2>2. r.run = ans[w].run /\ r.state = attempt[m].state
    BY <1>a DEF AttemptRow
  <2> HIDE DEF r
  <2>3. CASE n = m
    <3>1. attempt'[n] = r
      BY <1>a, <2>1, <2>3
    <3> QED BY <2>1, <2>2, <2>3, <3>1 DEF Binds
  <2> QED BY <1>r, <2>1, <2>3
<1>6. CASE EngageHalt(w) \/ AnswerConfig(w)
  BY <1>6 DEF EngageHalt, AnswerConfig, CountInv, FenceInv, NoHold
<1>7. ASSUME NEW amb \in BOOLEAN, attempt' = FailedAttempt(m, amb), Goto(w, "ack"),
             \/ pc[w] = "answer" /\ ans[w].kind \in {"reject", "permanent"}
             \/ pc[w] = "resolve1" /\ amb = TRUE,
             UNCHANGED <<job, wire, run, hook>>
      PROVE  Still(n) \/ Fails(w, n)
  <2> DEFINE r == [attempt[m] EXCEPT !.state = "FAILED_TO_CONNECT", !.provErr = TRUE,
                                     !.amb = attempt[m].amb \/ amb, !.held = FALSE]
  <2>1. attempt' = [attempt EXCEPT ![m] = r]
    BY <1>7 DEF FailedAttempt
  <2>2. r.state = "FAILED_TO_CONNECT" /\ r.run = attempt[m].run
    BY <1>a DEF AttemptRow
  <2>3. amb = TRUE => r.amb = TRUE
    BY <1>a DEF AttemptRow
  <2> HIDE DEF r
  <2>4. CASE n = m
    <3>1. attempt'[n] = r
      BY <1>a, <2>1, <2>4
    <3> QED BY <1>7, <2>2, <2>3, <2>4, <3>1 DEF Fails, Goto
  <2> QED BY <1>r, <2>1, <2>4
<1>8. CASE AnswerFailed(w)
  <2>1. /\ pc[w] = "answer" /\ ans[w].kind \in {"reject", "permanent"} /\ Goto(w, "ack")
        /\ attempt' = FailedAttempt(m, FALSE) /\ UNCHANGED <<job, wire, run, hook>>
    BY <1>8 DEF AnswerFailed, RecordFailure, dograhVars, otherVars
  <2> QED BY <1>7, <2>1
<1>9. CASE Resolve1(w)
  <2>1. CASE RecordFailure(w, TRUE, "provider")
    <3>1. /\ pc[w] = "resolve1" /\ Goto(w, "ack")
          /\ attempt' = FailedAttempt(m, TRUE) /\ UNCHANGED <<job, wire, run, hook>>
      BY <1>9, <2>1 DEF Resolve1, RecordFailure, dograhVars, otherVars
    <3> QED BY <1>7, <3>1
  <2>2. CASE ~RecordFailure(w, TRUE, "provider")
    <3> DEFINE r == [attempt[m] EXCEPT !.run = ans[w].run]
    <3>1. \/ attempt' = attempt
          \/ ans[w].kind = "one" /\ attempt' = [attempt EXCEPT ![m].run = ans[w].run]
      BY <1>9, <2>2 DEF Resolve1
    <3>2. /\ pc[w] = "resolve1" /\ pc' = [pc EXCEPT ![w] = "ack"]
          /\ UNCHANGED <<job, wire, run, hook>>
      BY <1>9, <2>2 DEF Resolve1, Goto, dograhVars, otherVars
    <3>3. r.run = ans[w].run /\ r.state = attempt[m].state
      BY <1>a DEF AttemptRow
    <3>4. attempt' = attempt \/ (ans[w].kind = "one" /\ attempt' = [attempt EXCEPT ![m] = r])
      BY <3>1
    <3> HIDE DEF r
    <3>5. CASE n = m /\ attempt' # attempt
      <4>1. attempt'[n] = r
        BY <1>a, <3>4, <3>5
      <4> QED BY <3>2, <3>3, <3>4, <3>5, <4>1 DEF Binds
    <3> QED BY <1>1, <1>r, <3>4, <3>5
  <2> QED BY <2>1, <2>2
<1>10. CASE RecoverySwallowed(w)
  <2>1. /\ attempt' = FailedAttempt(m, TRUE) /\ pc[w] = "resolve1" /\ Goto(w, "ack")
        /\ UNCHANGED <<job, wire, run, hook>>
    BY <1>10 DEF RecoverySwallowed, dograhVars, otherVars
  <2> QED BY <1>7, <2>1
<1>11. CASE \/ Read(w) \/ Reclaim(w) \/ DeadLetter(w) \/ CacheExpires(w) \/ Blocked(w) \/ PutAside(w)
            \/ Admit(w) \/ NotAdmitted(w) \/ SettlePaused(w) \/ SettleWindow(w) \/ Unguard(w)
            \/ Ack(w) \/ Load(w) \/ Lookup2(w) \/ Send(w) \/ AnswerAmbiguous(w) \/ Lookup1(w)
            \/ Crash(w) \/ Abandon(w)
  <2>1. attempt' = attempt
    BY <1>11 DEF Read, Reclaim, DeadLetter, CacheExpires, Blocked, PutAside, Admit, NotAdmitted,
                 SettlePaused, SettleWindow, Unguard, Ack, Load, Lookup2, Send, AnswerAmbiguous,
                 Lookup1, Crash, Abandon, pgVars
  <2> QED BY <1>1, <2>1
<1> QED BY <1>2, <1>3, <1>4, <1>5, <1>6, <1>8, <1>9, <1>10, <1>11 DEF WorkerStep, WorkerFault

\* So does every step.
LEMMA RowStep ==
  ASSUME CountInv, [Next]_vars, NEW n \in Attempts PROVE Alters(n)
<1>a. /\ attempt \in [Attempts -> AttemptRow] /\ attempt[n] \in AttemptRow
      /\ TypeOK /\ hook.n \in Attempts
  BY DEF CountInv, FenceInv, TypeOK, PgTypeOK, OtherTypeOK
<1>1. CASE attempt' = attempt
  BY <1>1 DEF Alters, Still
<1>2. CASE \E w \in Workers : \/ Read(w) \/ Reclaim(w) \/ DeadLetter(w)
                              \/ WorkerStep(w) \/ WorkerFault(w) \/ CacheExpires(w)
  BY <1>2, WorkerAlters DEF Alters
<1>3. CASE DispatchCommit
  <2>1. attempt' = attempt \/ attempt' = [attempt EXCEPT ![disp.e.n - 1].held = FALSE]
    BY <1>3 DEF DispatchCommit, Noted
  <2> QED BY <1>a, <2>1 DEF AttemptRow, Alters, Still
<1>4. ASSUME NEW m \in Attempts, AttemptAges(m) PROVE Alters(n)
  <2>1. attempt' = [attempt EXCEPT ![m].age = @ + 1]
    BY <1>4 DEF AttemptAges
  <2> QED BY <1>a, <2>1 DEF AttemptRow, Alters, Still
<1>5. ASSUME NEW m \in Attempts, Sweep(m) PROVE Alters(n)
  <2>1. /\ attempt' = [attempt EXCEPT ![m] = Reviewed(attempt[m])] /\ attempt[m].state = "INITIATED"
        /\ UNCHANGED <<pc, job, wire, run, hook>>
    BY <1>5 DEF Sweep, Stuck, workerVars, dograhVars, otherVars
  <2>2. CASE m = n /\ attempt[n].run = 0
    <3>1. attempt'[n] = [attempt[n] EXCEPT !.state = "FAILED_TO_CONNECT", !.provErr = TRUE, !.amb = TRUE]
      BY <1>a, <2>1, <2>2 DEF Reviewed
    <3>2. /\ attempt'[n].state = "FAILED_TO_CONNECT" /\ attempt'[n].run = 0
          /\ attempt'[n].amb = TRUE
      BY <1>a, <2>2, <3>1 DEF AttemptRow
    <3> QED BY <2>1, <2>2, <3>2 DEF Alters, Sweeps
  <2>3. CASE m # n \/ attempt[n].run # 0
    BY <1>a, <2>1, <2>3 DEF Reviewed, Alters, Still
  <2> QED BY <2>2, <2>3
<1>6. CASE HookCommit
  <2> DEFINE o == run[hook.n][hook.k]
             r == HookAttempt(attempt[hook.n], o)
  <2>1. attempt' = [attempt EXCEPT ![hook.n] = r]
    BY <1>6 DEF HookCommit
  <2>2. CASE n = hook.n
    <3>1. /\ r.state = FinalState(o)
          /\ r.run = IF hook.amb \/ ~hook.bound THEN hook.k ELSE attempt[n].run
      BY <1>a, <2>2 DEF HookAttempt, AttemptRow
    <3>2. FinalState(o) \in Terminal
      BY DEF FinalState, Terminal
    <3> HIDE DEF r, o
    <3> QED BY <1>a, <1>6, <2>1, <2>2, <3>1, <3>2 DEF Alters, Ends
  <2> HIDE DEF r, o
  <2> QED BY <1>a, <2>1, <2>2 DEF Alters, Still
<1>7. CASE \/ LeaseExpires \/ DispatchClaim \/ DispatchRetry \/ DispatchDial \/ Rebuild \/ Enqueue
           \/ DispatchAbort \/ Environment \/ DograhStep \/ HookAbort \/ UNCHANGED vars
           \/ \E m \in Attempts, k \in RunIds : HookLoad(m, k)
  <2>1. attempt' = attempt
    BY <1>7 DEF LeaseExpires, DispatchClaim, DispatchRetry, DispatchDial, Rebuild, Enqueue,
                DispatchAbort, Environment, Pause, Resume, Complete, WindowTurns, KillSwitch,
                ReleaseStop, Suppress, GuardExpires, RedisLoss, DograhStep, Accept, Refuse, TimeOut,
                RunEnds, HookAbort, HookLoad, pgVars, vars
  <2> QED BY <1>1, <2>1
<1> QED BY <1>2, <1>3, <1>4, <1>5, <1>6, <1>7 DEF Next, RecoveryStep, HookStep

-----------------------------------------------------------------------------
\* A worker comes after a claim by its own claim, or because somebody left the
\* attempt claimed; it comes before its claim when the attempt before is not in
\* doubt.
Resumes(v) ==
  Load(v) /\ attempt[job[v].n].state = "INITIATED" /\ attempt[job[v].n].run = 0
Undoubted(n) ==
  n = 1 \/ ~Exists(n - 1)
  \/ (attempt[n - 1].state # "INITIATED" /\ ~Ambiguous(attempt[n - 1]))

\* Where the steps of the worker itself lead,
LEMMA WorkerEnters ==
  ASSUME CountInv, NEW v \in Workers, WorkerStep(v) \/ WorkerFault(v)
  PROVE  /\ pc'[v] = "send" => Opens(v, job[v].n)
         /\ pc'[v] \in AfterClaim => pc[v] \in AfterClaim \/ Opens(v, job[v].n) \/ Resumes(v)
         /\ pc'[v] = "claim" => Load(v) /\ Undoubted(job[v].n)
<1>a. /\ TypeOK /\ job[v].n \in Attempts
      /\ attempt \in [Attempts -> AttemptRow] /\ attempt[job[v].n] \in AttemptRow
  BY DEF CountInv, FenceInv, TypeOK, WorkerTypeOK, PgTypeOK
<1> DEFINE G == /\ pc'[v] = "send" => Opens(v, job[v].n)
                /\ pc'[v] \in AfterClaim => pc[v] \in AfterClaim \/ Opens(v, job[v].n) \/ Resumes(v)
                /\ pc'[v] = "claim" => Load(v) /\ Undoubted(job[v].n)
<1> SUFFICES G
  OBVIOUS
<1>1. ASSUME NEW label, Goto(v, label), label \notin AfterClaim \cup {"claim"} PROVE G
  BY <1>a, <1>1, GoesThere DEF AfterClaim
<1>2. ASSUME NEW label, Goto(v, label), label \notin {"send", "claim"}, pc[v] \in AfterClaim PROVE G
  BY <1>a, <1>2, GoesThere
<1>3. ASSUME ToIdle(v) PROVE G
  BY <1>a, <1>3, GoesIdle DEF AfterClaim
<1> HIDE DEF G
<1>4. CASE \/ Blocked(v) \/ PutAside(v) \/ Admit(v) \/ NotAdmitted(v) \/ SettlePaused(v)
           \/ SettleWindow(v) \/ Unguard(v) \/ Ack(v) \/ Lookup2(v) \/ Lookup2Down(v)
           \/ AnswerOk(v) \/ AnswerConfig(v) \/ Crash(v) \/ Abandon(v) \/ RecoverySwallowed(v)
  <2>1. ToIdle(v) \/ \E label : label \notin AfterClaim \cup {"claim"} /\ Goto(v, label)
    BY <1>4
       DEF Blocked, PutAside, Admit, NotAdmitted, SettlePaused, SettleWindow, Unguard, Ack, Lookup2,
           Lookup2Down, AnswerOk, AnswerConfig, KeepJob, Crash, Abandon, RecoverySwallowed, Leave,
           AfterClaim
  <2> QED BY <1>1, <1>3, <2>1
<1>5. CASE Send(v) \/ EngageHalt(v) \/ AnswerAmbiguous(v) \/ Lookup1(v)
  <2>1. /\ pc[v] \in AfterClaim
        /\ \E label : label \notin {"send", "claim"} /\ Goto(v, label)
    BY <1>5 DEF Send, EngageHalt, AnswerAmbiguous, Lookup1, AfterClaim
  <2> QED BY <1>2, <2>1
<1>6. CASE AnswerFailed(v) \/ Resolve1(v)
  <2>1. Goto(v, "ack")
    BY <1>6 DEF AnswerFailed, Resolve1, RecordFailure
  <2> QED BY <1>1, <2>1 DEF AfterClaim
<1>7. CASE Gate2(v) \/ Claim(v)
  <2>1. /\ \/ Goto(v, "ack") \/ ToIdle(v)
           \/ /\ ClaimIfOpen(v, job[v].n, attempt)
              /\ \/ pc[v] = "claim"
                 \/ /\ pc[v] = "gate2" /\ StillUnresolved(job[v].n)
                    /\ ans[v].kind \in {"none", "held"}
        /\ UNCHANGED <<wire, run, hook>>
    BY <1>7 DEF Gate2, Claim, dograhVars, otherVars
  <2>2. CASE Goto(v, "ack") \/ ToIdle(v)
    BY <1>1, <1>3, <2>2 DEF AfterClaim
  <2>3. CASE ~(Goto(v, "ack") \/ ToIdle(v))
    <3>1. Goto(v, "send") /\ ~Taken(attempt, job[v].n)
          /\ \E row : row.state = "INITIATED" /\ attempt' = [attempt EXCEPT ![job[v].n] = row]
      <4> DEFINE row == [attempt[job[v].n] EXCEPT !.state = "INITIATED", !.held = FALSE,
                                                  !.provErr = FALSE, !.age = 0]
      <4>1. ans[v].kind # "held"
        BY DEF CountInv, FenceInv, NoHold
      <4>2. /\ Goto(v, "send") /\ ~Taken(attempt, job[v].n)
            /\ attempt' = [attempt EXCEPT ![job[v].n] = row]
        BY <2>1, <2>3, <4>1 DEF ClaimIfOpen, CommitClaim, Leave
      <4>3. row.state = "INITIATED"
        BY <1>a DEF AttemptRow
      <4> HIDE DEF row
      <4> QED BY <4>2, <4>3
    <3>2. Still(job[v].n) \/ Opens(v, job[v].n)
      BY <1>a, <2>1, <2>3, ClaimAlters
    <3>3. ~Still(job[v].n)
      BY <1>a, <3>1 DEF Still, Taken
    <3>4. pc'[v] = "send"
      BY <1>a, <3>1, GoesThere
    <3> QED BY <3>2, <3>3, <3>4 DEF G
  <2> QED BY <2>2, <2>3
<1>8. CASE Load(v)
  <2> DEFINE n == job[v].n
  <2>1. \/ ToIdle(v)
        \/ \E label \in {"paused", "closed", "ack", "lookup2"} : Goto(v, label)
        \/ Goto(v, "lookup1") /\ attempt[n].state = "INITIATED" /\ attempt[n].run = 0
        \/ Goto(v, "claim") /\ Undoubted(n)
    <3>1. ASSUME NEW kind, RetryGate(v, n, kind)
          PROVE  Goto(v, "ack") \/ Goto(v, "lookup2") \/ (Goto(v, "claim") /\ Undoubted(n))
      BY <3>1 DEF RetryGate, GoOn, Undoubted, Exists
    <3>2. ASSUME ResolveClaim(v, attempt[n])
          PROVE  ToIdle(v) \/ Goto(v, "ack")
                 \/ (Goto(v, "lookup1") /\ attempt[n].state = "INITIATED")
      BY <3>2 DEF ResolveClaim, GoOn, Leave
    <3> QED BY <1>8, <3>1, <3>2 DEF Load, Aside, GoOn
  <2>2. CASE Goto(v, "lookup1") /\ attempt[n].state = "INITIATED" /\ attempt[n].run = 0
    <3>1. pc'[v] = "lookup1"
      BY <1>a, <2>2, GoesThere
    <3> QED BY <1>8, <2>2, <3>1 DEF G, Resumes
  <2>3. CASE Goto(v, "claim") /\ Undoubted(n)
    <3>1. pc'[v] = "claim"
      BY <1>a, <2>3, GoesThere
    <3> QED BY <1>8, <2>3, <3>1 DEF G, AfterClaim
  <2> QED BY <1>1, <1>3, <2>1, <2>2, <2>3 DEF AfterClaim
<1> QED BY <1>4, <1>5, <1>6, <1>7, <1>8 DEF WorkerStep, WorkerFault

\* and where those of anybody lead it.
LEMMA EnterStep ==
  ASSUME CountInv, [Next]_vars, NEW v \in Workers
  PROVE  /\ pc'[v] \in BeforeClaim \cup AfterClaim => job'[v].n = job[v].n
         /\ pc'[v] = "send" => pc[v] = "send" \/ Opens(v, job[v].n)
         /\ pc'[v] \in AfterClaim => pc[v] \in AfterClaim \/ Opens(v, job[v].n) \/ Resumes(v)
         /\ pc'[v] = "claim" => pc[v] = "claim" \/ (Load(v) /\ Undoubted(job[v].n))
<1>1. TypeOK /\ NoHold
  BY DEF CountInv, FenceInv
<1>2. Hands(v)
  BY <1>1, WorkerHands, OtherHands DEF Next
<1>3. CASE pc'[v] = pc[v]
  BY <1>2, <1>3 DEF Hands
<1>4. CASE pc[v] = "await" /\ pc'[v] = "answer"
  BY <1>2, <1>4 DEF Hands, AfterClaim, BeforeClaim
<1>5. CASE WorkerStep(v) \/ WorkerFault(v)
  BY <1>2, <1>5, WorkerEnters DEF Hands
<1>6. CASE pc'[v] = "taken"
  BY <1>6 DEF AfterClaim, BeforeClaim
<1> QED BY <1>1, <1>3, <1>4, <1>5, <1>6, EntersBySelf

-----------------------------------------------------------------------------
(***************************************************************************)
(* What the calls of an attempt look like from the next one.               *)
(***************************************************************************)
Ended(n) == attempt[n].state \in Terminal
OnHook(n) == hook.on /\ hook.n = n

\* A request for attempt n is about to leave or on its way, or its call is live.
InAir(n) ==
  \/ \E w \in Workers : pc[w] = "send" /\ job[w].n = n
  \/ \E r \in wire : r.n = n
  \/ \E k \in RunIds : run[n][k] = "live"

\* Nobody writes about attempt n any more, unless a lookup finds it a run.
Closed(n) ==
  /\ Exists(n) /\ Ended(n) /\ ~AtWork(n) /\ ~InAir(n) /\ ~OnHook(n)
  /\ Ambiguous(attempt[n]) => RunsOf(n) = {}

\* The outcome of attempt n is known, or is that of a run it has or may be given.
Decided(n) ==
  /\ Exists(n) /\ (Ended(n) \/ attempt[n].run # 0)
  /\ AtWork(n) => Ended(n) /\ attempt[n].run # 0
  /\ InAir(n) => /\ ~AtWork(n)
                 /\ Ambiguous(attempt[n]) \/ (attempt[n].state = "INITIATED" /\ attempt[n].run # 0)
  /\ OnHook(n) /\ Ended(n) => Ambiguous(attempt[n])

\* Number c may be promised; it may be dialed.
Due(c) == c = 1 \/ (c - 1 \in 1..MaxRetries /\ Decided(c - 1))
Ready(c) == c = 1 \/ (~AtWork(c - 1) /\ \A r \in wire : r.n # c - 1)

\* A worker that has a run to write about has one.
Answered ==
  \A w \in Workers : ans[w].kind # "many" /\ (ans[w].kind \in {"ok", "one"} => ans[w].run # 0)
\* What was refused makes no call.
Refused ==
  \A w \in Workers : pc[w] = "answer" /\ ans[w].kind \in {"reject", "permanent"} =>
    ~InAir(job[w].n) /\ RunsOf(job[w].n) = {}
\* What the second lookup did not find is not there.
Unfound ==
  \A w \in Workers : pc[w] = "gate2" /\ ans[w].kind \in {"none", "held"} =>
    RunsOf(job[w].n - 1) = {}
\* The webhook is that of a run that has ended.
Hooked ==
  hook.on => /\ run[hook.n][hook.k] \notin {"none", "live"}
             /\ hook.bound => attempt[hook.n].run # 0
\* An attempt that got its run while a worker writes about it has ended.
Apart ==
  \A n \in Attempts : AtWork(n) /\ attempt[n].run # 0 => Ended(n) /\ ~InAir(n) /\ ~OnHook(n)
\* Every number that may come to be dialed is due,
Dues ==
  /\ contact.no # 0 => Due(contact.no)
  /\ contact.status = "RETRY_SCHEDULED" => contact.count # 0 /\ Due(contact.count + 1)
  /\ \A e \in sched : Due(e.n)
  /\ Due(disp.e.n)
  /\ \A s \in Slots : Due(stream[s].n)
  /\ \A w \in Workers : Due(job[w].n)
\* and once it left the schedule, the attempt before is at rest.
Readies ==
  /\ Ready(disp.e.n)
  /\ \A s \in Slots : Ready(stream[s].n)
  /\ \A w \in Workers : Ready(job[w].n)
\* When an attempt is opened, or about to be, the one before is closed.
Followed == \A n \in Attempts : Exists(n) /\ n # 1 => Closed(n - 1)
Closing == \A w \in Workers : pc[w] = "claim" /\ job[w].n # 1 => Closed(job[w].n - 1)
\* A retry promised since a session read DIALING came with the previous
\* attempt's webhook, which gave it a run.
Renewed ==
  \A w \in Workers : pc[w] \in BeforeClaim =>
    /\ ~Exists(job[w].n)
    /\ seen[w].status = "DIALING" /\ contact.status = "RETRY_SCHEDULED" =>
         pc[w] # "claim" /\ attempt[job[w].n - 1].run # 0

KInv ==
  /\ CountInv /\ CallInv /\ Clean /\ Kinds /\ Owns
  /\ Answered /\ Refused /\ Unfound /\ Hooked /\ Apart
  /\ Dues /\ Readies /\ Followed /\ Closing /\ Renewed

-----------------------------------------------------------------------------
\* What a step does to the contact's promise of a retry: it comes from recovery.
LEMMA PromiseStep ==
  ASSUME CountInv, [Next]_vars
  PROVE  /\ \/ contact'.no \in {0, contact.no}
            \/ \E n \in Attempts : Retries(n) /\ contact'.no = n + 1
         /\ contact'.status = "RETRY_SCHEDULED" =>
              contact.status = "RETRY_SCHEDULED" \/ \E n \in Attempts : Retries(n)
<1> DEFINE G == /\ \/ contact'.no \in {0, contact.no}
                   \/ \E n \in Attempts : Retries(n) /\ contact'.no = n + 1
                /\ contact'.status = "RETRY_SCHEDULED" =>
                     contact.status = "RETRY_SCHEDULED" \/ \E n \in Attempts : Retries(n)
<1> SUFFICES G
  OBVIOUS
<1>a. /\ TypeOK /\ contact \in ContactRow /\ seen \in [Workers -> ContactRow]
      /\ disp.seen \in ContactRow /\ \A w \in Workers : job[w].n \in Attempts
  BY DEF CountInv, FenceInv, TypeOK, PgTypeOK, WorkerTypeOK, OtherTypeOK
<1>1. ASSUME contact'.no \in {0, contact.no},
             contact'.status = "RETRY_SCHEDULED" => contact.status = "RETRY_SCHEDULED"
      PROVE  G
  BY <1>1
<1> HIDE DEF G
<1>2. ASSUME NEW w \in Workers, NEW s, s # "RETRY_SCHEDULED",
             contact' = Merge(contact, seen[w], [seen[w] EXCEPT !.status = s], FALSE)
      PROVE  G
  <2> DEFINE new == [seen[w] EXCEPT !.status = s]
  <2>1. new.no = seen[w].no /\ new.status = s
    BY <1>a DEF ContactRow
  <2>2. contact' = Merge(contact, seen[w], new, FALSE)
    BY <1>2
  <2> HIDE DEF new
  <2>3. contact'.no = contact.no /\ contact'.status \in {contact.status, s}
    BY <2>1, <2>2 DEF Merge
  <2> QED BY <1>1, <1>2, <2>3
<1>3. CASE contact' = contact
  BY <1>1, <1>3
<1>4. ASSUME NEW w \in Workers, DeadLetter(w) PROVE G
  <2>1. contact' = contact \/ contact' = Parked(contact)
    BY <1>4 DEF DeadLetter
  <2>2. Parked(contact).no \in {0, contact.no} /\ Parked(contact).status \in {contact.status, "NEEDS_REVIEW"}
    BY <1>a DEF Parked, ContactRow
  <2> QED BY <1>1, <2>1, <2>2
<1>5. ASSUME NEW w \in Workers, Lookup2Down(w) PROVE G
  <2>1. contact' = contact
        \/ contact' = Merge(contact, seen[w], [seen[w] EXCEPT !.status = "COMPLETED_PARTIAL"], FALSE)
    BY <1>5 DEF Lookup2Down
  <2> QED BY <1>2, <1>3, <2>1
<1>6. ASSUME NEW w \in Workers, Gate2(w) \/ Claim(w) PROVE G
  <2> DEFINE new == [status |-> "DIALING", count |-> seen[w].count + 1, due |-> FALSE, no |-> 0]
  <2>1. \/ contact' = contact
        \/ contact' = Merge(contact, seen[w], [seen[w] EXCEPT !.status = "DIALING"], FALSE)
        \/ contact' = Merge(contact, seen[w], new, FALSE)
    BY <1>6 DEF Gate2, Claim, ClaimIfOpen, CommitClaim, pgVars
  <2>2. CASE contact' = Merge(contact, seen[w], new, FALSE)
    <3>1. contact'.no \in {0, contact.no} /\ contact'.status \in {contact.status, "DIALING"}
      BY <2>2 DEF Merge
    <3> QED BY <1>1, <3>1
  <2> QED BY <1>2, <1>3, <2>1, <2>2
<1>7. ASSUME NEW w \in Workers,
             AnswerFailed(w) \/ (Resolve1(w) /\ ans[w].kind \in {"nothing", "down"})
      PROVE  G
  <2>1. pc[w] \in AfterClaim /\ \E amb, reason : RecordFailure(w, amb, reason)
    BY <1>7 DEF AnswerFailed, Resolve1, AfterClaim
  <2>2. CASE job[w].n <= MaxRetries
    <3>1. Retries(job[w].n) /\ job[w].n \in Attempts
      BY <1>7, <1>a, <2>1, <2>2 DEF Retries
    <3> QED BY <1>a, <2>1, <3>1, RecordNumbers DEF G
  <2>3. CASE ~(job[w].n <= MaxRetries)
    <3>1. contact'.no = contact.no /\ contact'.status \in {contact.status, "COMPLETED_PARTIAL"}
      BY <1>a, <2>1, <2>3, RecordNumbers
    <3> QED BY <1>1, <3>1
  <2> QED BY <2>2, <2>3
<1>8. ASSUME NEW w \in Workers, Resolve1(w), ans[w].kind \notin {"nothing", "down"} PROVE G
  BY <1>3, <1>8 DEF Resolve1
<1>9. CASE HookCommit
  <2>1. hook.on /\ hook.n \in Attempts
    BY <1>9 DEF HookCommit, CountInv, FenceInv, TypeOK, OtherTypeOK
  <2>2. CASE hook.n <= MaxRetries
    BY <1>9, <1>a, <2>1, <2>2, HookNumbers DEF G, Retries
  <2>3. CASE ~(hook.n <= MaxRetries)
    BY <1>1, <1>9, <1>a, <2>3, HookNumbers
  <2> QED BY <2>2, <2>3
<1>10. CASE DispatchCommit
  <2> DEFINE off == [disp.seen EXCEPT !.due = FALSE, !.no = 0]
             on == [disp.seen EXCEPT !.due = TRUE]
  <2>1. \/ contact' = Merge(contact, disp.seen, off, FALSE)
        \/ contact' = Merge(contact, disp.seen, on, TRUE)
    BY <1>10 DEF DispatchCommit
  <2>2. /\ off.status = disp.seen.status /\ off.no = 0
        /\ on.status = disp.seen.status /\ on.no = disp.seen.no
    BY <1>a DEF ContactRow
  <2> HIDE DEF off, on
  <2>3. contact'.no \in {0, contact.no} /\ contact'.status = contact.status
    BY <2>1, <2>2 DEF Merge
  <2> QED BY <1>1, <2>3
<1>11. ASSUME NEW s, s # "RETRY_SCHEDULED", contact' = [contact EXCEPT !.status = s] PROVE G
  <2>1. contact'.no = contact.no /\ contact'.status = s
    BY <1>a, <1>11 DEF ContactRow
  <2> QED BY <1>1, <1>11, <2>1
<1>12. CASE Suppress \/ \E n \in Attempts : Sweep(n)
  <2>1. contact' = contact \/ \E s : s # "RETRY_SCHEDULED" /\ contact' = [contact EXCEPT !.status = s]
    BY <1>12 DEF Suppress, Sweep
  <2> QED BY <1>3, <1>11, <2>1
<1>13. ASSUME NEW w \in Workers, EngageHalt(w) \/ AnswerConfig(w) PROVE FALSE
  BY <1>13 DEF EngageHalt, AnswerConfig, CountInv, FenceInv, NoHold
<1>14. ASSUME NEW w \in Workers,
              \/ Read(w) \/ Reclaim(w) \/ CacheExpires(w) \/ WorkerFault(w) \/ Blocked(w)
              \/ PutAside(w) \/ Admit(w) \/ NotAdmitted(w) \/ SettlePaused(w) \/ SettleWindow(w)
              \/ Unguard(w) \/ Ack(w) \/ Load(w) \/ Lookup2(w) \/ Send(w) \/ AnswerOk(w)
              \/ AnswerAmbiguous(w) \/ Lookup1(w)
       PROVE  G
  <2>1. contact' = contact
    BY <1>14 DEF Read, Reclaim, CacheExpires, WorkerFault, Crash, Abandon, RecoverySwallowed, Blocked,
                 PutAside, Admit, NotAdmitted, SettlePaused, SettleWindow, Unguard, Ack, Load,
                 Lookup2, Send, AnswerOk, AnswerAmbiguous, Lookup1, pgVars
  <2> QED BY <1>3, <2>1
<1>15. CASE \/ LeaseExpires \/ DispatchClaim \/ DispatchRetry \/ DispatchDial \/ Rebuild \/ Enqueue
            \/ (\E n \in Attempts : AttemptAges(n)) \/ DispatchAbort \/ DograhStep \/ HookAbort
            \/ (\E n \in Attempts, k \in RunIds : HookLoad(n, k)) \/ UNCHANGED vars
            \/ Pause \/ Resume \/ Complete \/ WindowTurns \/ KillSwitch \/ ReleaseStop
            \/ GuardExpires \/ RedisLoss
  <2>1. contact' = contact
    BY <1>15 DEF LeaseExpires, DispatchClaim, DispatchRetry, DispatchDial, Rebuild, Enqueue,
                 AttemptAges, DispatchAbort, DograhStep, Accept, Refuse, TimeOut, RunEnds, HookAbort,
                 HookLoad, Pause, Resume, Complete, WindowTurns, KillSwitch, ReleaseStop,
                 GuardExpires, RedisLoss, pgVars, vars
  <2> QED BY <1>3, <2>1
<1> QED BY <1>4, <1>5, <1>6, <1>7, <1>8, <1>9, <1>10, <1>12, <1>13, <1>14, <1>15
        DEF Next, WorkerStep, RecoveryStep, HookStep, Environment

\* Who works on an attempt: a worker that did, that opens it, or that finds it open.
LEMMA AtWorkStep ==
  ASSUME CountInv, [Next]_vars, NEW n \in Attempts, AtWork(n)'
  PROVE  \/ AtWork(n)
         \/ \E w \in Workers : Opens(w, n) \/ (Resumes(w) /\ job[w].n = n)
<1>1. PICK w \in Workers : pc'[w] \in AfterClaim /\ job'[w].n = n
  BY DEF AtWork, AfterClaim
<1>2. job[w].n = n /\ (pc[w] \in AfterClaim \/ Opens(w, n) \/ Resumes(w))
  BY <1>1, EnterStep
<1> QED BY <1>2 DEF AtWork, AfterClaim

\* A request or a call of an attempt begins with its opening.
LEMMA AirStep ==
  ASSUME CountInv, [Next]_vars, NEW n \in Attempts, InAir(n)'
  PROVE  InAir(n) \/ \E w \in Workers : Opens(w, n)
<1>a. /\ run \in [Attempts -> [RunIds -> {"none", "live"} \cup AllOutcomes]]
      /\ "live" \notin Outcomes /\ wire \subseteq [n : Attempts, w : Workers]
  BY DialAssumption DEF CountInv, FenceInv, TypeOK, DograhTypeOK, AllOutcomes
<1>1. ASSUME NEW w \in Workers, pc'[w] = "send", job'[w].n = n
      PROVE  InAir(n) \/ Opens(w, n)
  BY <1>1, EnterStep DEF BeforeClaim, AfterClaim, InAir
<1>2. ASSUME NEW r \in wire', r.n = n PROVE InAir(n)
  <2>1. CASE r \in wire
    BY <1>2, <2>1 DEF InAir
  <2>2. ASSUME NEW w \in Workers, Send(w), r \notin wire PROVE InAir(n)
    <3>1. r = [n |-> job[w].n, w |-> w] /\ pc[w] = "send"
      BY <2>2 DEF Send
    <3>2. job[w].n = n
      BY <1>2, <3>1
    <3> QED BY <3>1, <3>2 DEF InAir
  <2>3. CASE Accept \/ Refuse \/ \E m \in Attempts, k \in RunIds : RunEnds(m, k)
    <3>1. wire' \subseteq wire
      BY <2>3 DEF Accept, Refuse, RunEnds
    <3> QED BY <2>1, <3>1
  <2> QED BY <2>1, <2>2, <2>3, CallSteps DEF CountInv, FenceInv
<1>3. ASSUME NEW k \in RunIds, run'[n][k] = "live" PROVE InAir(n)
  <2>1. CASE run[n][k] = "live"
    BY <2>1 DEF InAir
  <2>2. CASE run' = run
    BY <1>3, <2>1, <2>2
  <2>3. CASE Accept
    <3>1. PICK r \in wire, j \in RunIds : run' = [run EXCEPT ![r.n] = [run[r.n] EXCEPT ![j] = "live"]]
      BY <2>3 DEF Accept
    <3>2. CASE r.n = n
      BY <3>2 DEF InAir
    <3>3. CASE r.n # n
      <4>1. run'[n] = run[n]
        BY <1>a, <3>1, <3>3
      <4> QED BY <1>3, <2>1, <4>1
    <3> QED BY <3>2, <3>3
  <2>4. ASSUME NEW m \in Attempts, NEW j \in RunIds, RunEnds(m, j) PROVE InAir(n)
    <3>1. PICK o \in Outcomes : run' = [run EXCEPT ![m] = [run[m] EXCEPT ![j] = o]]
      BY <2>4 DEF RunEnds
    <3>2. run'[n][k] \in {o, run[n][k]}
      BY <1>a, <3>1
    <3> QED BY <1>3, <1>a, <2>1, <3>2
  <2>5. CASE Refuse \/ \E w \in Workers : Send(w)
    BY <2>2, <2>5 DEF Refuse, Send
  <2> QED BY <2>2, <2>3, <2>4, <2>5, CallSteps DEF CountInv, FenceInv
<1> QED BY <1>1, <1>2, <1>3 DEF InAir

\* A call begins with a request, and stays in Dograh's listing.
LEMMA ListedStep ==
  ASSUME CountInv, [Next]_vars, NEW n \in Attempts, NEW k \in RunIds
  PROVE  /\ run'[n][k] # "none" => run[n][k] # "none" \/ \E r \in wire : r.n = n
         /\ run[n][k] \notin {"none", "live"} => run'[n][k] = run[n][k]
<1>a. run \in [Attempts -> [RunIds -> {"none", "live"} \cup AllOutcomes]]
  BY DEF CountInv, FenceInv, TypeOK, DograhTypeOK
<1>1. CASE run' = run
  BY <1>1
<1>2. CASE Accept
  <2>1. PICK r \in wire, j \in RunIds : /\ run[r.n][j] = "none"
                                        /\ run' = [run EXCEPT ![r.n] = [run[r.n] EXCEPT ![j] = "live"]]
    BY <1>2 DEF Accept
  <2>2. CASE r.n = n
    <3>1. k # j => run'[n][k] = run[n][k]
      BY <1>a, <2>1, <2>2
    <3> QED BY <2>1, <2>2, <3>1
  <2>3. CASE r.n # n
    BY <1>a, <2>1, <2>3
  <2> QED BY <2>2, <2>3
<1>3. ASSUME NEW m \in Attempts, NEW j \in RunIds, RunEnds(m, j)
      PROVE  /\ run'[n][k] # "none" => run[n][k] # "none"
             /\ run[n][k] \notin {"none", "live"} => run'[n][k] = run[n][k]
  <2>1. PICK o \in Outcomes : run' = [run EXCEPT ![m] = [run[m] EXCEPT ![j] = o]]
    BY <1>3 DEF RunEnds
  <2>2. run[m][j] = "live"
    BY <1>3 DEF RunEnds
  <2>3. (m = n /\ k = j) \/ run'[n][k] = run[n][k]
    BY <1>a, <2>1
  <2> QED BY <2>2, <2>3
<1>4. CASE Refuse \/ \E w \in Workers : Send(w)
  BY <1>1, <1>4 DEF Refuse, Send
<1> QED BY <1>1, <1>2, <1>3, <1>4, CallSteps DEF CountInv, FenceInv

\* Nothing of an attempt whose call has ended is in the air.
LEMMA QuietAfterEnd ==
  ASSUME FenceInv, CallInv, NEW n \in Attempts, NEW k \in RunIds, run[n][k] \notin {"none", "live"}
  PROVE  ~InAir(n)
<1>1. triggers[n] > 0
  BY DEF CallInv
<1>2. ~\E w \in Workers : pc[w] = "send" /\ job[w].n = n
  BY <1>1 DEF FenceInv, Fence
<1>3. ~\E r \in wire : r.n = n
  BY DEF CallInv
<1>4. ~\E j \in RunIds : run[n][j] = "live"
  BY DEF CallInv
<1> QED BY <1>2, <1>3, <1>4 DEF InAir

-----------------------------------------------------------------------------
\* The types these proofs keep needing.
LEMMA Typed ==
  ASSUME KInv
  PROVE  /\ TypeOK /\ CountInv /\ FenceInv /\ CallInv
         /\ attempt \in [Attempts -> AttemptRow] /\ contact \in ContactRow
         /\ hook.n \in Attempts /\ hook.k \in RunIds /\ hook.k # 0
         /\ \A w \in Workers : job[w].n \in Attempts
         /\ \A n \in Attempts : n \in Nat /\ n >= 1 /\ n + 1 # 1 /\ (n + 1) - 1 = n
  BY DialAssumption DEF KInv, CountInv, FenceInv, TypeOK, PgTypeOK, OtherTypeOK, WorkerTypeOK,
                        Attempts, RunIds

\* A row that exists stays.
LEMMA StaysOpen ==
  ASSUME CountInv, [Next]_vars, NEW n \in Attempts, Exists(n) PROVE Exists(n)'
<1>1. ASSUME NEW w \in Workers, Claims(w) PROVE Exists(n)'
  BY <1>1 DEF Claims, Exists
<1>2. CASE SameRows
  BY <1>2 DEF SameRows, SameStates, Exists
<1> QED BY <1>1, <1>2, RowsStep

\* An attempt's run is never forgotten.
LEMMA RunKept ==
  ASSUME KInv, [Next]_vars, NEW n \in Attempts, attempt[n].run # 0 PROVE attempt'[n].run # 0
<1>1. Alters(n) /\ hook.k # 0
  BY Typed, RowStep
<1>2. ASSUME NEW w \in Workers, Binds(w, n) \/ Reopens(w, n) PROVE attempt'[n].run # 0
  BY <1>2 DEF Binds, Reopens, KInv, Answered
<1>3. ASSUME NEW w \in Workers, Opens(w, n) \/ Fails(w, n) PROVE attempt'[n].run # 0
  BY <1>3 DEF Opens, Fails
<1>4. CASE Still(n) \/ Sweeps(n) \/ Ends(n)
  BY <1>1, <1>4 DEF Still, Sweeps, Ends
<1> QED BY <1>1, <1>2, <1>3, <1>4 DEF Alters

\* The second lookup reopens an attempt that is at rest.
LEMMA ReopensAtRest ==
  ASSUME KInv, NEW w \in Workers, NEW n \in Attempts, Reopens(w, n) PROVE ~AtWork(n)
<1>1. job[w].n = n + 1 /\ (n + 1) # 1 /\ (n + 1) - 1 = n /\ Ready(job[w].n)
  BY Typed DEF Reopens, KInv, Readies
<1> QED BY <1>1 DEF Ready

\* A webhook comes to an attempt by a load, which writes nothing.
LEMMA OnHookStep ==
  ASSUME TypeOK, [Next]_vars, NEW n \in Attempts, OnHook(n)'
  PROVE  \/ OnHook(n) /\ hook' = hook
         \/ /\ \E k \in RunIds : run[n][k] \in Outcomes /\ Acceptable(n, k)
            /\ UNCHANGED <<attempt, run>> /\ ~hook.on
<1>1. CASE hook' = hook
  BY <1>1 DEF OnHook
<1>2. ASSUME NEW m \in Attempts, NEW k \in RunIds, HookLoad(m, k)
      PROVE  /\ \E j \in RunIds : run[n][j] \in Outcomes /\ Acceptable(n, j)
             /\ UNCHANGED <<attempt, run>> /\ ~hook.on
  <2>1. hook'.n = m
    BY <1>2 DEF HookLoad
  <2>2. n = m
    BY <2>1 DEF OnHook
  <2> QED BY <1>2, <2>2 DEF HookLoad, pgVars, dograhVars
<1> QED BY <1>1, <1>2, HookHand DEF OnHook

\* A request is sent by a worker at work.
LEMMA WireStep ==
  ASSUME TypeOK, [Next]_vars, NEW r \in wire' PROVE r \in wire \/ AtWork(r.n)
<1>1. ASSUME NEW w \in Workers, Send(w) PROVE r \in wire \/ AtWork(r.n)
  <2>1. pc[w] = "send" /\ (r \in wire \/ r = [n |-> job[w].n, w |-> w])
    BY <1>1 DEF Send
  <2>2. CASE r = [n |-> job[w].n, w |-> w]
    <3>1. r.n = job[w].n
      BY <2>2
    <3> QED BY <2>1, <3>1 DEF AtWork
  <2> QED BY <2>1, <2>2
<1>2. CASE Accept \/ Refuse \/ \E m \in Attempts, k \in RunIds : RunEnds(m, k)
  BY <1>2 DEF Accept, Refuse, RunEnds
<1> QED BY <1>1, <1>2, CallSteps

\* What is decided stays decided.
LEMMA DecidedKept ==
  ASSUME KInv, [Next]_vars, NEW n \in Attempts, Decided(n) PROVE Decided(n)'
<1>a. TypeOK /\ CountInv /\ FenceInv /\ CallInv /\ hook.n \in Attempts /\ hook.k \in RunIds /\ hook.k # 0
  BY Typed
<1>1. Exists(n)' /\ Alters(n) /\ ~\E w \in Workers : Opens(w, n)
  BY <1>a, StaysOpen, RowStep DEF Decided, Opens, Exists
<1>2. AtWork(n)' => AtWork(n)
  BY <1>1, <1>a, AtWorkStep DEF Decided, Resumes, Ended, Terminal
<1>3. InAir(n)' => InAir(n)
  BY <1>1, <1>a, AirStep
<1>4. CASE AtWork(n)
  <2>1. Ended(n) /\ attempt[n].run # 0 /\ ~InAir(n) /\ ~OnHook(n)
    BY <1>4 DEF Decided, KInv, Apart
  <2>2. attempt'[n].run # 0
    BY <2>1, RunKept
  <2>3. Ended(n)'
    <3>1. ~\E w \in Workers : Reopens(w, n)
      BY <1>4, ReopensAtRest
    <3>2. ASSUME NEW w \in Workers, Binds(w, n) \/ Fails(w, n) PROVE Ended(n)'
      BY <2>1, <3>2 DEF Binds, Fails, Ended, Terminal
    <3>3. CASE Still(n) \/ Sweeps(n) \/ Ends(n)
      BY <2>1, <3>3 DEF Still, Sweeps, Ends, Ended, Terminal
    <3> QED BY <1>1, <3>1, <3>2, <3>3 DEF Alters
  <2>4. ~OnHook(n)'
    BY <1>a, <2>1, OnHookStep DEF Acceptable, Ambiguous, Ended
  <2> QED BY <1>1, <1>3, <2>1, <2>2, <2>3, <2>4 DEF Decided
<1>5. CASE ~AtWork(n)
  <2>1. ~AtWork(n)' /\ ~\E w \in Workers : Binds(w, n) \/ Fails(w, n)
    BY <1>2, <1>5 DEF Binds, Fails, AtWork
  <2>2. CASE Still(n)
    <3>1. /\ Ended(n)' <=> Ended(n)
          /\ Ambiguous(attempt[n])' <=> Ambiguous(attempt[n])
      BY <2>2 DEF Still, Ended, Ambiguous
    <3>2. OnHook(n)' /\ Ended(n) => Ambiguous(attempt[n])
      BY <1>a, OnHookStep DEF Acceptable, Ended, Decided
    <3> QED BY <1>1, <1>3, <2>1, <2>2, <3>1, <3>2 DEF Decided, Still
  <2>3. CASE Sweeps(n)
    <3>1. Ended(n)' /\ Ambiguous(attempt[n])'
      BY <2>3 DEF Sweeps, Ended, Ambiguous, Terminal
    <3> QED BY <1>1, <2>1, <3>1 DEF Decided
  <2>4. CASE Ends(n)
    <3>1. hook.on /\ hook' = NoHook /\ hook.n = n /\ Ended(n)'
      BY <2>4 DEF Ends, HookCommit, Ended
    <3>2. ~InAir(n)
      BY <1>a, <3>1, QuietAfterEnd DEF KInv, Hooked
    <3>3. ~OnHook(n)'
      BY <3>1 DEF OnHook, NoHook
    <3> QED BY <1>1, <1>3, <2>1, <3>1, <3>2, <3>3 DEF Decided
  <2>5. ASSUME NEW w \in Workers, Reopens(w, n) PROVE Decided(n)'
    <3>1. attempt'[n].state = "INITIATED" /\ attempt'[n].run # 0
      BY <2>5 DEF Reopens, KInv, Answered
    <3> QED BY <1>1, <2>1, <3>1 DEF Decided, Ended, Terminal
  <2> QED BY <1>1, <2>1, <2>2, <2>3, <2>4, <2>5 DEF Alters
<1> QED BY <1>4, <1>5

\* What is closed stays closed, but for the second lookup of its retry.
LEMMA ClosedKept ==
  ASSUME KInv, [Next]_vars, NEW n \in Attempts, Closed(n), \A w \in Workers : ~Reopens(w, n)
  PROVE  Closed(n)'
<1>a. TypeOK /\ CountInv /\ "none" \notin Outcomes
  BY Typed, DialAssumption DEF AllOutcomes
<1>1. Exists(n)' /\ Alters(n) /\ ~\E w \in Workers : Opens(w, n)
  BY <1>a, StaysOpen, RowStep DEF Closed, Opens, Exists
<1>2. ~AtWork(n)'
  BY <1>1, <1>a, AtWorkStep DEF Closed, Resumes, Ended, Terminal
<1>3. ~InAir(n)'
  BY <1>1, <1>a, AirStep DEF Closed
<1>4. Still(n)
  <2>1. ~\E w \in Workers : Binds(w, n) \/ Fails(w, n)
    BY DEF Binds, Fails, AtWork, Closed
  <2>2. ~Sweeps(n) /\ ~Ends(n)
    BY DEF Sweeps, Ends, HookCommit, OnHook, Closed, Ended, Terminal
  <2> QED BY <1>1, <2>1, <2>2 DEF Alters
<1>5. /\ Ended(n)' <=> Ended(n)
      /\ Ambiguous(attempt[n])' <=> Ambiguous(attempt[n])
  BY <1>4 DEF Still, Ended, Ambiguous
<1>6. RunsOf(n) = {} => RunsOf(n)' = {}
  BY <1>a, ListedStep DEF Closed, InAir, RunsOf
<1>7. ~OnHook(n)'
  <2>1. ASSUME NEW k \in RunIds, run[n][k] \in Outcomes PROVE ~Acceptable(n, k)
    BY <1>a, <2>1 DEF Acceptable, Closed, RunsOf, Ended
  <2> QED BY <1>a, <2>1, OnHookStep DEF Closed
<1> QED BY <1>1, <1>2, <1>3, <1>5, <1>6, <1>7 DEF Closed

\* The number before one that is due.
LEMMA BeforeDue ==
  ASSUME NEW c \in Attempts, c # 1 PROVE c - 1 \in Attempts
  BY DialAssumption DEF Attempts

\* A number that is due stays due.
LEMMA DueKept ==
  ASSUME KInv, [Next]_vars, NEW c \in Nat, Due(c) PROVE Due(c)'
<1>1. \A n \in 1..MaxRetries : n \in Attempts
  BY DialAssumption DEF Attempts
<1> QED BY <1>1, DecidedKept DEF Due

\* One that is ready stays ready: nobody comes back to the attempt before.
LEMMA ReadyKept ==
  ASSUME KInv, [Next]_vars, NEW c \in Attempts, Due(c), Ready(c) PROVE Ready(c)'
<1>1. CASE c = 1
  BY <1>1 DEF Ready
<1>2. CASE c # 1
  <2> DEFINE n == c - 1
  <2>1. n \in Attempts /\ Decided(n) /\ ~AtWork(n) /\ \A r \in wire : r.n # n
    BY <1>2, BeforeDue DEF Due, Ready
  <2> HIDE DEF n
  <2>2. TypeOK /\ CountInv
    BY Typed
  <2>3. ~AtWork(n)'
    BY <2>1, <2>2, AtWorkStep DEF Decided, Resumes, Opens, Exists, Ended, Terminal
  <2>4. \A r \in wire' : r.n # n
    BY <2>1, <2>2, WireStep
  <2> QED BY <2>3, <2>4 DEF Ready, n
<1> QED BY <1>1, <1>2

-----------------------------------------------------------------------------
(* The parts of the invariant, one by one. *)

\* An answer with a run names it.
LEMMA AnsweredStep == ASSUME KInv, [Next]_vars PROVE Answered'
<1>a. /\ TypeOK /\ CallInv /\ \A k \in RunIds : k # 0
      /\ \A w \in Workers : job[w].n \in Attempts
  BY Typed, DialAssumption DEF RunIds
<1>1. ASSUME NEW v \in Workers
      PROVE  ans'[v].kind # "many" /\ (ans'[v].kind \in {"ok", "one"} => ans'[v].run # 0)
  <2>1. Heard(v)
    BY <1>a, AnswerStep
  <2>2. CASE ans'[v] = ans[v] \/ ans'[v].kind \in Silent
    BY <2>2 DEF KInv, Answered, Silent
  <2>3. CASE ans'[v].kind = "ok" /\ ans'[v].run \in RunIds
    BY <1>a, <2>3
  <2>4. ASSUME NEW m \in Attempts, ans'[v] = Listing(m)
        PROVE  ans'[v].kind # "many" /\ (ans'[v].kind \in {"ok", "one"} => ans'[v].run # 0)
    BY <1>a, <2>4, ListingTells DEF RunsOf
  <2>5. pc[v] = "lookup2" => job[v].n - 1 \in Attempts
    BY <1>a, BeforeDue DEF KInv, Kinds
  <2> QED BY <1>a, <2>1, <2>2, <2>3, <2>4, <2>5 DEF Heard
<1> QED BY <1>1 DEF Answered

\* A request that is refused was the only one.
LEMMA RefusedRests ==
  ASSUME KInv, NEW n \in Attempts, NEW r \in wire, r.n = n, wire' = wire \ {r},
         UNCHANGED <<run, pc>> \/ (run' = run /\ \A v \in Workers : pc'[v] = "send" => pc[v] = "send"),
         job' = job
  PROVE  ~InAir(n)' /\ RunsOf(n)' = {}
<1>1. FenceInv /\ CallInv /\ TypeOK
  BY Typed
<1>2. /\ triggers[n] > 0 /\ \A k \in RunIds : run[n][k] = "none"
      /\ \A s \in wire : s.n = n => s = r
  BY <1>1 DEF CallInv
<1>3. \A w \in Workers : pc[w] = "send" => job[w].n # n
  BY <1>1, <1>2 DEF FenceInv, Fence
<1> QED BY <1>2, <1>3 DEF InAir, RunsOf

\* An attempt with a row neither starts again to dial nor is listed anew.
LEMMA StaysRefused ==
  ASSUME KInv, [Next]_vars, NEW n \in Attempts, Exists(n), ~InAir(n), RunsOf(n) = {}
  PROVE  ~InAir(n)' /\ RunsOf(n)' = {}
<1>1. CountInv
  BY Typed
<1>2. ~InAir(n)'
  BY <1>1, AirStep DEF Opens, Exists
<1>3. RunsOf(n)' = {}
  BY <1>1, ListedStep DEF RunsOf, InAir
<1> QED BY <1>2, <1>3

\* A refusal is the last word on its request.
LEMMA RefusedStep == ASSUME KInv, [Next]_vars PROVE Refused'
<1>a. TypeOK /\ CountInv /\ \A w \in Workers : job[w].n \in Attempts
  BY Typed
<1>1. ASSUME NEW v \in Workers, pc'[v] = "answer", ans'[v].kind \in {"reject", "permanent"}
      PROVE  ~InAir(job[v].n)' /\ RunsOf(job[v].n)' = {}
  <2>1. AtAnswer(v)
    BY <1>1, <1>a, AnswerStep
  <2>2. job'[v].n = job[v].n
    BY <2>1 DEF AtAnswer
  <2>5. PICK n \in Attempts : n = job[v].n
    BY <1>a
  <2>3. CASE pc[v] = "answer" /\ ans'[v] = ans[v]
    <3>0. Exists(n)
      BY <1>a, <2>3, <2>5 DEF CountInv, InHand, AfterClaim
    <3>1. ~InAir(n) /\ RunsOf(n) = {}
      <4>1. ans[v].kind \in {"reject", "permanent"}
        BY <1>1, <2>3
      <4>2. Refused
        BY DEF KInv
      <4> QED BY <2>3, <2>5, <4>1, <4>2 DEF Refused
    <3>2. ~InAir(n)' /\ RunsOf(n)' = {}
      BY <1>a, <3>0, <3>1, StaysRefused
    <3> QED BY <2>2, <2>5, <3>2 DEF InAir, RunsOf
  <2>4. ASSUME Refuse, NEW r \in wire, r.n = job[v].n, wire' = wire \ {r}
        PROVE  ~InAir(job[v].n)' /\ RunsOf(job[v].n)' = {}
    <3>1. run' = run /\ job' = job /\ pc \in [Workers -> PCs]
      BY <1>a, <2>4 DEF Refuse, TypeOK, WorkerTypeOK
    <3>2. \A u \in Workers : pc'[u] = "send" => pc[u] = "send"
      BY <2>4, <3>1 DEF Refuse, Answer
    <3>3. ~InAir(n)' /\ RunsOf(n)' = {}
      BY <1>a, <2>4, <2>5, <3>1, <3>2, RefusedRests
    <3> QED BY <2>2, <2>5, <3>3 DEF InAir, RunsOf
  <2> QED BY <1>1, <2>1, <2>3, <2>4 DEF AtAnswer
<1> QED BY <1>1 DEF Refused

\* After the second lookup no request of the attempt before can land.
LEMMA UnfoundStep == ASSUME KInv, [Next]_vars PROVE Unfound'
<1>a. /\ TypeOK /\ CountInv /\ CallInv /\ \A w \in Workers : job[w].n \in Attempts
      /\ ans \in [Workers -> [kind : Answers, run : RunIds \cup {0}]]
  BY Typed DEF TypeOK, WorkerTypeOK
<1>1. ASSUME NEW v \in Workers, pc'[v] = "gate2", ans'[v].kind \in {"none", "held"}
      PROVE  RunsOf(job[v].n - 1)' = {}
  <2>1. AtGate2(v)
    BY <1>1, <1>a, AnswerStep
  <2>2. job'[v].n = job[v].n /\ pc[v] \in {"lookup2", "gate2"}
    BY <2>1 DEF AtGate2, Lookup2
  <2>3. job[v].n # 1
    BY <2>2 DEF KInv, Kinds
  <2> DEFINE m == job[v].n - 1
  <2>4. m \in Attempts /\ \A r \in wire : r.n # m
    BY <1>a, <2>3, BeforeDue DEF KInv, Readies, Ready
  <2>5. CASE pc[v] = "gate2" /\ ans'[v] = ans[v]
    <3>1. RunsOf(m) = {}
      BY <1>1, <2>5 DEF KInv, Unfound
    <3> HIDE DEF m
    <3>2. \A k \in RunIds : run'[m][k] = "none"
      BY <1>a, <2>4, <3>1, ListedStep DEF RunsOf
    <3>3. job'[v].n - 1 = m
      BY <2>2 DEF m
    <3> QED BY <3>2, <3>3 DEF RunsOf
  <2>6. CASE Lookup2(v)
    <3>1. run' = run /\ \/ Listing(m).kind = "nothing"
                        \/ ans' = [ans EXCEPT ![v] = Listing(m)]
      BY <2>6 DEF Lookup2, dograhVars
    <3> HIDE DEF m
    <3>2. Listing(m).kind = "nothing"
      BY <1>1, <1>a, <2>4, <3>1, ListingTells
    <3>3. \A k \in RunIds : run'[m][k] = "none"
      BY <1>a, <2>4, <3>1, <3>2, ListingTells DEF RunsOf
    <3>4. job'[v].n - 1 = m
      BY <2>2 DEF m
    <3> QED BY <3>3, <3>4 DEF RunsOf
  <2> QED BY <2>1, <2>5, <2>6 DEF AtGate2
<1> QED BY <1>1 DEF Unfound

\* A webhook comes after the end of its run.
LEMMA HookedStep == ASSUME KInv, [Next]_vars PROVE Hooked'
<1>a. /\ TypeOK /\ CountInv /\ hook.n \in Attempts /\ hook.k \in RunIds
      /\ {"none", "live"} \cap Outcomes = {}
  BY Typed, DialAssumption DEF AllOutcomes
<1>1. ASSUME hook'.on
      PROVE  /\ run'[hook'.n][hook'.k] \notin {"none", "live"}
             /\ hook'.bound => attempt'[hook'.n].run # 0
  <2>1. CASE hook' = hook
    <3>1. /\ run[hook.n][hook.k] \notin {"none", "live"}
          /\ hook.bound => attempt[hook.n].run # 0
      BY <1>1, <2>1 DEF KInv, Hooked
    <3>2. run'[hook.n][hook.k] = run[hook.n][hook.k]
      BY <1>a, <3>1, ListedStep
    <3>3. hook.bound => attempt'[hook.n].run # 0
      BY <1>a, <3>1, RunKept
    <3> QED BY <2>1, <3>1, <3>2, <3>3
  <2>2. ASSUME NEW n \in Attempts, NEW k \in RunIds, HookLoad(n, k)
        PROVE  /\ run'[hook'.n][hook'.k] \notin {"none", "live"}
               /\ hook'.bound => attempt'[hook'.n].run # 0
    <3>1. /\ hook'.n = n /\ hook'.k = k /\ hook'.bound = (attempt[n].run # 0)
          /\ run[n][k] \in Outcomes /\ UNCHANGED <<attempt, run>>
      BY <2>2 DEF HookLoad, pgVars, dograhVars
    <3> QED BY <1>a, <3>1
  <2> QED BY <1>a, <1>1, <2>1, <2>2, HookHand
<1> QED BY <1>1 DEF Hooked

-----------------------------------------------------------------------------
\* The worker of an attempt that leaves it leaves nobody at work.
LEMMA LastAtWork ==
  ASSUME KInv, NEW w \in Workers, pc[w] \in Holding, pc' = [pc EXCEPT ![w] = "ack"], job' = job
  PROVE  ~AtWork(job[w].n)'
<1>a. pc \in [Workers -> PCs] /\ Owns
  BY Typed DEF KInv, TypeOK, WorkerTypeOK
<1>1. ASSUME NEW v \in Workers, pc'[v] \in AfterClaim, job'[v].n = job[w].n PROVE FALSE
  <2>1. v # w /\ pc[v] \in AfterClaim /\ job[v].n = job[w].n
    BY <1>a, <1>1 DEF AfterClaim
  <2>2. lease[job[v].n] = v /\ lease[job[w].n] = w
    BY <1>a, <2>1 DEF Owns, Holding
  <2> QED BY <2>1, <2>2
<1> QED
  <2>1. \A v \in Workers : job'[v].n = job[v].n
    OBVIOUS
  <2>2. ASSUME AtWork(job[w].n)' PROVE FALSE
    BY <1>1, <2>2 DEF AtWork, AfterClaim
  <2> QED BY <2>2

\* A webhook that commits ends its attempt.
LEMMA CommitEnds ==
  ASSUME TypeOK, HookCommit
  PROVE  /\ Ends(hook.n) /\ hook.on /\ hook' = NoHook
<1> DEFINE o == run[hook.n][hook.k]
           r == HookAttempt(attempt[hook.n], o)
<1>a. attempt \in [Attempts -> AttemptRow] /\ hook.n \in Attempts /\ attempt[hook.n] \in AttemptRow
  BY DEF TypeOK, PgTypeOK, OtherTypeOK
<1>1. /\ attempt' = [attempt EXCEPT ![hook.n] = r] /\ hook.on /\ hook' = NoHook
  BY DEF HookCommit
<1>2. /\ r.state = FinalState(o)
      /\ r.run = IF hook.amb \/ ~hook.bound THEN hook.k ELSE attempt[hook.n].run
  BY <1>a DEF HookAttempt, AttemptRow
<1>3. FinalState(o) \in Terminal
  BY DEF FinalState, Terminal
<1> HIDE DEF r, o
<1> QED BY <1>a, <1>1, <1>2, <1>3 DEF Ends

\* After that nothing of the attempt is in the air, on a hook or in doubt.
LEMMA EndsQuietly ==
  ASSUME KInv, [Next]_vars, NEW n \in Attempts, Ends(n)
  PROVE  Exists(n)' /\ Ended(n)' /\ ~InAir(n)' /\ ~OnHook(n)' /\ attempt'[n].run # 0
<1>a. TypeOK /\ CountInv /\ FenceInv /\ CallInv /\ hook.n \in Attempts /\ hook.k \in RunIds /\ hook.k # 0
  BY Typed
<1>1. hook.on /\ hook.n = n /\ hook' = NoHook /\ Ended(n)'
  BY DEF Ends, HookCommit, Ended
<1>2. Exists(n)
  BY <1>a, <1>1 DEF CountInv, InHand
<1>3. ~InAir(n)
  BY <1>a, <1>1, QuietAfterEnd DEF KInv, Hooked
<1>4. ~InAir(n)'
  BY <1>a, <1>2, <1>3, AirStep DEF Opens, Exists
<1>5. ~OnHook(n)'
  BY <1>1 DEF OnHook, NoHook
<1>6. attempt'[n].run # 0
  BY <1>a, <1>1 DEF Ends, KInv, Hooked
<1>7. Exists(n)'
  BY <1>a, <1>2, StaysOpen
<1> QED BY <1>1, <1>4, <1>5, <1>6, <1>7

\* A run is known only to the worker that asked, or through a webhook.
LEMMA ApartStep == ASSUME KInv, [Next]_vars PROVE Apart'
<1>a. TypeOK /\ CountInv
  BY Typed
<1>1. ASSUME NEW n \in Attempts, AtWork(n)', attempt'[n].run # 0
      PROVE  Ended(n)' /\ ~InAir(n)' /\ ~OnHook(n)'
  <2>1. ASSUME NEW w \in Workers, Opens(w, n) PROVE FALSE
    BY <1>1, <2>1 DEF Opens, KInv, Clean
  <2>2. ASSUME NEW w \in Workers, Resumes(w), job[w].n = n PROVE FALSE
    BY <1>1, <2>2 DEF Resumes, Load, pgVars
  <2>3. AtWork(n)
    BY <1>1, <1>a, <2>1, <2>2, AtWorkStep
  <2>4. CASE Still(n)
    <3>1. Ended(n) /\ ~InAir(n) /\ ~OnHook(n) /\ attempt[n].run # 0
      BY <1>1, <2>3, <2>4 DEF Still, KInv, Apart
    <3>2. Ended(n)'
      BY <2>4, <3>1 DEF Still, Ended
    <3>3. ~InAir(n)'
      BY <1>a, <2>1, <3>1, AirStep
    <3>4. ~OnHook(n)'
      BY <1>a, <3>1, OnHookStep DEF Acceptable, Ambiguous, Ended
    <3> QED BY <3>2, <3>3, <3>4
  <2>5. CASE Sweeps(n)
    BY <1>1, <2>5 DEF Sweeps
  <2>6. CASE Ends(n)
    BY <2>6, EndsQuietly
  <2>7. ASSUME NEW w \in Workers, Binds(w, n) \/ Fails(w, n) PROVE FALSE
    <3>1. /\ job[w].n = n /\ pc[w] \in Holding /\ pc' = [pc EXCEPT ![w] = "ack"] /\ job' = job
      BY <2>7 DEF Binds, Fails, Holding, AfterClaim
    <3>2. ~AtWork(job[w].n)'
      BY <3>1, LastAtWork
    <3>3. job'[w].n = n
      BY <3>1
    <3> QED BY <1>1, <3>1, <3>2, <3>3 DEF AtWork
  <2>8. ASSUME NEW w \in Workers, Reopens(w, n) PROVE FALSE
    BY <2>3, <2>8, ReopensAtRest
  <2> QED BY <1>a, <2>1, <2>4, <2>5, <2>6, <2>7, <2>8, RowStep DEF Alters
<1> QED BY <1>1 DEF Apart

\* Where recovery is asked, it is about the last attempt, and that is decided.
LEMMA RetriesLast ==
  ASSUME KInv, NEW n \in Attempts, Exists(n), AtWork(n) \/ OnHook(n)
  PROVE  n = contact.count
<1>1. /\ contact.count \in Nat /\ n \in Nat /\ n >= 1 /\ n <= contact.count
      /\ contact.count <= MaxRetries + 2 /\ MaxRetries \in Nat
      /\ \A m \in Attempts : Exists(m) <=> m <= contact.count
  BY Typed, DialAssumption DEF CountInv, Counted, ContactRow
<1>2. CASE n < contact.count
  <2>1. n + 1 <= contact.count /\ n + 1 \in Attempts /\ n + 1 # 1 /\ (n + 1) - 1 = n
    BY <1>1, <1>2 DEF Attempts
  <2>2. Closed(n)
    BY <1>1, <2>1 DEF KInv, Followed
  <2> QED BY <2>2 DEF Closed
<1> QED BY <1>1, <1>2

\* A failure that a worker records leaves a retry to whom it concerns.
LEMMA FailureDecides ==
  ASSUME KInv, [Next]_vars, NEW n \in Attempts, NEW w \in Workers, job[w].n = n,
         pc[w] \in AfterClaim,
         AnswerFailed(w) \/ (Resolve1(w) /\ ans[w].kind \in {"nothing", "down"})
  PROVE  Decided(n)'
<1>a. TypeOK /\ CountInv /\ attempt \in [Attempts -> AttemptRow] /\ attempt[n] \in AttemptRow
  BY Typed
<1>1. PICK amb \in BOOLEAN :
        /\ attempt' = FailedAttempt(n, amb) /\ Goto(w, "ack") /\ UNCHANGED <<job, run, wire, hook>>
        /\ \/ pc[w] = "answer" /\ ans[w].kind \in {"reject", "permanent"}
           \/ amb = TRUE
  <2>1. CASE AnswerFailed(w)
    <3>1. pc[w] = "answer" /\ ans[w].kind \in {"reject", "permanent"}
          /\ \E reason : RecordFailure(w, FALSE, reason)
      BY <2>1 DEF AnswerFailed
    <3> QED BY <3>1 DEF RecordFailure, dograhVars, otherVars
  <2>2. CASE Resolve1(w) /\ ans[w].kind \in {"nothing", "down"}
    <3>1. RecordFailure(w, TRUE, "provider")
      BY <2>2 DEF Resolve1
    <3> QED BY <3>1 DEF RecordFailure, dograhVars, otherVars
  <2> QED BY <2>1, <2>2
<1> DEFINE r == [attempt[n] EXCEPT !.state = "FAILED_TO_CONNECT", !.provErr = TRUE,
                                   !.amb = attempt[n].amb \/ amb, !.held = FALSE]
<1>2. attempt' = [attempt EXCEPT ![n] = r]
  BY <1>1 DEF FailedAttempt
<1>3. /\ r.state = "FAILED_TO_CONNECT" /\ r.run = attempt[n].run
      /\ amb = TRUE => r.amb = TRUE
  BY <1>a DEF AttemptRow
<1> HIDE DEF r
<1>4. attempt'[n] = r
  BY <1>a, <1>2
<1>5. Exists(n)' /\ Ended(n)'
  BY <1>3, <1>4 DEF Exists, Ended, Terminal
<1>6. AtWork(n) /\ Exists(n)
  BY <1>a DEF AtWork, AfterClaim, CountInv, InHand
<1>7. ~AtWork(n)'
  <2>1. ~AtWork(job[w].n)'
    BY <1>1, LastAtWork DEF Goto, Holding
  <2>2. job'[w].n = n
    BY <1>1
  <2> QED BY <2>1, <2>2 DEF AtWork
<1>8. InAir(n)' => InAir(n)
  BY <1>a, <1>6, AirStep DEF Opens, Exists
<1>9. OnHook(n)' => OnHook(n)
  BY <1>1 DEF OnHook
<1>10. CASE pc[w] = "answer" /\ ans[w].kind \in {"reject", "permanent"}
  <2>1. ~InAir(n) /\ RunsOf(n) = {}
    BY <1>10 DEF KInv, Refused
  <2>2. ~OnHook(n)
    BY <2>1, Typed DEF OnHook, KInv, Hooked, RunsOf
  <2> QED BY <1>5, <1>7, <1>8, <1>9, <2>1, <2>2 DEF Decided
<1>11. CASE amb = TRUE
  <2>1. CASE attempt[n].run = 0
    <3>1. Ambiguous(attempt[n])'
      BY <1>3, <1>4, <1>11, <2>1 DEF Ambiguous
    <3> QED BY <1>5, <1>7, <3>1 DEF Decided
  <2>2. CASE attempt[n].run # 0
    <3>1. ~InAir(n) /\ ~OnHook(n)
      BY <1>6, <2>2 DEF KInv, Apart
    <3> QED BY <1>5, <1>7, <1>8, <1>9, <3>1 DEF Decided
  <2> QED BY <2>1, <2>2
<1> QED BY <1>1, <1>10, <1>11

\* A retry is promised for the last attempt, when its outcome is decided.
LEMMA RetriesDecides ==
  ASSUME KInv, [Next]_vars, NEW n \in Attempts, Retries(n)
  PROVE  Decided(n)' /\ n = contact.count /\ n \in 1..MaxRetries
<1>a. TypeOK /\ CountInv /\ hook.n \in Attempts
  BY Typed
<1>1. n \in 1..MaxRetries
  BY DialAssumption DEF Retries, Attempts
<1>2. CASE hook.on /\ hook.n = n /\ HookCommit
  <2>1. Ends(n)
    BY <1>a, <1>2, CommitEnds
  <2>2. Decided(n)'
    BY <2>1, EndsQuietly DEF Decided
  <2>3. Exists(n) /\ OnHook(n)
    BY <1>a, <1>2 DEF CountInv, InHand, OnHook
  <2> QED BY <1>1, <2>2, <2>3, RetriesLast
<1>3. ASSUME NEW w \in Workers, job[w].n = n, pc[w] \in AfterClaim,
             AnswerFailed(w) \/ (Resolve1(w) /\ ans[w].kind \in {"nothing", "down"})
      PROVE  Decided(n)' /\ n = contact.count
  <2>1. Decided(n)'
    BY <1>3, FailureDecides
  <2>2. Exists(n) /\ AtWork(n)
    BY <1>a, <1>3 DEF CountInv, InHand, AtWork, AfterClaim
  <2> QED BY <2>1, <2>2, RetriesLast
<1> QED BY <1>1, <1>2, <1>3 DEF Retries

-----------------------------------------------------------------------------
\* A row that appears is opened by a worker.
LEMMA ClaimOpens ==
  ASSUME KInv, [Next]_vars, NEW n \in Attempts, ~Exists(n), Exists(n)'
  PROVE  \E w \in Workers : Opens(w, n)
<1>a. TypeOK /\ CountInv /\ \A w \in Workers : job[w].n \in Attempts
  BY Typed
<1>1. Alters(n)
  BY <1>a, RowStep
<1>2. ~Still(n) /\ ~Sweeps(n)
  BY DEF Still, Sweeps, Exists
<1>3. ~Ends(n)
  BY <1>a DEF Ends, HookCommit, CountInv, InHand
<1>4. ASSUME NEW w \in Workers, Binds(w, n) \/ Fails(w, n) PROVE FALSE
  BY <1>4, <1>a DEF Binds, Fails, CountInv, InHand, AfterClaim
<1>5. ASSUME NEW w \in Workers, Reopens(w, n) PROVE FALSE
  BY <1>5, Typed DEF Reopens, StillUnresolved, Exists
<1> QED BY <1>1, <1>2, <1>3, <1>4, <1>5 DEF Alters

\* Recovery's decision leaves the count alone.
LEMMA RetriesCount ==
  ASSUME TypeOK, NEW n \in Attempts, Retries(n) PROVE contact'.count = contact.count
<1>1. ASSUME NEW w \in Workers,
             AnswerFailed(w) \/ (Resolve1(w) /\ ans[w].kind \in {"nothing", "down"})
      PROVE  contact'.count = contact.count
  <2>1. \E amb, reason : RecordFailure(w, amb, reason)
    BY <1>1 DEF AnswerFailed, Resolve1
  <2> QED BY <2>1, RecordNumbers
<1> QED BY <1>1, HookNumbers DEF Retries

\* The latest attempt is the number of attempts.
LEMMA LatestIsCount == ASSUME CountInv PROVE Latest = contact.count
<1> DEFINE P(n) == /\ n = 0 \/ attempt[n].state # "none"
                   /\ \A m \in Attempts : attempt[m].state # "none" => m <= n
<1>a. contact \in ContactRow /\ contact.count \in Nat
  BY DEF CountInv, FenceInv, TypeOK, PgTypeOK, ContactRow
<1>1. contact.count \in Attempts \cup {0}
  BY <1>a, DialAssumption DEF CountInv, Counted, Attempts
<1>2. P(contact.count)
  BY <1>a, <1>1 DEF CountInv, Counted, Exists
<1>3. Latest \in Attempts \cup {0} /\ P(Latest)
  BY <1>1, <1>2 DEF Latest
<1>4. Latest \in Nat /\ \A m \in Attempts : m \in Nat /\ m >= 1
  BY <1>3, DialAssumption DEF Attempts
<1>5. Latest <= contact.count
  BY <1>a, <1>2, <1>3, <1>4
<1>6. contact.count <= Latest
  BY <1>a, <1>1, <1>2, <1>3, <1>4
<1> QED BY <1>a, <1>4, <1>5, <1>6

\* A number that was due, or that recovery promises, is due.
LEMMA DueNow ==
  ASSUME KInv, [Next]_vars, NEW c \in Nat,
         c = 1 \/ Due(c) \/ \E n \in Attempts : Retries(n) /\ c = n + 1
  PROVE  Due(c)'
<1>1. CASE c = 1
  BY <1>1 DEF Due
<1>2. ASSUME NEW n \in Attempts, Retries(n), c = n + 1 PROVE Due(c)'
  <2>1. Decided(n)' /\ n \in 1..MaxRetries /\ c - 1 = n
    BY <1>2, Typed, RetriesDecides
  <2> QED BY <2>1 DEF Due
<1> QED BY <1>1, <1>2, DueKept

\* The status RETRY_SCHEDULED promises the number after the last.
LEMMA PromisedStep ==
  ASSUME KInv, [Next]_vars, contact'.status = "RETRY_SCHEDULED"
  PROVE  contact'.count # 0 /\ Due(contact.count + 1)'
<1>a. /\ TypeOK /\ CountInv /\ contact \in ContactRow /\ contact.count \in Nat
      /\ \A w \in Workers : job[w].n \in Attempts
      /\ \A n \in Attempts : n \in Nat /\ n >= 1
  BY Typed DEF ContactRow
<1>1. ASSUME NEW n \in Attempts, Retries(n)
      PROVE  contact'.count # 0 /\ Due(contact.count + 1)'
  <2>1. contact'.count = n /\ n # 0 /\ n + 1 \in Nat
    BY <1>1, <1>a, RetriesDecides, RetriesCount
  <2>2. PICK c \in Nat : c = n + 1
    BY <2>1
  <2>3. Due(c)'
    BY <1>1, <1>a, <2>2, DueNow
  <2> QED BY <2>1, <2>2, <2>3
<1>2. CASE contact.status = "RETRY_SCHEDULED" /\ contact'.count = contact.count
  <2>1. contact.count # 0 /\ Due(contact.count + 1) /\ contact.count + 1 \in Nat
    BY <1>a, <1>2 DEF KInv, Dues
  <2>2. PICK c \in Nat : c = contact.count + 1
    BY <2>1
  <2>3. Due(c)'
    BY <2>1, <2>2, DueNow
  <2> QED BY <1>2, <2>1, <2>2, <2>3
<1>3. ASSUME NEW w \in Workers, Claims(w), contact.status = "RETRY_SCHEDULED" PROVE FALSE
  <2>1. PICK n \in Attempts : n = job[w].n
    BY <1>a
  <2>2. ~Exists(n) /\ Exists(n)'
    BY <1>3, <2>1 DEF Claims, Exists
  <2>3. PICK v \in Workers : Opens(v, n)
    BY <2>2, ClaimOpens
  <2>4. seen[v].status = "DIALING" /\ pc[v] \in BeforeClaim /\ job[v].n = n
    BY <2>3 DEF Opens, BeforeClaim
  <2>5. pc[v] # "claim" /\ attempt[n - 1].run # 0
    BY <1>3, <2>4 DEF KInv, Renewed
  <2> QED BY <2>3, <2>5 DEF Opens, StillUnresolved
<1> QED BY <1>a, <1>1, <1>2, <1>3, PromiseStep, RowsStep DEF SameRows

\* The numbers in row, schedule, stream and hands stay due.
LEMMA DuesStep ==
  ASSUME "webhookAbort" \notin Env, KInv, [Next]_vars PROVE Dues'
<1>a. /\ TypeOK /\ TypeOK' /\ CountInv /\ Dues
      /\ \A w \in Workers : job[w].n \in Attempts
      /\ disp.e.n \in Attempts /\ disp'.e.n \in Attempts
      /\ \A e \in sched' : e.n \in Attempts
      /\ contact \in ContactRow /\ contact' \in ContactRow
  BY Typed, NextType DEF KInv, TypeOK, PgTypeOK, OtherTypeOK, RedisTypeOK, Entry
<1>b. /\ \A n \in Attempts : n \in Nat
      /\ \A s \in Slots : stream'[s].n \in Attempts
      /\ \A w \in Workers : job'[w].n \in Attempts
      /\ contact.no \in Nat /\ contact'.no \in Nat
  BY <1>a, Typed DEF TypeOK, RedisTypeOK, Message, WorkerTypeOK, ContactRow
<1>1. contact'.no # 0 => Due(contact.no)'
  <2>1. ASSUME contact'.no # 0 PROVE Due(contact.no)'
    <3>1. Due(contact'.no) \/ \E n \in Attempts : Retries(n) /\ contact'.no = n + 1
      BY <1>a, <2>1, PromiseStep DEF Dues
    <3>2. PICK c \in Nat : c = contact'.no
      BY <1>b
    <3>3. Due(c)'
      BY <3>1, <3>2, DueNow
    <3> QED BY <3>2, <3>3
  <2> QED BY <2>1
<1>2. contact'.status = "RETRY_SCHEDULED" => contact'.count # 0 /\ Due(contact.count + 1)'
  BY PromisedStep
<1>3. ASSUME NEW e \in sched' PROVE Due(e.n)'
  <2>1. e.n \in Nat
    BY <1>a, <1>b
  <2>2. CASE e \in sched \/ e = disp.e
    BY <1>a, <2>1, <2>2, DueNow DEF Dues
  <2>3. CASE e = [n |-> 1, kind |-> "dial"]
    <3>1. e.n = 1
      BY <2>3
    <3> QED BY <2>1, <3>1, DueNow
  <2>4. ASSUME NEW w \in Workers, e = [n |-> job[w].n, kind |-> "moved"] PROVE Due(e.n)'
    <3>1. e.n = job[w].n
      BY <2>4
    <3> QED BY <1>a, <2>1, <3>1, DueNow DEF Dues
  <2>5. CASE NewRetry(e)
    <3>1. CASE \E n \in Attempts : Retries(n) /\ e.n = n + 1
      BY <2>1, <3>1, DueNow
    <3>2. ~HookAbort
      BY DEF HookAbort, Fault, May
    <3>3. CASE Rebuild /\ e.n = RebuiltNumber
      <4>1. contact.status = "RETRY_SCHEDULED"
        BY <3>3 DEF Rebuild, RetryRebuildable
      <4>2. Due(RebuiltNumber)
        BY <1>a, <4>1, LatestIsCount DEF RebuiltNumber, Dues
      <4> QED BY <2>1, <3>3, <4>2, DueNow
    <3> QED BY <2>5, <3>1, <3>2, <3>3 DEF NewRetry
  <2> QED BY <1>a, <2>2, <2>3, <2>4, <2>5, SchedStep
<1>4. Due(disp.e.n)'
  <2>1. PICK c \in Nat : c = disp'.e.n
    BY <1>a, <1>b
  <2>2. c = 1 \/ Due(c)
    BY <1>a, <2>1, DispNumber DEF Dues
  <2>3. Due(c)'
    BY <2>2, DueNow
  <2> QED BY <2>1, <2>3
<1>5. ASSUME NEW s \in Slots PROVE Due(stream[s].n)'
  <2>1. PICK c \in Nat : c = stream'[s].n
    BY <1>b
  <2>2. c = 1 \/ Due(c)
    BY <1>a, <2>1, StreamNumbers DEF Dues
  <2>3. Due(c)'
    BY <2>2, DueNow
  <2> QED BY <2>1, <2>3
<1>6. ASSUME NEW w \in Workers PROVE Due(job[w].n)'
  <2>1. PICK c \in Nat : c = job'[w].n
    BY <1>b
  <2>2. c = 1 \/ Due(c)
    BY <1>a, <2>1, JobNumbers DEF Dues
  <2>3. Due(c)'
    BY <2>2, DueNow
  <2> QED BY <2>1, <2>3
<1> QED BY <1>1, <1>2, <1>3, <1>4, <1>5, <1>6 DEF Dues

\* The dispatcher hands out a number when the attempt before is at rest.
LEMMA ClaimedIsReady ==
  ASSUME "lateLanding" \notin Env, KInv, DispatchClaim
  PROVE  \E e \in sched : disp'.e = e /\ Ready(e.n)
<1>1. PICK e \in sched : (e.kind # "dial" => Rested(e.n - 1)) /\ disp'.e = e
  BY DEF DispatchClaim
<1>2. CASE e.n = 1
  BY <1>1, <1>2 DEF Ready
<1>3. CASE e.n # 1
  <2>1. Rested(e.n - 1)
    BY <1>1, <1>3 DEF KInv, Kinds
  <2>2. Decided(e.n - 1)
    BY <1>3 DEF KInv, Dues, Due
  <2>3. ~AtWork(e.n - 1)
    BY <2>1, <2>2 DEF Rested, May, Decided, Ended, Terminal
  <2>4. \A r \in wire : r.n # e.n - 1
    BY <2>1 DEF Rested, Landed, May
  <2> QED BY <1>1, <2>3, <2>4 DEF Ready
<1> QED BY <1>2, <1>3

\* The dispatcher takes an entry when it is ready.
LEMMA ReadiesStep ==
  ASSUME "lateLanding" \notin Env, KInv, [Next]_vars PROVE Readies'
<1>a. /\ TypeOK /\ TypeOK' /\ CountInv /\ Dues /\ Readies
      /\ \A w \in Workers : job[w].n \in Attempts
      /\ disp.e.n \in Attempts /\ disp'.e.n \in Attempts
      /\ \A s \in Slots : stream'[s].n \in Attempts
      /\ \A w \in Workers : job'[w].n \in Attempts
  BY Typed, NextType DEF KInv, TypeOK, OtherTypeOK, RedisTypeOK, Entry, Message, WorkerTypeOK
<1>n. ASSUME NEW c \in Attempts, c = 1 \/ (Due(c) /\ Ready(c)) PROVE Ready(c)'
  <2>1. CASE c = 1
    BY <2>1 DEF Ready
  <2> QED BY <1>n, <2>1, ReadyKept
<1>1. Ready(disp.e.n)'
  <2>1. PICK c \in Attempts : c = disp'.e.n
    BY <1>a
  <2>2. CASE disp' = NoDispatch
    BY <1>n, <2>1, <2>2 DEF NoDispatch, NoEntry
  <2>3. CASE DispatchClaim
    <3>1. c = 1 \/ (Due(c) /\ Ready(c))
      BY <1>a, <2>1, <2>3, ClaimedIsReady DEF Dues
    <3> QED BY <1>n, <2>1, <3>1
  <2>4. CASE disp'.e = disp.e
    <3>1. Due(c) /\ Ready(c)
      BY <1>a, <2>1, <2>4 DEF Dues, Readies
    <3> QED BY <1>n, <2>1, <3>1
  <2> QED BY <1>a, <2>2, <2>3, <2>4, DispStep
<1>2. ASSUME NEW s \in Slots PROVE Ready(stream[s].n)'
  <2>1. PICK c \in Attempts : c = stream'[s].n
    BY <1>a
  <2>2. c = 1 \/ (Due(c) /\ Ready(c))
    BY <1>a, <2>1, StreamNumbers DEF Dues, Readies
  <2>3. Ready(c)'
    BY <1>n, <2>2
  <2> QED BY <2>1, <2>3
<1>3. ASSUME NEW w \in Workers PROVE Ready(job[w].n)'
  <2>1. PICK c \in Attempts : c = job'[w].n
    BY <1>a
  <2>2. c = 1 \/ (Due(c) /\ Ready(c))
    BY <1>a, <2>1, JobNumbers DEF Dues, Readies
  <2>3. Ready(c)'
    BY <1>n, <2>2
  <2> QED BY <2>1, <2>3
<1> QED BY <1>1, <1>2, <1>3 DEF Readies

-----------------------------------------------------------------------------
\* Two workers are never at one attempt between its lease and its last write.
LEMMA OneOwner ==
  ASSUME Owns, NEW v \in Workers, NEW w \in Workers, pc[v] \in Holding, pc[w] \in Holding,
         job[v].n = job[w].n
  PROVE  v = w
<1>1. lease[job[v].n] = v /\ lease[job[w].n] = w
  BY DEF Owns
<1> QED BY <1>1

\* An attempt that its retry's second lookup does not reopen is closed when the
\* retry is opened.
LEMMA UnfoundIsClosed ==
  ASSUME KInv, NEW w \in Workers, NEW m \in Attempts, job[w].n = m + 1,
         pc[w] = "gate2", StillUnresolved(m + 1), ans[w].kind \in {"none", "held"}
  PROVE  Closed(m)
<1>a. m + 1 # 1 /\ (m + 1) - 1 = m
  BY Typed
<1>1. Exists(m) /\ Ended(m)
  BY <1>a DEF StillUnresolved, Exists, Ended, Terminal
<1>2. RunsOf(m) = {}
  BY <1>a DEF KInv, Unfound
<1>3. ~AtWork(m) /\ \A r \in wire : r.n # m
  BY <1>a DEF KInv, Readies, Ready
<1>4. ~InAir(m)
  BY <1>2, <1>3 DEF InAir, AtWork, RunsOf
<1>5. ~OnHook(m)
  BY <1>2, Typed DEF OnHook, KInv, Hooked, RunsOf
<1> QED BY <1>1, <1>2, <1>3, <1>4, <1>5 DEF Closed

\* A row is opened after the one before it is closed.
LEMMA FollowedStep == ASSUME KInv, [Next]_vars PROVE Followed'
<1>a. TypeOK /\ CountInv /\ pc \in [Workers -> PCs]
  BY Typed DEF TypeOK, WorkerTypeOK
<1>1. ASSUME NEW n \in Attempts, Exists(n)', n # 1 PROVE Closed(n - 1)'
  <2>1. PICK m \in Attempts : m = n - 1 /\ n = m + 1
    BY <1>1, BeforeDue, DialAssumption DEF Attempts
  <2>2. CASE Exists(n)
    <3>1. Closed(m)
      BY <1>1, <2>1, <2>2 DEF KInv, Followed
    <3>2. \A w \in Workers : ~Reopens(w, m)
      BY <2>1, <2>2 DEF Reopens, StillUnresolved, Exists
    <3>3. Closed(m)'
      BY <3>1, <3>2, ClosedKept
    <3> QED BY <2>1, <3>3
  <2>3. CASE ~Exists(n)
    <3>1. PICK w \in Workers : Opens(w, n)
      BY <1>1, <2>3, ClaimOpens
    <3>2. job[w].n = n /\ pc' = [pc EXCEPT ![w] = "send"]
      BY <3>1 DEF Opens
    <3>3. Closed(m)
      <4>1. CASE pc[w] = "claim"
        BY <1>1, <2>1, <3>2, <4>1 DEF KInv, Closing
      <4>2. CASE pc[w] = "gate2" /\ StillUnresolved(n) /\ ans[w].kind \in {"none", "held"}
        BY <2>1, <3>2, <4>2, UnfoundIsClosed
      <4> QED BY <3>1, <4>1, <4>2 DEF Opens
    <3>4. ASSUME NEW v \in Workers, Reopens(v, m) PROVE FALSE
      <4>1. pc[v] = "gate2" /\ pc' = [pc EXCEPT ![v] = "ack"] /\ pc[w] \in {"claim", "gate2"}
        BY <3>1, <3>4 DEF Opens, Reopens
      <4>2. pc'[w] = "send" /\ pc'[w] \in {"ack", pc[w]}
        BY <1>a, <3>2, <4>1
      <4> QED BY <4>1, <4>2
    <3>5. Closed(m)'
      BY <3>3, <3>4, ClosedKept
    <3> QED BY <2>1, <3>5
  <2> QED BY <2>2, <2>3
<1> QED BY <1>1 DEF Followed

\* A worker comes to its claim past the lookup that closes the attempt before.
LEMMA ClosingStep == ASSUME KInv, [Next]_vars PROVE Closing'
<1>a. /\ TypeOK /\ CountInv /\ attempt \in [Attempts -> AttemptRow]
      /\ \A w \in Workers : job[w].n \in Attempts
  BY Typed
<1>1. ASSUME NEW v \in Workers, pc'[v] = "claim", job'[v].n # 1 PROVE Closed(job[v].n - 1)'
  <2>1. job'[v].n = job[v].n /\ (pc[v] = "claim" \/ (Load(v) /\ Undoubted(job[v].n)))
    BY <1>1, <1>a, EnterStep DEF BeforeClaim
  <2>2. PICK m \in Attempts : m = job[v].n - 1 /\ job[v].n = m + 1
    BY <1>1, <1>a, <2>1, BeforeDue, DialAssumption DEF Attempts
  <2>3. Closed(m)
    <3>1. CASE pc[v] = "claim"
      BY <1>1, <2>1, <2>2, <3>1 DEF KInv, Closing
    <3>2. CASE Load(v) /\ Undoubted(job[v].n)
      <4>1. Exists(m)
        BY <1>1, <1>a, <2>1, <2>2 DEF CountInv, InOrder, Follows
      <4>2. attempt[m].state # "INITIATED" /\ ~Ambiguous(attempt[m])
        BY <1>1, <2>1, <2>2, <3>2, <4>1 DEF Undoubted
      <4>3. Ended(m)
        BY <1>a, <4>1, <4>2 DEF Exists, Ended, Terminal, AttemptRow, AttemptStates
      <4>4. Decided(m) /\ ~AtWork(m)
        BY <1>1, <2>1, <2>2 DEF KInv, Dues, Due, Readies, Ready
      <4>5. ~InAir(m) /\ ~OnHook(m)
        BY <4>2, <4>3, <4>4 DEF Decided
      <4> QED BY <4>1, <4>2, <4>3, <4>4, <4>5 DEF Closed
    <3> QED BY <2>1, <3>1, <3>2
  <2>4. ASSUME NEW u \in Workers, Reopens(u, m) PROVE FALSE
    <3>1. pc[u] = "gate2" /\ job[u].n = job[v].n
      BY <2>2, <2>4 DEF Reopens
    <3>2. pc[v] \in {"claim", "load"}
      BY <2>1 DEF Load
    <3>3. u = v
      BY <3>1, <3>2, OneOwner DEF KInv, Holding, BeforeClaim
    <3> QED BY <3>1, <3>2, <3>3
  <2>5. Closed(m)'
    BY <2>3, <2>4, ClosedKept
  <2>6. job'[v].n - 1 = m
    BY <2>1, <2>2
  <2> QED BY <2>5, <2>6
<1> QED BY <1>1 DEF Closing

\* Recovery's decision disturbs no worker before its claim.
LEMMA RetriesAside ==
  ASSUME TypeOK, NEW m \in Attempts, Retries(m), NEW v \in Workers, pc'[v] \in BeforeClaim
  PROVE  pc'[v] = pc[v] /\ seen'[v] = seen[v] /\ job'[v] = job[v]
<1>1. CASE HookCommit
  BY <1>1 DEF HookCommit, workerVars
<1>2. ASSUME NEW w \in Workers,
             AnswerFailed(w) \/ (Resolve1(w) /\ ans[w].kind \in {"nothing", "down"})
      PROVE  pc'[v] = pc[v] /\ seen'[v] = seen[v] /\ job'[v] = job[v]
  <2>1. Goto(w, "ack") /\ UNCHANGED <<job, seen>>
    BY <1>2 DEF AnswerFailed, Resolve1, RecordFailure
  <2>2. pc'[v] \in {pc[v], "ack"}
    BY <2>1 DEF Goto, TypeOK, WorkerTypeOK
  <2> QED BY <2>1, <2>2 DEF BeforeClaim
<1> QED BY <1>1, <1>2 DEF Retries

\* A worker before its claim has the place of its attempt to itself.
LEMMA StaysUnclaimed ==
  ASSUME KInv, [Next]_vars, NEW v \in Workers, pc'[v] \in BeforeClaim
  PROVE  ~Exists(job[v].n)'
<1>a. /\ TypeOK /\ NoHold /\ CountInv /\ pc \in [Workers -> PCs]
      /\ \A w \in Workers : job[w].n \in Attempts
  BY Typed DEF FenceInv, TypeOK, WorkerTypeOK
<1>1. Hands(v)
  BY <1>a, WorkerHands, OtherHands DEF Next
<1>2. job'[v].n = job[v].n /\ ~Exists(job[v].n)
  BY <1>1 DEF Hands, KInv, Renewed
<1>3. PICK n \in Attempts : n = job[v].n
  BY <1>a
<1>4. ASSUME Exists(n)' PROVE FALSE
  <2>1. PICK w \in Workers : Opens(w, n)
    BY <1>2, <1>3, <1>4, ClaimOpens
  <2>2. /\ job[w].n = n /\ pc[w] \in BeforeClaim /\ pc' = [pc EXCEPT ![w] = "send"]
    BY <2>1 DEF Opens, BeforeClaim
  <2>3. v # w /\ pc[v] \in BeforeClaim
    BY <1>a, <2>2 DEF BeforeClaim
  <2> QED BY <1>3, <2>2, <2>3, OneOwner DEF KInv, Holding
<1> QED BY <1>2, <1>3, <1>4

\* A session that read DIALING does not overwrite a promise made since.
LEMMA RenewedStep == ASSUME KInv, [Next]_vars PROVE Renewed'
<1>a. /\ TypeOK /\ NoHold /\ CountInv /\ pc \in [Workers -> PCs]
      /\ \A w \in Workers : job[w].n \in Attempts
      /\ \A n \in Attempts : n \in Nat /\ n >= 1
  BY Typed DEF FenceInv, TypeOK, WorkerTypeOK
<1>1. ASSUME NEW v \in Workers, pc'[v] \in BeforeClaim,
             seen'[v].status = "DIALING", contact'.status = "RETRY_SCHEDULED"
      PROVE  pc'[v] # "claim" /\ attempt'[job'[v].n - 1].run # 0
  <2> DEFINE n == job[v].n
  <2>1. Hands(v)
    BY <1>a, WorkerHands, OtherHands DEF Next
  <2>2. job'[v].n = n
    BY <1>1, <2>1 DEF Hands
  <2> HIDE DEF n
  <2>3. ASSUME NEW m \in Attempts, Retries(m)
        PROVE  pc'[v] # "claim" /\ attempt'[n - 1].run # 0
    <3>1. pc'[v] = pc[v] /\ pc[v] \in BeforeClaim
      BY <1>a, <1>1, <2>3, RetriesAside
    <3>2. n \in Attempts /\ ~Exists(n) /\ Follows(n)
      BY <1>a, <3>1 DEF n, KInv, Renewed, CountInv, InOrder
    <3>3. m = n - 1 /\ n # 1
      BY <1>a, <2>3, <3>2, CountBefore, RetriesDecides
    <3>4. ~AtWork(m)
      BY <3>3 DEF n, KInv, Readies, Ready
    <3>5. hook.on /\ hook.n = m /\ HookCommit
      BY <2>3, <3>4 DEF Retries, AtWork, AfterClaim
    <3>6. attempt'[m].run # 0
      <4>1. Ends(m)
        BY <1>a, <3>5, CommitEnds
      <4> QED BY <4>1, EndsQuietly
    <3>7. pc[v] # "claim"
      BY <3>3, <3>5 DEF n, KInv, Closing, Closed, OnHook
    <3> QED BY <3>1, <3>3, <3>6, <3>7
  <2>4. CASE contact.status = "RETRY_SCHEDULED"
    <3>1. pc[v] \in BeforeClaim /\ seen'[v] = seen[v]
      BY <1>1, <2>1, <2>4 DEF Hands
    <3>2. pc[v] # "claim" /\ attempt[n - 1].run # 0
      BY <1>1, <2>4, <3>1 DEF n, KInv, Renewed
    <3>3. n \in Attempts /\ n # 1
      BY <1>a, <3>1, <3>2 DEF n, BeforeClaim, KInv, Kinds
    <3>4. attempt'[n - 1].run # 0
      BY <3>2, <3>3, BeforeDue, RunKept
    <3>5. pc'[v] # "claim"
      <4>1. pc[v] # "load"
        BY <3>1 DEF BeforeClaim
      <4> QED BY <1>a, <3>2, <4>1, EnterStep DEF Load
    <3> QED BY <2>2, <3>4, <3>5
  <2>5. contact.status = "RETRY_SCHEDULED" \/ \E m \in Attempts : Retries(m)
    BY <1>a, <1>1, PromiseStep
  <2> QED BY <2>2, <2>3, <2>4, <2>5
<1>2. ASSUME NEW v \in Workers, pc'[v] \in BeforeClaim PROVE ~Exists(job[v].n)'
  BY <1>2, StaysUnclaimed
<1> QED BY <1>1, <1>2 DEF Renewed, BeforeClaim

-----------------------------------------------------------------------------
\* The invariant holds at the start,
LEMMA KInit == ASSUME Init PROVE KInv
<1>1. CountInv
  BY InitFence, CountInit
<1>2. CallInv /\ Clean /\ Kinds
  BY DEF Init, CallInv, Clean, Kinds, NoRow, NewContact, NoDispatch, NoMessage, NoJob
<1>3. /\ pc = [w \in Workers |-> "idle"] /\ ~hook.on
      /\ ans = [w \in Workers |-> NoAnswer] /\ job = [w \in Workers |-> NoJob]
      /\ \A n \in Attempts : ~Exists(n)
  BY DEF Init, NoHook, Exists, NoRow
<1>4. Owns /\ Answered /\ Refused /\ Unfound /\ Hooked
  BY <1>3 DEF Owns, Answered, Refused, Unfound, Hooked, NoAnswer, Holding, BeforeClaim, AfterClaim
<1>5. Apart /\ Followed /\ Closing /\ Renewed
  BY <1>3 DEF Apart, AtWork, Followed, Closing, Renewed, BeforeClaim
<1>6. Dues /\ Readies
  BY <1>3 DEF Init, Dues, Due, Readies, Ready, NewContact, NoDispatch, NoEntry, NoMessage, NoJob
<1> QED BY <1>1, <1>2, <1>4, <1>5, <1>6 DEF KInv

\* and every step keeps it, without the four events.
LEMMA KStep ==
  ASSUME {"config", "redisLoss", "lateLanding", "webhookAbort"} \cap Env = {},
         KInv, [Next]_vars
  PROVE  KInv'
<1>1. CountInv' /\ CallInv' /\ Clean' /\ Kinds' /\ Owns'
  BY Typed, CountStep, CallStep, CleanStep, KindsStep, OwnsStep DEF KInv
<1>2. Answered' /\ Refused' /\ Unfound' /\ Hooked' /\ Apart'
  BY AnsweredStep, RefusedStep, UnfoundStep, HookedStep, ApartStep
<1>3. Dues' /\ Readies'
  BY DuesStep, ReadiesStep
<1>4. Followed' /\ Closing' /\ Renewed'
  BY FollowedStep, ClosingStep, RenewedStep
<1> QED BY <1>1, <1>2, <1>3, <1>4 DEF KInv


-----------------------------------------------------------------------------
Line == {r \in Attempts \X RunIds : run[r[1]][r[2]] = "live"}

\* An attempt before one that was opened is closed.
LEMMA EarlierClosed ==
  ASSUME KInv, NEW m \in Attempts, NEW n \in Attempts, m < n, Exists(n) PROVE Closed(m)
<1>1. /\ n <= contact.count /\ contact.count \in Nat /\ contact.count <= MaxRetries + 2
      /\ n \in Nat /\ m \in Nat /\ m >= 1 /\ MaxRetries \in Nat
  BY Typed, DialAssumption DEF CountInv, Counted, ContactRow
<1>2. m + 1 \in Attempts /\ m + 1 <= contact.count /\ m + 1 # 1 /\ (m + 1) - 1 = m
  BY <1>1 DEF Attempts
<1>3. Exists(m + 1)
  BY <1>2, Typed DEF CountInv, Counted
<1> QED BY <1>2, <1>3 DEF KInv, Followed

\* No attempt of the contact is in the air while another one has a live call.
LEMMA AloneInTheAir ==
  ASSUME KInv, NEW m \in Attempts, NEW j \in RunIds, run[m][j] = "live",
         NEW n \in Attempts, Exists(n), InAir(n)
  PROVE  m = n
<1>1. InAir(m)
  BY DEF InAir
<1>2. Exists(m)
  BY Typed DEF CallInv, FenceInv, Fence, Exists
<1>3. m \in Int /\ n \in Int
  BY Typed
<1>4. ~(m < n) /\ ~(n < m)
  BY <1>1, <1>2, EarlierClosed DEF Closed
<1> QED BY <1>3, <1>4

\* A row that is opened is within the policy.
LEMMA OpenedInPolicy ==
  ASSUME KInv, [Next]_vars, NEW n \in Attempts, ~Exists(n), Exists(n)'
  PROVE  n <= MaxRetries + 1
<1>1. PICK w \in Workers : job[w].n = n
  BY ClaimOpens DEF Opens
<1>2. Due(n) /\ n \in Int /\ MaxRetries \in Int
  BY <1>1, Typed, DialAssumption DEF KInv, Dues
<1> QED BY <1>2, DialAssumption DEF Due

\* Every step is a step of the contract, or none.
LEMMA ContractStep ==
  ASSUME KInv, [Next]_vars PROVE [Contract!ContractNext]_(Contract!contractVars)
<1>a. /\ TypeOK /\ CountInv /\ CallInv /\ FenceInv
      /\ wire \subseteq [n : Attempts, w : Workers]
      /\ run \in [Attempts -> [RunIds -> {"none", "live"} \cup AllOutcomes]]
      /\ \A n \in Attempts : triggers[n] > 0 => Exists(n)
      /\ "live" \notin Outcomes
  BY Typed, DialAssumption
     DEF TypeOK, DograhTypeOK, FenceInv, Fence, Exists, HistoryTypeOK, AllOutcomes
<1>1. CASE UNCHANGED run
  <2>1. InTurn
    BY <1>a, InTurnStep
  <2>2. UNCHANGED Line
    BY <1>1 DEF Line
  <2>3. CASE UNCHANGED <<Opened, triggers>>
    BY <2>2, <2>3 DEF Contract!contractVars, Opened, Line
  <2>4. ASSUME NEW n \in Attempts, n \notin Opened, \A m \in Attempts : m < n => m \in Opened,
               Opened' = Opened \cup {n}, UNCHANGED triggers
        PROVE  Contract!Open(n)
    <3>1. ~Exists(n) /\ Exists(n)'
      BY <2>4 DEF Opened, Exists
    <3>2. n <= MaxRetries + 1
      BY <3>1, OpenedInPolicy
    <3> QED BY <2>2, <2>4, <3>2 DEF Contract!Open, Opened, Line
  <2>5. ASSUME NEW n \in Attempts, n \in Opened, triggers[n] = 0,
               triggers' = [triggers EXCEPT ![n] = 1], UNCHANGED Opened
        PROVE  Contract!Ask(n)
    BY <2>2, <2>5 DEF Contract!Ask, Opened, Line
  <2> QED BY <2>1, <2>3, <2>4, <2>5 DEF InTurn, Contract!ContractNext
<1>2. CASE Accept /\ UNCHANGED <<attempt, triggers>>
  <2>1. PICK r \in wire, k \in RunIds :
          run' = [run EXCEPT ![r.n] = [run[r.n] EXCEPT ![k] = "live"]]
    BY <1>2 DEF Accept
  <2>2. PICK n \in Attempts : n = r.n
    BY <1>a
  <2>3. triggers[n] > 0 /\ Exists(n) /\ InAir(n) /\ \A j \in RunIds : run[n][j] = "none"
    BY <1>a, <2>2 DEF CallInv, InAir
  <2>4. \A m \in Attempts, j \in RunIds : run[m][j] # "live"
    BY <2>3, AloneInTheAir
  <2>5. \A m \in Attempts, j \in RunIds : run'[m][j] = "live" <=> m = n /\ j = k
    BY <1>a, <2>1, <2>2, <2>4
  <2>6. Line = {} /\ Line' = {<<n, k>>}
    BY <2>4, <2>5 DEF Line
  <2>7. Contract!Ring(n, k)
    BY <1>2, <2>3, <2>6 DEF Contract!Ring, Line
  <2> QED BY <2>7 DEF Contract!ContractNext
<1>3. ASSUME NEW n \in Attempts, NEW k \in RunIds, RunEnds(n, k), UNCHANGED <<attempt, triggers>>
      PROVE  Contract!HangUp
  <2>1. PICK o \in Outcomes : run' = [run EXCEPT ![n] = [run[n] EXCEPT ![k] = o]]
    BY <1>3 DEF RunEnds
  <2>2. run[n][k] = "live"
    BY <1>3 DEF RunEnds
  <2>3. Exists(n) /\ InAir(n)
    BY <1>a, <2>2 DEF CallInv, InAir
  <2>4. \A m \in Attempts, j \in RunIds : run[m][j] = "live" => m = n /\ j = k
    BY <1>a, <2>2, <2>3, AloneInTheAir DEF CallInv
  <2>5. \A m \in Attempts, j \in RunIds : run'[m][j] # "live"
    BY <1>a, <2>1, <2>4
  <2>6. <<n, k>> \in Line /\ Line' = {}
    BY <2>2, <2>5 DEF Line
  <2> QED BY <1>3, <2>6 DEF Contract!HangUp, Line
<1>4. CASE Refuse \/ (\E w \in Workers : Send(w)) \/ UNCHANGED <<wire, run, triggers>>
  BY <1>1, <1>4 DEF Refuse, Send
<1> QED BY <1>a, <1>2, <1>3, <1>4, CallSteps DEF Contract!ContractNext

AloneAtWork ==
  \A v, w \in Workers :
    pc[v] \in Holding /\ pc[w] \in Holding /\ job[v].n = job[w].n => v = w

\* Attempt and lease: between taking the lease of an attempt and its last write
\* about it, a worker is alone with it, whatever is delivered twice or reclaimed
\* from a worker that is slow (the slot that process_claimed_job holds around
\* _dial is keyed by the job's idempotency key).
THEOREM OneWorkerPerAttempt == ASSUME "redisLoss" \notin Env PROVE Spec => []AloneAtWork
<1>1. Init => TypeOK /\ Owns
  BY InitType DEF Init, Owns, Holding, BeforeClaim, AfterClaim
<1>2. ASSUME TypeOK, Owns, [Next]_vars PROVE (TypeOK /\ Owns)'
  BY <1>2, NextType, OwnsStep
<1>3. ASSUME TypeOK, Owns
      PROVE  AloneAtWork
  BY <1>3, OneOwner DEF AloneAtWork
<1> QED BY <1>1, <1>2, <1>3, PTL DEF Spec

OneOnTheLine ==
  \A m, n \in Attempts, j, k \in RunIds :
    run[m][j] = "live" /\ run[n][k] = "live" => m = n /\ j = k

\* One call at a time: of all attempts of a contact and all their calls at most
\* one is live, lost answers, late landings of requests within the back-off and
\* runs found by a lookup included (the eligibility gate of process_job and the
\* resolution of an ambiguous previous attempt).
THEOREM OneLiveCall ==
  ASSUME {"config", "redisLoss", "lateLanding", "webhookAbort"} \cap Env = {}
  PROVE  Spec => []OneOnTheLine
<1>1. Init => KInv
  BY KInit
<1>2. ASSUME KInv, [Next]_vars PROVE KInv'
  BY <1>2, KStep
<1>3. ASSUME KInv, NEW m \in Attempts, NEW n \in Attempts, NEW j \in RunIds, NEW k \in RunIds,
             run[m][j] = "live", run[n][k] = "live"
      PROVE  m = n /\ j = k
  <2>1. Exists(n) /\ InAir(n)
    BY <1>3, Typed DEF CallInv, FenceInv, Fence, Exists, InAir
  <2>2. m = n
    BY <1>3, <2>1, AloneInTheAir
  <2> QED BY <1>3, <2>2, Typed DEF CallInv
<1>4. KInv => OneOnTheLine
  BY <1>3 DEF OneOnTheLine
<1> QED BY <1>1, <1>2, <1>4, PTL DEF Spec

\* The person behind a contact is dialed as DialContract promises: every step of
\* workers, dispatcher, sweeper, webhook, recovery and faults opens the next
\* attempt within the policy, asks for an opened one the first time, lets a phone
\* ring while the line is free, ends the call, or does nothing of the kind.
THEOREM ContractKept ==
  ASSUME {"config", "redisLoss", "lateLanding", "webhookAbort"} \cap Env = {}
  PROVE  Spec => KeepsContract
<1>1. Init => KInv
  BY KInit
<1>2. ASSUME KInv, [Next]_vars PROVE KInv'
  BY <1>2, KStep
<1>3. ASSUME KInv, [Next]_vars PROVE [Contract!ContractNext]_(Contract!contractVars)
  BY <1>3, ContractStep
<1>4. Init => Contract!ContractInit
  BY DEF Init, Contract!ContractInit, NoRow
<1> QED BY <1>1, <1>2, <1>3, <1>4, PTL DEF Spec, KeepsContract, Contract!ContractSpec

-----------------------------------------------------------------------------
(***************************************************************************)
(* A contact that is shown as being dialed has an attempt in flight.       *)
(***************************************************************************)

\* Workers with a request of theirs to hear of or to write about.
Awaiting == {"await", "answer", "lookup1", "resolve1"}

\* A session before its claim writes the contact's DIALING itself.
Seeing == \A w \in Workers : pc[w] \in BeforeClaim => seen[w].status # "DIALING"
\* Who is to replace DIALING has read it, the worker
Viewed ==
  contact.status = "DIALING" /\ ~suppressed =>
    \A w \in Workers : pc[w] \in Awaiting => seen[w].status = "DIALING"
\* and the webhook, which otherwise writes it first.
HookViewed ==
  hook.on /\ ~hook.amb /\ ~suppressed /\ (contact.status = "DIALING" \/ ~hook.bound) =>
    hook.seen.status = "DIALING"
\* A claim without a run shows in the contact.
Shown ==
  \A n \in Attempts : attempt[n].state = "INITIATED" /\ attempt[n].run = 0 /\ ~suppressed =>
    contact.status = "DIALING"
\* A retry that was let pass finds its previous attempt as it was.
Unrevived ==
  \A w \in Workers : pc[w] \in {"lookup2", "gate2"} => attempt[job[w].n - 1].state # "INITIATED"

DInv == KInv /\ DialingHasAttempt /\ Seeing /\ Viewed /\ HookViewed /\ Shown /\ Unrevived

-----------------------------------------------------------------------------
\* What a session knows of the contact: before a claim what it loaded, with a
\* request under way what it reloaded for it.
Loads(v) ==
  /\ Load(v) /\ RetryGate(v, job[v].n, "none") /\ ~Exists(job[v].n) /\ Eligible
  /\ pc'[v] \in {"claim", "lookup2"}
SessionStep(v) ==
  /\ pc'[v] \in BeforeClaim =>
       \/ /\ pc[v] \in BeforeClaim /\ seen'[v] = seen[v]
          /\ pc'[v] \in {"lookup2", "gate2"} => pc[v] \in {"lookup2", "gate2"}
       \/ Loads(v)
  /\ pc'[v] \in Awaiting =>
       \/ pc[v] \in Awaiting /\ seen'[v] = seen[v]
       \/ contact' = contact /\ seen'[v] = contact

LEMMA SessionSteps ==
  ASSUME TypeOK, NoHold, [Next]_vars, NEW v \in Workers PROVE SessionStep(v)
<1>a. pc \in [Workers -> PCs] /\ seen \in [Workers -> ContactRow]
  BY DEF TypeOK, WorkerTypeOK
<1>1. CASE UNCHANGED <<pc, seen>>
  BY <1>1 DEF SessionStep
<1>2. ASSUME NEW w \in Workers, NEW label, Goto(w, label), UNCHANGED seen,
             label \notin BeforeClaim, label \in Awaiting => pc[w] \in Awaiting
      PROVE  SessionStep(v)
  BY <1>a, <1>2 DEF Goto, SessionStep
<1>3. ASSUME NEW w \in Workers, ToIdle(w) PROVE SessionStep(v)
  BY <1>a, <1>3 DEF ToIdle, SessionStep, BeforeClaim, Awaiting
<1>4. ASSUME NEW w \in Workers, NEW label, NEW kind, GoOn(w, label, kind), UNCHANGED contact,
             label \notin BeforeClaim
      PROVE  SessionStep(v)
  BY <1>a, <1>4 DEF GoOn, Goto, SessionStep
<1>5. ASSUME NEW w \in Workers, Send(w) PROVE SessionStep(v)
  BY <1>a, <1>5 DEF Send, Goto, SessionStep, BeforeClaim, Awaiting, pgVars
<1>6. ASSUME NEW w \in Workers, Lookup2(w) PROVE SessionStep(v)
  BY <1>a, <1>6 DEF Lookup2, Goto, SessionStep, BeforeClaim, Awaiting
<1>7. ASSUME NEW w \in Workers, Load(w) PROVE SessionStep(v)
  <2>1. UNCHANGED contact /\ UNCHANGED pgVars
    BY <1>7 DEF Load, pgVars
  <2>2. ASSUME ResolveClaim(w, attempt[job[w].n]) PROVE SessionStep(v)
    <3>1. ToIdle(w) \/ \E label \in {"ack", "lookup1"}, kind \in {"none"} : GoOn(w, label, kind)
      BY <2>2 DEF ResolveClaim, Leave
    <3> QED BY <1>3, <1>4, <2>1, <3>1 DEF BeforeClaim
  <2>3. ASSUME RetryGate(w, job[w].n, "none"), ~Exists(job[w].n), Eligible PROVE SessionStep(v)
    <3>1. \E label \in {"ack", "claim", "lookup2"} : GoOn(w, label, "none")
      BY <2>3 DEF RetryGate
    <3>2. CASE GoOn(w, "ack", "none")
      BY <1>4, <2>1, <3>2 DEF BeforeClaim
    <3>3. ASSUME NEW label \in {"claim", "lookup2"}, GoOn(w, label, "none") PROVE SessionStep(v)
      <4>1. CASE v = w
        <5>1. pc'[v] = label /\ label \notin Awaiting
          BY <1>a, <3>3, <4>1 DEF GoOn, Goto, Awaiting
        <5> QED BY <1>7, <2>3, <3>3, <4>1, <5>1 DEF Loads, SessionStep
      <4>2. CASE v # w
        <5>1. pc'[v] = pc[v] /\ seen'[v] = seen[v]
          BY <1>a, <3>3, <4>2 DEF GoOn, Goto
        <5> QED BY <5>1 DEF SessionStep
      <4> QED BY <4>1, <4>2
    <3> QED BY <3>1, <3>2, <3>3
  <2>4. \/ GoOn(w, "ack", "none") \/ ResolveClaim(w, attempt[job[w].n])
        \/ Aside(w, "paused") \/ Aside(w, "closed")
        \/ RetryGate(w, job[w].n, "none") /\ ~Exists(job[w].n) /\ Eligible
    <3>1. job[w].n \in Attempts
      BY DEF TypeOK, WorkerTypeOK
    <3>2. ~Held(attempt[job[w].n])
      BY <3>1 DEF NoHold, Held
    <3> QED BY <1>7, <3>2 DEF Load, Exists
  <2>5. ASSUME NEW label \in {"paused", "closed"}, Aside(w, label) PROVE SessionStep(v)
    BY <1>2, <2>5 DEF Aside, BeforeClaim, Awaiting
  <2>6. CASE GoOn(w, "ack", "none")
    BY <1>4, <2>1, <2>6 DEF BeforeClaim
  <2> QED BY <2>2, <2>3, <2>4, <2>5, <2>6
<1>8. ASSUME NEW w \in Workers,
             \/ Blocked(w) \/ NotAdmitted(w) \/ Ack(w) \/ AnswerConfig(w) \/ Crash(w) \/ Abandon(w)
      PROVE  SessionStep(v)
  BY <1>3, <1>8 DEF Blocked, NotAdmitted, Ack, AnswerConfig, KeepJob, Crash, Abandon, Leave
<1>9. ASSUME NEW w \in Workers,
             \/ Read(w) \/ Reclaim(w) \/ PutAside(w) \/ Admit(w) \/ SettlePaused(w) \/ SettleWindow(w)
             \/ Unguard(w) \/ Lookup2Down(w) \/ Gate2(w) \/ Claim(w) \/ AnswerOk(w) \/ EngageHalt(w)
             \/ AnswerFailed(w) \/ AnswerAmbiguous(w) \/ Lookup1(w) \/ Resolve1(w)
             \/ RecoverySwallowed(w)
      PROVE  SessionStep(v)
  <2>1. \/ ToIdle(w)
        \/ /\ UNCHANGED seen
           /\ \/ \E label \in {"taken", "paused", "closed", "load", "unguard", "ack", "send", "hold"} :
                   Goto(w, label)
              \/ pc[w] \in Awaiting /\ \E label \in {"lookup1", "resolve1"} : Goto(w, label)
    BY <1>9
       DEF Read, Reclaim, PutAside, Admit, SettlePaused, SettleWindow, Unguard, Lookup2Down, Gate2,
           Claim, ClaimIfOpen, CommitClaim, AnswerOk, EngageHalt, AnswerFailed, AnswerAmbiguous, Lookup1,
           Resolve1, RecordFailure, RecoverySwallowed, Leave, Awaiting
  <2> QED BY <1>2, <1>3, <2>1 DEF BeforeClaim, Awaiting
<1>10. CASE Accept \/ Refuse \/ \E w \in Workers : TimeOut(w)
  <2>1. UNCHANGED seen
    BY <1>10 DEF Accept, Refuse, TimeOut
  <2>2. pc'[v] = pc[v] \/ (pc[v] = "await" /\ pc'[v] = "answer")
    BY <1>a, <1>10 DEF Accept, Refuse, TimeOut, Answer, Waits
  <2> QED BY <2>1, <2>2 DEF SessionStep, BeforeClaim, Awaiting
<1>11. CASE \/ LeaseExpires \/ RecoveryStep \/ DispatchAbort
            \/ Pause \/ Resume \/ Complete \/ WindowTurns \/ KillSwitch \/ ReleaseStop \/ Suppress
            \/ GuardExpires \/ RedisLoss \/ HookStep \/ HookAbort \/ UNCHANGED vars
            \/ (\E n \in Attempts, k \in RunIds : RunEnds(n, k))
            \/ (\E w \in Workers : DeadLetter(w) \/ CacheExpires(w))
  <2>1. UNCHANGED <<pc, seen>>
    BY <1>11 DEF LeaseExpires, RecoveryStep, DispatchClaim, DispatchRetry, DispatchDial,
              DispatchCommit, DispatchAbort, Rebuild, Enqueue, AttemptAges, Sweep, Pause, Resume,
              Complete, WindowTurns, KillSwitch, ReleaseStop, Suppress, GuardExpires, RedisLoss, RunEnds,
              HookStep, HookLoad, HookCommit, HookAbort, DeadLetter, CacheExpires, workerVars, vars
  <2> QED BY <1>1, <2>1
<1> QED BY <1>5, <1>6, <1>7, <1>8, <1>9, <1>10, <1>11
        DEF Next, WorkerStep, WorkerFault, DograhStep, Environment

-----------------------------------------------------------------------------
\* Recovery's decision ends the dialing of a contact, unless it is suppressed.
LEMMA DisconnectEnds ==
  ASSUME NEW c \in ContactRow, NEW att, NEW n, NEW reason, ~suppressed
  PROVE  HandleDisconnect(c, att, n, reason).contact.status # "DIALING"
<1>1. CASE c.status = "CLOSED"
  BY <1>1 DEF HandleDisconnect
<1>2. CASE c.status # "CLOSED" /\ campaign # "COMPLETED" /\ ShouldRetry(att, n, reason)
  <2> DEFINE r == [c EXCEPT !.status = "RETRY_SCHEDULED", !.due = TRUE, !.no = n + 1]
  <2>1. HandleDisconnect(c, att, n, reason).contact = r
    BY <1>2 DEF HandleDisconnect
  <2>2. r.status = "RETRY_SCHEDULED"
    BY DEF ContactRow
  <2> HIDE DEF r
  <2> QED BY <2>1, <2>2
<1>3. CASE c.status # "CLOSED" /\ ~(campaign # "COMPLETED" /\ ShouldRetry(att, n, reason))
  <2>1. HandleDisconnect(c, att, n, reason).contact = GivenUp(c)
    BY <1>3 DEF HandleDisconnect
  <2>2. GivenUp(c).status = "COMPLETED_PARTIAL"
    BY DEF GivenUp, ContactRow
  <2> QED BY <2>1, <2>2
<1> QED BY <1>1, <1>2, <1>3

\* A failure ends it, recorded by a worker that knows of it,
LEMMA FailureEnds ==
  ASSUME TypeOK, NEW w \in Workers, NEW amb, NEW reason, RecordFailure(w, amb, reason), ~suppressed,
         contact.status = "DIALING" => seen[w].status = "DIALING"
  PROVE  contact'.status # "DIALING"
<1> DEFINE d == HandleDisconnect(seen[w], FailedAttempt(job[w].n, amb), job[w].n, reason)
<1>1. contact' = Merge(contact, seen[w], d.contact, d.entries # {})
  BY DEF RecordFailure
<1>2. contact \in ContactRow /\ seen[w] \in ContactRow
  BY DEF TypeOK, WorkerTypeOK, PgTypeOK
<1>3. d.contact.status # "DIALING"
  BY <1>2, DisconnectEnds
<1> HIDE DEF d
<1> QED BY <1>1, <1>2, <1>3, MergeNumbers

\* and the webhook does.
LEMMA WebhookEnds ==
  ASSUME TypeOK, HookViewed, HookCommit, ~suppressed'
  PROVE  contact'.status # "DIALING"
<1> DEFINE n == hook.n
           o == run[n][hook.k]
           c == HookContact(hook.seen, o)
           h == HandleDisconnect(c, [attempt EXCEPT ![n] = HookAttempt(@, o)], n, Reason(o))
           d == IF FinalState(o) = "ENDED_NORMALLY" THEN [contact |-> c, entries |-> {}] ELSE h
<1>1. /\ contact' = Merge(HookBase(contact), HookBase(hook.seen), d.contact, d.entries # {})
      /\ suppressed' = (suppressed \/ o = "optout") /\ hook.on
  BY DEF HookCommit
<1>2. hook.seen \in ContactRow /\ contact \in ContactRow
  BY DEF TypeOK, OtherTypeOK, PgTypeOK
<1>3. o # "optout" /\ ~suppressed
  BY <1>1
<1>4. c \in ContactRow
  BY <1>2 DEF HookContact, ContactRow, Statuses
<1>5. FinalState(o) = "ENDED_NORMALLY" => c.status = "COMPLETED"
  BY <1>2, <1>3 DEF FinalState, HookContact, ContactRow
<1> HIDE DEF c, n, o
<1>6. h.contact.status # "DIALING"
  BY <1>3, <1>4, DisconnectEnds
<1> HIDE DEF h
<1>7. d.contact.status # "DIALING"
  BY <1>5, <1>6
<1> HIDE DEF d
<1>8. HookBase(contact) \in ContactRow
  BY <1>2 DEF HookBase, ContactRow, Statuses
<1>9. HookBase(contact).status = "DIALING" => HookBase(hook.seen).status = "DIALING"
  <2>1. CASE hook.amb
    BY <1>2, <2>1 DEF HookBase, ContactRow
  <2>2. CASE ~hook.amb
    BY <1>1, <1>3, <2>2 DEF HookBase, HookViewed
  <2> QED BY <2>1, <2>2
<1> QED BY <1>1, <1>7, <1>8, <1>9, MergeNumbers

\* A number that was suppressed stays so.
LEMMA StaysSuppressed == ASSUME TypeOK, [Next]_vars, suppressed PROVE suppressed'
<1>1. CASE suppressed' = suppressed
  BY <1>1
<1>2. CASE Suppress \/ HookCommit
  BY <1>2 DEF Suppress, HookCommit
<1>3. ASSUME NEW w \in Workers,
             \/ Read(w) \/ Reclaim(w) \/ DeadLetter(w) \/ WorkerStep(w) \/ WorkerFault(w)
             \/ CacheExpires(w)
      PROVE  suppressed' = suppressed
  BY <1>3 DEF Read, Reclaim, DeadLetter, CacheExpires, WorkerStep, WorkerFault, Blocked, PutAside,
              Admit, NotAdmitted, SettlePaused, SettleWindow, Unguard, Ack, Load, Lookup2, Lookup2Down,
              Gate2, Claim, Send, AnswerOk, EngageHalt, AnswerConfig, AnswerFailed, AnswerAmbiguous,
              Lookup1, Resolve1, RecordFailure, RecoverySwallowed, Crash, Abandon, pgVars
<1>4. CASE \/ LeaseExpires \/ RecoveryStep \/ DispatchAbort
           \/ Pause \/ Resume \/ Complete \/ WindowTurns \/ KillSwitch \/ ReleaseStop
           \/ GuardExpires \/ RedisLoss \/ HookAbort \/ UNCHANGED vars \/ DograhStep
           \/ (\E n \in Attempts, k \in RunIds : HookLoad(n, k))
  BY <1>4 DEF LeaseExpires, RecoveryStep, DispatchClaim, DispatchRetry, DispatchDial,
              DispatchCommit, DispatchAbort, Rebuild, Enqueue, AttemptAges, Sweep, Pause, Resume,
              Complete, WindowTurns, KillSwitch, ReleaseStop, GuardExpires, RedisLoss, DograhStep,
              Accept, Refuse, TimeOut, RunEnds, HookLoad, HookAbort, pgVars, vars
<1> QED BY <1>1, <1>2, <1>3, <1>4 DEF Next, HookStep, Environment

-----------------------------------------------------------------------------
StatesStay == \A n \in Attempts : attempt'[n].state = attempt[n].state

\* The step that settles attempt n takes the contact out of DIALING.
Settles(n) ==
  /\ Exists(n) /\ (AtWork(n) \/ OnHook(n) \/ attempt[n].state = "INITIATED")
  /\ contact'.status # "DIALING"
  /\ attempt'[n].state # "INITIATED" \/ attempt'[n].run # 0
  /\ \A m \in Attempts : m # n => attempt'[m].state = attempt[m].state

\* What becomes of the contact's status, together with the rows.
StatusMoves ==
  \/ contact'.status = contact.status /\ StatesStay
  \/ contact'.status # "DIALING" /\ contact.status # "DIALING" /\ StatesStay
  \/ /\ \E w \in Workers : pc[w] = "lookup2"
     /\ contact'.status \in {contact.status, "COMPLETED_PARTIAL"} /\ StatesStay
  \/ /\ contact'.status = "DIALING"
     /\ \E w \in Workers : Opens(w, job[w].n) \/ \E m \in Attempts : Reopens(w, m)
  \/ \E n \in Attempts : Settles(n)

\* A claim shows in the contact.
LEMMA ClaimShows ==
  ASSUME DInv, NEW w \in Workers, ClaimIfOpen(w, job[w].n, attempt),
         \/ pc[w] = "claim"
         \/ pc[w] = "gate2" /\ StillUnresolved(job[w].n) /\ ans[w].kind \in {"none", "held"},
         UNCHANGED <<wire, run, hook>>
  PROVE  StatusMoves
<1> DEFINE n == job[w].n
<1>a. /\ CountInv /\ NoHold /\ n \in Attempts /\ attempt \in [Attempts -> AttemptRow]
      /\ attempt[n] \in AttemptRow
  BY Typed DEF DInv, FenceInv
<1>1. CASE attempt' = attempt /\ contact' = contact
  BY <1>1 DEF StatusMoves, StatesStay
<1>2. CASE ~(attempt' = attempt /\ contact' = contact)
  <2> DEFINE row == [attempt[n] EXCEPT !.state = "INITIATED", !.held = FALSE,
                                       !.provErr = FALSE, !.age = 0]
  <2>1. ans[w].kind # "held"
    BY <1>a DEF NoHold
  <2>2. ~Taken(attempt, n) /\ attempt' = [attempt EXCEPT ![n] = row]
    BY <1>2, <2>1 DEF ClaimIfOpen, CommitClaim, Leave
  <2>3. row.state = "INITIATED"
    BY <1>a DEF AttemptRow
  <2> HIDE DEF row
  <2>4. ~Still(n)
    BY <1>a, <2>2, <2>3 DEF Still, Taken
  <2>5. Opens(w, n)
    BY <1>a, <2>4, ClaimAlters
  <2>6. seen[w].status # "DIALING"
    BY DEF DInv, Seeing, BeforeClaim
  <2>7. contact'.status = "DIALING"
    BY <2>5, <2>6 DEF Opens
  <2> QED BY <2>5, <2>7 DEF StatusMoves
<1> QED BY <1>1, <1>2

\* The second lookup's gate claims, or gives the previous attempt its run.
LEMMA GateShows ==
  ASSUME DInv, NEW w \in Workers, Gate2(w) PROVE StatusMoves
<1> DEFINE n == job[w].n
           m == n - 1
<1>a. /\ CountInv /\ TypeOK /\ n \in Attempts /\ attempt \in [Attempts -> AttemptRow]
      /\ pc[w] = "gate2" /\ n \in Nat
  BY Typed DEF DInv, Gate2
<1>1. n # 1
  BY <1>a DEF DInv, KInv, Kinds
<1>2. m \in Attempts /\ attempt[m] \in AttemptRow
  <2>1. m \in Attempts
    BY <1>a, <1>1, BeforeDue
  <2> QED BY <1>a, <2>1
<1>3. CASE ~StillUnresolved(n)
  BY <1>3 DEF Gate2, StatusMoves, StatesStay
<1>4. CASE StillUnresolved(n) /\ ans[w].kind \in {"one", "many"}
  <2> DEFINE r == [Reopened(attempt[m]) EXCEPT !.run = ans[w].run]
  <2>1. /\ attempt' = [attempt EXCEPT ![m] = r]
        /\ contact' = Merge(contact, seen[w], [seen[w] EXCEPT !.status = "DIALING"], FALSE)
    BY <1>4 DEF Gate2
  <2>2. r.state = "INITIATED"
    BY <1>2 DEF Reopened, AttemptRow
  <2> HIDE DEF r
  <2>3. attempt'[m].state = "INITIATED" /\ attempt[m].state = "FAILED_TO_CONNECT"
    BY <1>2, <1>4, <1>a, <2>1, <2>2 DEF StillUnresolved
  <2>4. Still(m) \/ Opens(w, m) \/ Binds(w, m) \/ Fails(w, m) \/ Reopens(w, m)
    BY <1>2, <1>a, WorkerAlters DEF WorkerStep
  <2>5. Reopens(w, m)
    <3>1. job[w].n # m
      BY <1>a
    <3> HIDE DEF m, n
    <3> QED BY <2>3, <2>4, <3>1 DEF Still, Opens, Binds, Fails
  <2>6. contact'.status = "DIALING"
    <3>1. contact \in ContactRow /\ seen[w] \in ContactRow
      BY <1>a DEF TypeOK, PgTypeOK, WorkerTypeOK
    <3> DEFINE new == [seen[w] EXCEPT !.status = "DIALING"]
    <3>2. new.status = "DIALING" /\ contact' = Merge(contact, seen[w], new, FALSE)
      BY <2>1, <3>1 DEF ContactRow
    <3>3. seen[w].status # "DIALING"
      BY <1>a DEF DInv, Seeing, BeforeClaim
    <3> HIDE DEF new
    <3> QED BY <3>2, <3>3 DEF Merge
  <2> QED BY <1>2, <2>5, <2>6 DEF StatusMoves
<1>5. CASE StillUnresolved(n) /\ ans[w].kind \in {"none", "held"}
  <2>1. ClaimIfOpen(w, n, attempt) /\ UNCHANGED <<wire, run, hook>>
    BY <1>5 DEF Gate2, dograhVars, otherVars
  <2> QED BY <1>5, <1>a, <2>1, ClaimShows
<1> QED BY <1>3, <1>4, <1>5 DEF Gate2

\* A failure that is recorded settles the attempt.
LEMMA FailureSettles ==
  ASSUME DInv, NEW w \in Workers, NEW amb, NEW reason, RecordFailure(w, amb, reason),
         pc[w] \in {"answer", "resolve1"}, ~suppressed
  PROVE  StatusMoves
<1> DEFINE n == job[w].n
           r == [attempt[n] EXCEPT !.state = "FAILED_TO_CONNECT", !.provErr = TRUE,
                                   !.amb = attempt[n].amb \/ amb, !.held = FALSE]
<1>a. /\ CountInv /\ TypeOK /\ n \in Attempts /\ attempt \in [Attempts -> AttemptRow]
      /\ attempt[n] \in AttemptRow
  BY Typed DEF DInv
<1>1. Exists(n) /\ AtWork(n)
  BY <1>a DEF CountInv, InHand, AfterClaim, AtWork
<1>2. attempt' = [attempt EXCEPT ![n] = r]
  BY DEF RecordFailure, FailedAttempt
<1>3. r.state = "FAILED_TO_CONNECT"
  BY <1>a DEF AttemptRow
<1>4. contact.status = "DIALING" => seen[w].status = "DIALING"
  BY DEF DInv, Viewed, Awaiting
<1>5. contact'.status # "DIALING"
  BY <1>4, <1>a, FailureEnds
<1> HIDE DEF n, r
<1>6. Settles(n)
  BY <1>1, <1>2, <1>3, <1>5, <1>a DEF Settles
<1> QED BY <1>6, <1>a DEF StatusMoves

\* So do the webhook
LEMMA WebhookSettles ==
  ASSUME DInv, HookCommit, ~suppressed' PROVE StatusMoves
<1> DEFINE n == hook.n
           r == HookAttempt(attempt[n], run[n][hook.k])
<1>a. /\ CountInv /\ TypeOK /\ n \in Attempts /\ attempt \in [Attempts -> AttemptRow] /\ hook.on
  BY Typed DEF DInv, HookCommit
<1>1. Exists(n) /\ OnHook(n)
  BY <1>a DEF CountInv, InHand, OnHook
<1>2. attempt' = [attempt EXCEPT ![n] = r]
  BY DEF HookCommit
<1>3. attempt'[n].state \in Terminal
  BY <1>a, CommitEnds DEF Ends
<1>4. contact'.status # "DIALING"
  BY <1>a, WebhookEnds DEF DInv
<1> HIDE DEF n, r
<1>5. Settles(n)
  BY <1>1, <1>2, <1>3, <1>4, <1>a DEF Settles, Terminal
<1> QED BY <1>5, <1>a DEF StatusMoves

\* and the sweeper.
LEMMA SweepSettles ==
  ASSUME DInv, NEW n \in Attempts, Sweep(n) PROVE StatusMoves
<1>a. attempt \in [Attempts -> AttemptRow] /\ attempt[n] \in AttemptRow /\ contact \in ContactRow
  BY Typed DEF DInv
<1>1. /\ attempt' = [attempt EXCEPT ![n] = Reviewed(attempt[n])]
      /\ contact' = [contact EXCEPT !.status = "NEEDS_REVIEW"]
      /\ attempt[n].state = "INITIATED"
  BY DEF Sweep, Stuck
<1>2. Reviewed(attempt[n]).state # "INITIATED" \/ Reviewed(attempt[n]).run # 0
  BY <1>a DEF Reviewed, AttemptRow
<1>3. contact'.status # "DIALING"
  BY <1>1, <1>a DEF ContactRow
<1>4. Settles(n)
  BY <1>1, <1>2, <1>3, <1>a DEF Settles, Exists
<1> QED BY <1>4 DEF StatusMoves

LEMMA StatusStep ==
  ASSUME {"swallow", "suppress"} \cap Env = {}, DInv, [Next]_vars, ~suppressed'
  PROVE  StatusMoves
<1>a. /\ CountInv /\ TypeOK /\ NoHold /\ attempt \in [Attempts -> AttemptRow]
      /\ contact \in ContactRow /\ ~suppressed
  BY Typed, StaysSuppressed DEF DInv, FenceInv
<1>1. CASE contact' = contact /\ StatesStay
  BY <1>1 DEF StatusMoves
<1>2. ASSUME NEW w \in Workers, DeadLetter(w) PROVE StatusMoves
  <2>1. attempt' = attempt /\ (contact' = contact \/ contact' = Parked(contact))
    BY <1>2 DEF DeadLetter
  <2>2. \/ Parked(contact) = contact
        \/ contact.status # "DIALING" /\ Parked(contact).status # "DIALING"
    BY <1>a DEF Parked, ContactRow
  <2> QED BY <2>1, <2>2 DEF StatusMoves, StatesStay
<1>3. ASSUME NEW w \in Workers, Lookup2Down(w) PROVE StatusMoves
  <2> DEFINE new == [seen[w] EXCEPT !.status = "COMPLETED_PARTIAL"]
  <2>1. /\ pc[w] = "lookup2"
        /\ contact' = contact \/ contact' = Merge(contact, seen[w], new, FALSE)
        /\ attempt' = attempt
           \/ \E m : attempt' = [attempt EXCEPT ![m] = [attempt[m] EXCEPT !.deferrals = @ + 1]]
    BY <1>3 DEF Lookup2Down
  <2>2. StatesStay
    BY <1>a, <2>1 DEF StatesStay, AttemptRow
  <2>3. new.status = "COMPLETED_PARTIAL"
    BY <1>a DEF TypeOK, WorkerTypeOK, ContactRow
  <2> HIDE DEF new
  <2>4. contact'.status \in {contact.status, "COMPLETED_PARTIAL"}
    BY <2>1, <2>3 DEF Merge
  <2> QED BY <2>1, <2>2, <2>4 DEF StatusMoves
<1>4. ASSUME NEW w \in Workers, Claim(w) PROVE StatusMoves
  <2>1. pc[w] = "claim" /\ ClaimIfOpen(w, job[w].n, attempt) /\ UNCHANGED <<wire, run, hook>>
    BY <1>4 DEF Claim, dograhVars, otherVars
  <2> QED BY <2>1, ClaimShows
<1>5. ASSUME NEW w \in Workers, AnswerFailed(w) \/ Resolve1(w) PROVE StatusMoves
  <2>1. \/ pc[w] \in {"answer", "resolve1"} /\ \E amb, reason : RecordFailure(w, amb, reason)
        \/ /\ contact' = contact
           /\ attempt' = attempt \/ attempt' = [attempt EXCEPT ![job[w].n].run = ans[w].run]
    BY <1>5 DEF AnswerFailed, Resolve1
  <2>2. CASE /\ contact' = contact
             /\ attempt' = attempt \/ attempt' = [attempt EXCEPT ![job[w].n].run = ans[w].run]
    <3>1. StatesStay
      BY <1>a, <2>2 DEF StatesStay, AttemptRow
    <3> QED BY <1>1, <2>2, <3>1
  <2> QED BY <1>a, <2>1, <2>2, FailureSettles
<1>6. ASSUME NEW w \in Workers, AnswerOk(w) PROVE StatusMoves
  <2>1. /\ contact' = contact
        /\ \E m : attempt' = [attempt EXCEPT ![m] = [attempt[m] EXCEPT !.run = ans[w].run, !.held = FALSE]]
    BY <1>6 DEF AnswerOk
  <2>2. StatesStay
    BY <1>a, <2>1 DEF StatesStay, AttemptRow
  <2> QED BY <1>1, <2>1, <2>2
<1>7. CASE \E n \in Attempts : AttemptAges(n)
  <2>1. /\ contact' = contact
        /\ \E m : attempt' = [attempt EXCEPT ![m] = [attempt[m] EXCEPT !.age = @ + 1]]
    BY <1>7 DEF AttemptAges
  <2>2. StatesStay
    BY <1>a, <2>1 DEF StatesStay, AttemptRow
  <2> QED BY <1>1, <2>1, <2>2
<1>8. CASE DispatchCommit
  <2> DEFINE off == [disp.seen EXCEPT !.due = FALSE, !.no = 0]
             on == [disp.seen EXCEPT !.due = TRUE]
  <2>1. /\ \/ contact' = Merge(contact, disp.seen, off, FALSE)
           \/ contact' = Merge(contact, disp.seen, on, TRUE)
        /\ attempt' = attempt
           \/ \E m : attempt' = [attempt EXCEPT ![m] = [attempt[m] EXCEPT !.held = FALSE]]
    BY <1>8 DEF DispatchCommit, Noted
  <2>2. off.status = disp.seen.status /\ on.status = disp.seen.status
    BY <1>a DEF TypeOK, OtherTypeOK, ContactRow
  <2>3. StatesStay
    BY <1>a, <2>1 DEF StatesStay, AttemptRow
  <2> HIDE DEF off, on
  <2>4. contact'.status = contact.status
    BY <2>1, <2>2 DEF Merge
  <2> QED BY <2>3, <2>4 DEF StatusMoves
<1>9. ASSUME NEW w \in Workers, EngageHalt(w) \/ AnswerConfig(w) PROVE FALSE
  BY <1>9, <1>a DEF EngageHalt, AnswerConfig, NoHold
<1>10. ASSUME NEW w \in Workers, RecoverySwallowed(w) PROVE FALSE
  BY <1>10 DEF RecoverySwallowed, Fault, May
<1>11. CASE Suppress
  BY <1>11 DEF Suppress, May
<1>12. ASSUME NEW w \in Workers,
              \/ Read(w) \/ Reclaim(w) \/ CacheExpires(w) \/ Crash(w) \/ Abandon(w) \/ Blocked(w)
              \/ PutAside(w) \/ Admit(w) \/ NotAdmitted(w) \/ SettlePaused(w) \/ SettleWindow(w)
              \/ Unguard(w) \/ Ack(w) \/ Load(w) \/ Lookup2(w) \/ Send(w) \/ AnswerAmbiguous(w)
              \/ Lookup1(w)
       PROVE  StatusMoves
  <2>1. contact' = contact /\ attempt' = attempt
    BY <1>12 DEF Read, Reclaim, CacheExpires, Crash, Abandon, Blocked, PutAside, Admit, NotAdmitted,
                 SettlePaused, SettleWindow, Unguard, Ack, Load, Lookup2, Send, AnswerAmbiguous,
                 Lookup1, pgVars
  <2> QED BY <1>1, <2>1 DEF StatesStay
<1>13. CASE \/ LeaseExpires \/ DispatchClaim \/ DispatchRetry \/ DispatchDial \/ Rebuild \/ Enqueue
            \/ DispatchAbort \/ DograhStep \/ HookAbort
            \/ (\E n \in Attempts, k \in RunIds : HookLoad(n, k)) \/ UNCHANGED vars
            \/ Pause \/ Resume \/ Complete \/ WindowTurns \/ KillSwitch \/ ReleaseStop
            \/ GuardExpires \/ RedisLoss
  <2>1. contact' = contact /\ attempt' = attempt
    BY <1>13 DEF LeaseExpires, DispatchClaim, DispatchRetry, DispatchDial, Rebuild, Enqueue,
                 DispatchAbort, DograhStep, Accept, Refuse, TimeOut, RunEnds, HookAbort,
                 HookLoad, Pause, Resume, Complete, WindowTurns, KillSwitch, ReleaseStop,
                 GuardExpires, RedisLoss, pgVars, vars
  <2> QED BY <1>1, <2>1 DEF StatesStay
<1> QED BY <1>2, <1>3, <1>4, <1>5, <1>6, <1>7, <1>8, <1>9, <1>10, <1>11, <1>12, <1>13,
           GateShows, WebhookSettles, SweepSettles
        DEF Next, WorkerStep, WorkerFault, RecoveryStep, HookStep, Environment

-----------------------------------------------------------------------------
\* Only the last attempt is worked on, on a hook or open.
LEMMA LastIsOpen ==
  ASSUME KInv, NEW n \in Attempts, Exists(n),
         AtWork(n) \/ OnHook(n) \/ attempt[n].state = "INITIATED"
  PROVE  n = contact.count
<1>1. CASE AtWork(n) \/ OnHook(n)
  BY <1>1, RetriesLast
<1>2. CASE attempt[n].state = "INITIATED"
  <2>1. /\ contact.count \in Nat /\ contact.count <= MaxRetries + 2 /\ MaxRetries \in Nat
        /\ n \in Nat /\ n >= 1 /\ n <= contact.count
    BY Typed, DialAssumption DEF CountInv, Counted, ContactRow
  <2>2. contact.count \in Attempts /\ Exists(contact.count)
    <3>1. contact.count \in Attempts
      BY <2>1 DEF Attempts
    <3> QED BY <2>1, <3>1, Typed DEF CountInv, Counted
  <2>3. ~Closed(n)
    BY <1>2 DEF Closed, Ended, Terminal
  <2> QED BY <2>1, <2>2, <2>3, EarlierClosed
<1> QED BY <1>1, <1>2

\* The attempt that a worker is about to open is the next.
LEMMA NextIsUnopened ==
  ASSUME KInv, NEW w \in Workers, pc[w] \in BeforeClaim
  PROVE  ~Exists(job[w].n) /\ contact.count = job[w].n - 1 /\ job[w].n \in Attempts
<1>1. CountInv /\ job[w].n \in Attempts
  BY Typed
<1>2. ~Exists(job[w].n) /\ Follows(job[w].n)
  BY <1>1 DEF KInv, Renewed, CountInv, InOrder
<1> QED BY <1>1, <1>2, CountBefore

\* An attempt is opened or reopened when no other is worked on,
LEMMA OpensAlone ==
  ASSUME KInv, KInv', NEW w \in Workers, NEW n \in Attempts, Opens(w, n)
  PROVE  /\ ~OnHook(contact.count)
         /\ \A v \in Workers : pc[v] \notin AfterClaim
<1>a. /\ pc \in [Workers -> PCs] /\ pc[w] \in BeforeClaim /\ job[w].n = n /\ n \in Nat /\ n >= 1
      /\ \A v \in Workers : job[v].n \in Attempts
      /\ CountInv /\ hook.n \in Attempts
  BY Typed DEF Opens, TypeOK, WorkerTypeOK, BeforeClaim
<1>b. contact.count = n - 1
  BY <1>a, NextIsUnopened
<1>1. CASE n = 1
  <2>1. \A m \in Attempts : ~Exists(m)
    BY <1>a, <1>b, <1>1, Typed DEF CountInv, Counted
  <2> QED BY <1>a, <2>1 DEF CountInv, InHand, OnHook
<1>2. CASE n # 1
  <2>1. Exists(n)'
    BY DEF Opens, Exists
  <2>2. Closed(n - 1)'
    BY <1>2, <2>1 DEF KInv, Followed
  <2>3. ~OnHook(n - 1)
    BY <2>2 DEF Closed, OnHook, Opens
  <2>4. ASSUME NEW v \in Workers, pc[v] \in AfterClaim PROVE FALSE
    <3>1. job[v].n = n - 1
      <4>1. Exists(job[v].n) /\ AtWork(job[v].n)
        BY <1>a, <2>4 DEF CountInv, InHand, AtWork, AfterClaim
      <4> QED BY <1>a, <1>b, <4>1, LastIsOpen
    <3>2. v # w
      BY <1>a, <2>4 DEF BeforeClaim, AfterClaim
    <3>3. pc'[v] = pc[v] /\ job'[v].n = n - 1
      BY <1>a, <3>1, <3>2 DEF Opens
    <3> QED BY <2>2, <2>4, <3>3 DEF Closed, AtWork, AfterClaim
  <2> QED BY <1>b, <2>3, <2>4
<1> QED BY <1>1, <1>2

LEMMA ReopensAlone ==
  ASSUME KInv, NEW w \in Workers, NEW m \in Attempts, Reopens(w, m)
  PROVE  /\ m = contact.count /\ attempt[m].run = 0 /\ Exists(m)
         /\ \A v \in Workers : pc[v] \notin AfterClaim
<1>a. /\ job[w].n = m + 1 /\ (m + 1) - 1 = m /\ pc[w] \in BeforeClaim
      /\ \A v \in Workers : job[v].n \in Attempts
      /\ CountInv
  BY Typed DEF Reopens, BeforeClaim
<1>1. m = contact.count
  BY <1>a, NextIsUnopened
<1>2. attempt[m].run = 0 /\ Exists(m)
  BY <1>a DEF Reopens, StillUnresolved, Exists
<1>3. ASSUME NEW v \in Workers, pc[v] \in AfterClaim PROVE FALSE
  <2>1. Exists(job[v].n) /\ AtWork(job[v].n)
    BY <1>a, <1>3 DEF CountInv, InHand, AtWork, AfterClaim
  <2>2. job[v].n = m
    BY <1>1, <1>a, <2>1, LastIsOpen
  <2> QED BY <2>1, <2>2, ReopensAtRest
<1> QED BY <1>1, <1>2, <1>3

-----------------------------------------------------------------------------
\* A contact that comes to be shown as dialed does so by a claim or a reopening.
LEMMA ShowsDialed ==
  ASSUME DInv, KInv', StatusMoves, contact'.status = "DIALING", contact.status # "DIALING"
  PROVE  /\ \A v \in Workers : pc[v] \notin AfterClaim
         /\ \/ ~OnHook(contact.count)
            \/ attempt[contact.count].run = 0 /\ contact.count \in Attempts
<1>1. PICK w \in Workers : Opens(w, job[w].n) \/ \E m \in Attempts : Reopens(w, m)
  BY DEF StatusMoves, Settles
<1>2. CASE Opens(w, job[w].n)
  BY <1>2, OpensAlone, Typed DEF DInv
<1>3. ASSUME NEW m \in Attempts, Reopens(w, m)
      PROVE  /\ \A v \in Workers : pc[v] \notin AfterClaim
             /\ attempt[contact.count].run = 0 /\ contact.count \in Attempts
  BY <1>3, ReopensAlone DEF DInv
<1> QED BY <1>1, <1>2, <1>3

(* The parts, one by one. *)
LEMMA DialingStep ==
  ASSUME DInv, StatusMoves, ~suppressed, contact'.status = "DIALING"
  PROVE  \E n \in Attempts : attempt'[n].state = "INITIATED"
<1>1. CASE contact.status = "DIALING" /\ StatesStay
  BY <1>1 DEF DInv, DialingHasAttempt, StatesStay
<1>2. ASSUME NEW w \in Workers, Opens(w, job[w].n)
      PROVE  \E n \in Attempts : attempt'[n].state = "INITIATED"
  BY <1>2, Typed DEF Opens, DInv
<1>3. ASSUME NEW w \in Workers, NEW m \in Attempts, Reopens(w, m)
      PROVE  \E n \in Attempts : attempt'[n].state = "INITIATED"
  BY <1>3 DEF Reopens
<1> QED BY <1>1, <1>2, <1>3 DEF StatusMoves, Settles

\* A session that passes the gate reads no DIALING.
LEMMA LoadsReads ==
  ASSUME DInv, NEW v \in Workers, Loads(v)
  PROVE  contact.status # "DIALING" /\ seen'[v] = contact
         /\ (pc'[v] = "lookup2" => job[v].n # 1 /\ Ambiguous(attempt[job[v].n - 1]))
<1> DEFINE n == job[v].n
<1>a. /\ n \in Attempts /\ pc \in [Workers -> PCs] /\ seen \in [Workers -> ContactRow]
      /\ CountInv /\ ~Exists(n) /\ Follows(n) /\ n >= 1 /\ n \in Nat
  BY Typed DEF DInv, Loads, TypeOK, WorkerTypeOK, CountInv, InOrder
<1> HIDE DEF n
<1>1. PICK label \in {"ack", "claim", "lookup2"} :
        /\ GoOn(v, label, "none")
        /\ label = "lookup2" => n # 1 /\ Ambiguous(attempt[n - 1])
        /\ n # 1 /\ attempt[n - 1].state = "INITIATED" => label = "ack"
  <2>1. RetryGate(v, n, "none")
    BY DEF Loads, n
  <2> QED BY <2>1 DEF RetryGate
<1>2. pc'[v] = label /\ seen'[v] = contact
  BY <1>1, <1>a DEF GoOn, Goto
<1>3. label # "ack"
  BY <1>2 DEF Loads
<1>4. ASSUME contact.status = "DIALING" PROVE FALSE
  <2>1. ~suppressed
    BY DEF Loads, Eligible
  <2>2. PICK m \in Attempts : attempt[m].state = "INITIATED"
    BY <1>4, <2>1 DEF DInv, DialingHasAttempt
  <2>3. m = contact.count
    BY <2>2, LastIsOpen DEF DInv, Exists
  <2>4. m = n - 1
    BY <1>a, <2>3, CountBefore
  <2>5. n # 1
    BY <1>a, <2>4, Typed DEF DInv
  <2> QED BY <1>1, <1>3, <2>2, <2>4, <2>5
<1> QED BY <1>1, <1>2, <1>4 DEF n

LEMMA SeeingStep == ASSUME DInv, [Next]_vars PROVE Seeing'
<1>1. TypeOK /\ NoHold
  BY Typed DEF DInv, FenceInv
<1>2. ASSUME NEW v \in Workers, pc'[v] \in BeforeClaim PROVE seen'[v].status # "DIALING"
  <2>1. (pc[v] \in BeforeClaim /\ seen'[v] = seen[v]) \/ Loads(v)
    BY <1>1, <1>2, SessionSteps DEF SessionStep
  <2>2. CASE pc[v] \in BeforeClaim /\ seen'[v] = seen[v]
    BY <2>2 DEF DInv, Seeing
  <2>3. CASE Loads(v)
    BY <2>3, LoadsReads
  <2> QED BY <2>1, <2>2, <2>3
<1> QED BY <1>2 DEF Seeing, BeforeClaim

LEMMA ViewedStep ==
  ASSUME DInv, KInv', [Next]_vars, StatusMoves, ~suppressed PROVE Viewed'
<1>1. TypeOK /\ NoHold
  BY Typed DEF DInv, FenceInv
<1>2. ASSUME contact'.status = "DIALING", NEW v \in Workers, pc'[v] \in Awaiting
      PROVE  seen'[v].status = "DIALING"
  <2>1. \/ pc[v] \in Awaiting /\ seen'[v] = seen[v]
        \/ contact' = contact /\ seen'[v] = contact
    BY <1>1, <1>2, SessionSteps DEF SessionStep
  <2>2. CASE contact' = contact /\ seen'[v] = contact
    BY <1>2, <2>2
  <2>3. CASE pc[v] \in Awaiting /\ seen'[v] = seen[v]
    <3>1. contact.status = "DIALING"
      BY <1>2, <2>3, ShowsDialed DEF Awaiting, AfterClaim
    <3> QED BY <2>3, <3>1 DEF DInv, Viewed
  <2> QED BY <2>1, <2>2, <2>3
<1> QED BY <1>2 DEF Viewed, Awaiting

LEMMA HookViewedStep ==
  ASSUME DInv, KInv', [Next]_vars, StatusMoves, ~suppressed PROVE HookViewed'
<1>a. TypeOK /\ CountInv /\ attempt \in [Attempts -> AttemptRow] /\ hook.n \in Attempts
  BY Typed DEF DInv
<1>1. ASSUME NEW n \in Attempts, NEW k \in RunIds, HookLoad(n, k), ~hook'.amb,
             contact'.status = "DIALING" \/ ~hook'.bound
      PROVE  hook'.seen.status = "DIALING"
  <2>1. /\ hook'.seen = contact /\ contact' = contact
        /\ hook'.amb = Ambiguous(attempt[n]) /\ hook'.bound = (attempt[n].run # 0)
        /\ attempt[n].state # "none" /\ Acceptable(n, k)
    BY <1>1 DEF HookLoad, pgVars
  <2>2. attempt[n].state = "INITIATED"
    BY <1>1, <1>a, <2>1 DEF Acceptable, Terminal, AttemptRow, AttemptStates
  <2>3. CASE contact'.status = "DIALING"
    BY <2>1, <2>3
  <2>4. CASE ~hook'.bound
    BY <2>1, <2>2, <2>4 DEF DInv, Shown
  <2> QED BY <1>1, <2>3, <2>4
<1>2. ASSUME hook' = hook, hook.on, ~hook.amb, contact'.status = "DIALING" \/ ~hook.bound
      PROVE  hook.seen.status = "DIALING"
  <2>1. CASE contact.status = "DIALING" \/ ~hook.bound
    BY <1>2, <2>1 DEF DInv, HookViewed
  <2>2. CASE contact.status # "DIALING" /\ hook.bound
    <3>1. Exists(hook.n) /\ OnHook(hook.n) /\ attempt[hook.n].run # 0
      BY <1>2, <1>a, <2>2 DEF CountInv, InHand, OnHook, DInv, KInv, Hooked
    <3>2. hook.n = contact.count
      BY <1>a, <3>1, LastIsOpen DEF DInv
    <3> QED BY <1>2, <2>2, <3>1, <3>2, ShowsDialed
  <2> QED BY <2>1, <2>2
<1>3. CASE hook'.on
  <2>1. hook' = hook \/ \E n \in Attempts, k \in RunIds : HookLoad(n, k)
    BY <1>a, <1>3, HookHand
  <2>2. CASE hook' = hook
    BY <1>2, <1>3, <2>2 DEF HookViewed
  <2>3. CASE \E n \in Attempts, k \in RunIds : HookLoad(n, k)
    BY <1>1, <2>3 DEF HookViewed
  <2> QED BY <2>1, <2>2, <2>3
<1> QED BY <1>3 DEF HookViewed

LEMMA ShownStep ==
  ASSUME DInv, [Next]_vars, StatusMoves, ~suppressed PROVE Shown'
<1>a. KInv /\ TypeOK /\ CountInv /\ \A n \in Attempts : n \in Nat
  BY Typed DEF DInv
<1>1. ASSUME NEW n \in Attempts, attempt'[n].state = "INITIATED", attempt'[n].run = 0
      PROVE  contact'.status = "DIALING"
  <2>1. attempt[n].run = 0
    BY <1>1, <1>a, RunKept
  <2>2. attempt[n].state = "INITIATED" => contact.status = "DIALING" /\ Exists(n) /\ n = contact.count
    BY <1>a, <2>1, LastIsOpen DEF DInv, Shown, Exists
  <2>3. CASE contact'.status = contact.status /\ StatesStay
    BY <1>1, <2>2, <2>3 DEF StatesStay
  <2>4. CASE contact.status # "DIALING" /\ StatesStay
    BY <1>1, <2>2, <2>4 DEF StatesStay
  <2>5. ASSUME NEW w \in Workers, pc[w] = "lookup2", StatesStay PROVE FALSE
    <3>1. attempt[n].state = "INITIATED"
      BY <1>1, <2>5 DEF StatesStay
    <3>2. contact.count = job[w].n - 1
      BY <1>a, <2>5, NextIsUnopened DEF BeforeClaim
    <3> QED BY <2>2, <2>5, <3>1, <3>2 DEF DInv, Unrevived
  <2>6. ASSUME NEW m \in Attempts, Settles(m) PROVE FALSE
    <3>1. m = contact.count
      BY <1>a, <2>6, LastIsOpen DEF Settles
    <3>2. n # m
      BY <1>1, <2>6 DEF Settles
    <3>3. attempt[n].state = "INITIATED"
      BY <1>1, <2>6, <3>2 DEF Settles
    <3> QED BY <2>2, <3>1, <3>2, <3>3
  <2> QED BY <2>3, <2>4, <2>5, <2>6 DEF StatusMoves
<1> QED BY <1>1 DEF Shown

LEMMA UnrevivedStep == ASSUME DInv, [Next]_vars PROVE Unrevived'
<1>a. KInv /\ TypeOK /\ NoHold /\ CountInv /\ pc \in [Workers -> PCs]
  BY Typed DEF DInv, FenceInv, TypeOK, WorkerTypeOK
<1>1. ASSUME NEW v \in Workers, pc'[v] \in {"lookup2", "gate2"}
      PROVE  attempt'[job'[v].n - 1].state # "INITIATED"
  <2>1. job'[v].n = job[v].n /\ job[v].n \in Attempts
    BY <1>1, <1>a, EnterStep, Typed DEF BeforeClaim
  <2>2. pc[v] \in {"lookup2", "gate2"} \/ (Loads(v) /\ pc'[v] = "lookup2")
    BY <1>1, <1>a, SessionSteps DEF SessionStep, BeforeClaim, Loads
  <2>3. CASE Loads(v) /\ pc'[v] = "lookup2"
    <3>1. attempt' = attempt
      BY <2>3 DEF Loads, Load, pgVars
    <3> QED BY <2>1, <2>3, <3>1, LoadsReads DEF Ambiguous
  <2>4. CASE pc[v] \in {"lookup2", "gate2"}
    <3>1. job[v].n # 1
      BY <1>a, <2>4 DEF KInv, Kinds
    <3>2. PICK m \in Attempts : m = job[v].n - 1 /\ job[v].n = m + 1
      BY <2>1, <3>1, BeforeDue, DialAssumption DEF Attempts
    <3>3. attempt[m].state # "INITIATED" /\ Exists(m)
      BY <1>a, <2>4, <3>1, <3>2 DEF DInv, Unrevived, CountInv, InOrder, Follows
    <3>4. ASSUME NEW w \in Workers, Reopens(w, m) PROVE FALSE
      <4>1. pc[w] = "gate2" /\ job[w].n = job[v].n /\ pc' = [pc EXCEPT ![w] = "ack"]
        BY <3>2, <3>4 DEF Reopens
      <4>2. w = v
        BY <1>a, <2>4, <4>1, OneOwner DEF KInv, Holding, BeforeClaim
      <4>3. pc'[v] = "ack"
        BY <1>a, <4>1, <4>2
      <4> QED BY <1>1, <4>3
    <3>5. attempt'[m].state # "INITIATED"
      <4>1. Alters(m)
        BY <1>a, RowStep
      <4> QED BY <3>3, <3>4, <4>1
          DEF Alters, Still, Sweeps, Ends, Opens, Binds, Fails, Terminal, Exists
    <3> QED BY <2>1, <3>2, <3>5
  <2> QED BY <2>2, <2>3, <2>4
<1> QED BY <1>1 DEF Unrevived

LEMMA DInit == ASSUME Init PROVE DInv
<1>1. /\ pc = [w \in Workers |-> "idle"] /\ ~hook.on /\ contact.status = "PENDING"
      /\ \A n \in Attempts : attempt[n].state = "none"
  BY DEF Init, NoHook, NoRow, NewContact
<1> QED BY <1>1, KInit
        DEF DInv, DialingHasAttempt, Seeing, Viewed, HookViewed, Shown, Unrevived, Awaiting, BeforeClaim

LEMMA DStep ==
  ASSUME {"config", "redisLoss", "lateLanding", "webhookAbort", "swallow", "suppress"} \cap Env = {},
         DInv, [Next]_vars
  PROVE  DInv'
<1>1. KInv'
  BY KStep DEF DInv
<1>2. Seeing' /\ Unrevived'
  BY SeeingStep, UnrevivedStep
<1>3. CASE suppressed'
  BY <1>1, <1>2, <1>3 DEF DInv, DialingHasAttempt, Viewed, HookViewed, Shown
<1>4. CASE ~suppressed'
  <2>1. TypeOK
    BY Typed DEF DInv
  <2>2. ~suppressed /\ StatusMoves
    BY <1>4, <2>1, StaysSuppressed, StatusStep
  <2>3. DialingHasAttempt'
    BY <2>2, DialingStep DEF DialingHasAttempt
  <2>4. Viewed' /\ HookViewed' /\ Shown'
    BY <1>1, <2>2, ViewedStep, HookViewedStep, ShownStep
  <2> QED BY <1>1, <1>2, <2>3, <2>4 DEF DInv
<1> QED BY <1>3, <1>4

\* A contact that is shown as being dialed has an attempt in flight, which the
\* webhook or the sweeper will end: every write of the status DIALING comes with
\* an attempt, and whoever ends the attempt had read DIALING and so replaces it
\* (SQLAlchemy sends the column only when it differs from what was loaded).
THEOREM DialingIsBacked ==
  ASSUME {"config", "redisLoss", "lateLanding", "webhookAbort", "swallow", "suppress"} \cap Env = {}
  PROVE  Spec => []DialingHasAttempt
<1>1. Init => DInv
  BY DInit
<1>2. ASSUME DInv, [Next]_vars PROVE DInv'
  BY <1>2, DStep
<1>3. DInv => DialingHasAttempt
  BY DEF DInv
<1> QED BY <1>1, <1>2, <1>3, PTL DEF Spec
=============================================================================
