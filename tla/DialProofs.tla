------------------------------ MODULE DialProofs ------------------------------
(***************************************************************************)
(* The dial protocol, for any number of workers, any retry policy, any     *)
(* limits and any mixture of duplicated deliveries, reclaims, crashes,     *)
(* deadlines, lost leases and lost Redis.                                  *)
(*                                                                         *)
(* First type correctness, which is inductive as it stands: the operators  *)
(* the actions are built from, then one lemma per action.                  *)
(*                                                                         *)
(* Then the attempt row as a fence: where Dograh never refuses a           *)
(* configuration (no attempt is ever put on hold), an attempt number is    *)
(* triggered at most once.  That is not inductive: it does not say why a   *)
(* second worker cannot come to its own trigger.  The invariant adds the   *)
(* fence.  A trigger has a row, a worker about to send owns a row nobody   *)
(* has sent for, and it is alone with it.                                  *)
(*                                                                         *)
(* On the fence rest three more results: the count of attempts is exact    *)
(* (CountIsExact), an attempt is one phone call (SingleCall), and attempts *)
(* are opened in order and asked for once (AttemptsInTurn), which is the   *)
(* part of DialContract that does not concern the line; ContractProofs has *)
(* the rest.  The last part shows that the enqueue guard of a first dial   *)
(* stands for an entry of the stream (GuardHoldsAJob).                     *)
(***************************************************************************)
EXTENDS DialProtocol, FiniteSetTheorems, WellFoundedInduction, TLAPS

-----------------------------------------------------------------------------
(* What a step leaves alone keeps its type *)

\* A step that touches no PostgreSQL variable keeps their types.
LEMMA PgKept == PgTypeOK /\ UNCHANGED pgVars => PgTypeOK'
  BY DEF PgTypeOK, pgVars

\* The same for Redis.
LEMMA RedisKept == RedisTypeOK /\ UNCHANGED redisVars => RedisTypeOK'
  BY DEF RedisTypeOK, redisVars

\* The same for Dograh.
LEMMA DograhKept == DograhTypeOK /\ UNCHANGED dograhVars => DograhTypeOK'
  BY DEF DograhTypeOK, dograhVars

\* The same for the workers.
LEMMA WorkerKept == WorkerTypeOK /\ UNCHANGED workerVars => WorkerTypeOK'
  BY DEF WorkerTypeOK, workerVars

\* The same for dispatcher and webhook handler.
LEMMA OtherKept == OtherTypeOK /\ UNCHANGED otherVars => OtherTypeOK'
  BY DEF OtherTypeOK, otherVars

\* The same for the counters.
LEMMA HistoryKept == HistoryTypeOK /\ UNCHANGED history => HistoryTypeOK'
  BY DEF HistoryTypeOK, history

-----------------------------------------------------------------------------
(* Operators *)

\* The rows and messages the specification names have their types.
LEMMA Constants ==
  /\ NewContact \in ContactRow /\ NoRow \in AttemptRow /\ NoMessage \in Message
  /\ NoJob \in [slot : Slots \cup {0}, n : Attempts, retry : BOOLEAN]
  /\ NoAnswer \in [kind : Answers, run : RunIds \cup {0}]
  /\ NoEntry \in Entry /\ 1 \in Attempts /\ 1 \in RunIds
<1>1. 1 \in Attempts /\ 1 \in RunIds
  BY DialAssumption DEF Attempts, RunIds
<1>2. NewContact \in ContactRow
  BY DEF NewContact, ContactRow, Statuses
<1>3. NoRow \in AttemptRow
  BY DialAssumption DEF NoRow, AttemptRow, AttemptStates
<1>4. NoMessage \in Message
  BY <1>1, DialAssumption DEF NoMessage, Message
<1>5. NoJob \in [slot : Slots \cup {0}, n : Attempts, retry : BOOLEAN]
  BY <1>1 DEF NoJob
<1>6. NoAnswer \in [kind : Answers, run : RunIds \cup {0}]
  BY DEF NoAnswer, Answers
<1>7. NoEntry \in Entry
  BY <1>1 DEF NoEntry, Entry
<1> QED BY <1>1, <1>2, <1>3, <1>4, <1>5, <1>6, <1>7

\* Merging two views of a contact row gives a contact row.
LEMMA MergeType ==
  ASSUME NEW row \in ContactRow, NEW loaded \in ContactRow,
         NEW new \in ContactRow, NEW newDue
  PROVE  Merge(row, loaded, new, newDue) \in ContactRow
  BY DEF Merge, ContactRow

\* Setting a contact's status.
LEMMA StatusType ==
  ASSUME NEW c \in ContactRow, NEW s \in Statuses
  PROVE  [c EXCEPT !.status = s] \in ContactRow
  BY DEF ContactRow

\* RecoveryManager's decision is a contact and schedule entries within bounds.
LEMMA DisconnectType ==
  ASSUME NEW c \in ContactRow, NEW att, NEW n \in Attempts, NEW reason
  PROVE  /\ HandleDisconnect(c, att, n, reason).contact \in ContactRow
         /\ HandleDisconnect(c, att, n, reason).entries \subseteq Entry
<1> DEFINE d == HandleDisconnect(c, att, n, reason)
<1>1. CASE c.status = "CLOSED" \/ suppressed
  BY <1>1 DEF HandleDisconnect
<1>2. CASE /\ ~(c.status = "CLOSED" \/ suppressed)
           /\ campaign # "COMPLETED" /\ ShouldRetry(att, n, reason)
  <2>1. n + 1 \in Attempts
    BY <1>2, DialAssumption DEF ShouldRetry, Attempts
  <2>2. d = [contact |-> [c EXCEPT !.status = "RETRY_SCHEDULED", !.due = TRUE,
                                   !.no = n + 1],
             entries |-> {[n |-> n + 1, kind |-> "retry"]}]
    BY <1>2 DEF HandleDisconnect
  <2>3. [c EXCEPT !.status = "RETRY_SCHEDULED", !.due = TRUE, !.no = n + 1]
          \in ContactRow
    BY <2>1 DEF ContactRow, Statuses
  <2>4. {[n |-> n + 1, kind |-> "retry"]} \subseteq Entry
    BY <2>1 DEF Entry
  <2> HIDE DEF d
  <2> QED BY <2>2, <2>3, <2>4 DEF d
<1>3. CASE /\ ~(c.status = "CLOSED" \/ suppressed)
           /\ ~(campaign # "COMPLETED" /\ ShouldRetry(att, n, reason))
  <2>1. d = [contact |-> GivenUp(c), entries |-> {}]
    BY <1>3 DEF HandleDisconnect
  <2>2. GivenUp(c) \in ContactRow
    BY DEF GivenUp, ContactRow, Statuses
  <2> HIDE DEF d
  <2> QED BY <2>1, <2>2 DEF d
<1> QED BY <1>1, <1>2, <1>3

\* Putting a dial job into the stream.
LEMMA EnqueueType ==
  ASSUME RedisTypeOK, NEW n \in Attempts, NEW retry \in BOOLEAN,
         EnqueueOnce(n, retry)
  PROVE  stream' \in [Slots -> Message] /\ guard' \subseteq Attempts
<1> DEFINE s == CHOOSE s \in FreeSlots : \A t \in FreeSlots : s <= t
           msg == [st |-> "new", n |-> n, retry |-> retry, del |-> 0]
<1>1. msg \in Message
  BY DialAssumption DEF Message
<1>2. CASE n \in guard \/ FreeSlots = {}
  BY <1>2 DEF EnqueueOnce, RedisTypeOK
<1>3. CASE ~(n \in guard \/ FreeSlots = {})
  <2>1. stream' = [stream EXCEPT ![s] = msg] /\ guard' = guard \cup {n}
    BY <1>3 DEF EnqueueOnce
  <2> HIDE DEF s, msg
  <2> QED BY <1>1, <2>1 DEF RedisTypeOK
<1> QED BY <1>2, <1>3

\* The lease table after a release, a crash or a lost Redis.
LEMMA ReleasedType ==
  ASSUME RedisTypeOK, NEW w
  PROVE  Released(w) \in [Attempts -> Workers \cup {"free", "dead"}]
  BY DEF Released, RedisTypeOK

\* The jobs in hand after an entry left the stream.
LEMMA ForgetType ==
  ASSUME WorkerTypeOK, NEW w, NEW s
  PROVE  Forget(w, s) \in [Workers -> [slot : Slots \cup {0}, n : Attempts, retry : BOOLEAN]]
  BY Constants DEF Forget, WorkerTypeOK

\* A worker goes to another label.
LEMMA GotoType ==
  ASSUME WorkerTypeOK, NEW w, NEW label \in PCs, Goto(w, label)
  PROVE  pc' \in [Workers -> PCs]
  BY DEF Goto, WorkerTypeOK

\* A worker is done with its job.
LEMMA ToIdleType ==
  ASSUME WorkerTypeOK, NEW w, ToIdle(w)
  PROVE  /\ pc' \in [Workers -> PCs]
         /\ seen' \in [Workers -> ContactRow] /\ prior' \in [Workers -> ContactRow]
         /\ ans' \in [Workers -> [kind : Answers, run : RunIds \cup {0}]]
<1>1. pc' \in [Workers -> PCs]
  BY DEF ToIdle, WorkerTypeOK, PCs
<1>2. seen' \in [Workers -> ContactRow] /\ prior' \in [Workers -> ContactRow]
  BY Constants DEF ToIdle, WorkerTypeOK
<1>3. ans' \in [Workers -> [kind : Answers, run : RunIds \cup {0}]]
  BY Constants DEF ToIdle, WorkerTypeOK
<1> QED BY <1>1, <1>2, <1>3

\* Changing the delivery count or the status of a stream entry.
LEMMA DeliveryType ==
  ASSUME NEW m \in Message, NEW d \in 0..(MaxDeliveries + 1)
  PROVE  [m EXCEPT !.del = d] \in Message
  BY DEF Message

\* A job that is left pending.
LEMMA LeaveType ==
  ASSUME RedisTypeOK, WorkerTypeOK, NEW w \in Workers, NEW reset, Leave(w, reset),
         UNCHANGED <<guard, sched, known>>
  PROVE  RedisTypeOK' /\ WorkerTypeOK'
<1>1. stream' \in [Slots -> Message]
  <2>1. CASE stream' = stream
    BY <2>1 DEF RedisTypeOK
  <2>2. CASE stream' = [stream EXCEPT ![job[w].slot].del = 0]
    <3> DEFINE s == job[w].slot
    <3>1. stream' = [stream EXCEPT ![s] = [stream[s] EXCEPT !.del = 0]]
      BY <2>2
    <3>2. s \in Slots => [stream[s] EXCEPT !.del = 0] \in Message
      BY DialAssumption DEF RedisTypeOK, Message
    <3> HIDE DEF s
    <3> QED BY <3>1, <3>2 DEF RedisTypeOK
  <2> QED BY <2>1, <2>2 DEF Leave
<1>2. lease' \in [Attempts -> Workers \cup {"free", "dead"}]
  BY ReleasedType DEF Leave
<1>3. job' \in [Workers -> [slot : Slots \cup {0}, n : Attempts, retry : BOOLEAN]]
  BY Constants DEF Leave, WorkerTypeOK
<1>4. /\ pc' \in [Workers -> PCs]
      /\ seen' \in [Workers -> ContactRow] /\ prior' \in [Workers -> ContactRow]
      /\ ans' \in [Workers -> [kind : Answers, run : RunIds \cup {0}]]
  BY ToIdleType DEF Leave
<1> QED BY <1>1, <1>2, <1>3, <1>4 DEF RedisTypeOK, WorkerTypeOK

\* A fault spends one unit of the budget.
LEMMA FaultType ==
  ASSUME HistoryTypeOK, NEW e, Fault(e), UNCHANGED <<triggers, holds>>
  PROVE  HistoryTypeOK'
  BY DialAssumption DEF HistoryTypeOK, Fault

-----------------------------------------------------------------------------
(* The worker *)

\* Reading a new entry.
LEMMA ReadType == ASSUME TypeOK, NEW w \in Workers, Read(w) PROVE TypeOK'
<1> USE DEF TypeOK
<1>1. PICK s \in Slots :
        /\ stream' = [stream EXCEPT ![s] = [@ EXCEPT !.st = "pending", !.del = 1]]
        /\ job' = [job EXCEPT ![w] = [slot |-> s, n |-> stream[s].n,
                                      retry |-> stream[s].retry]]
  BY DEF Read
<1>2. stream' \in [Slots -> Message]
  <2>1. [stream[s] EXCEPT !.st = "pending", !.del = 1] \in Message
    <3>1. stream[s] \in Message /\ 1 \in 0..(MaxDeliveries + 1)
      BY DialAssumption DEF RedisTypeOK
    <3> QED BY <3>1 DEF Message
  <2> QED BY <1>1, <2>1 DEF RedisTypeOK
<1>3. [slot |-> s, n |-> stream[s].n, retry |-> stream[s].retry]
        \in [slot : Slots \cup {0}, n : Attempts, retry : BOOLEAN]
  BY DEF RedisTypeOK, Message
<1>4. job' \in [Workers -> [slot : Slots \cup {0}, n : Attempts, retry : BOOLEAN]]
  BY <1>1, <1>3 DEF WorkerTypeOK
<1>5. pc' \in [Workers -> PCs]
  BY GotoType DEF Read, PCs
<1>6. RedisTypeOK' /\ WorkerTypeOK'
  BY <1>2, <1>4, <1>5 DEF Read, RedisTypeOK, WorkerTypeOK
<1> QED BY <1>6, PgKept, DograhKept, OtherKept, HistoryKept DEF Read

\* Reclaiming an idle entry.
LEMMA ReclaimType == ASSUME TypeOK, NEW w \in Workers, Reclaim(w) PROVE TypeOK'
<1> USE DEF TypeOK
<1>1. PICK s \in Slots :
        /\ (Idle(s) /\ UNCHANGED faults) \/ TakenTwice(s)
        /\ stream[s].del < MaxDeliveries
        /\ stream' = [stream EXCEPT ![s].del = @ + 1]
        /\ job' = [job EXCEPT ![w] = [slot |-> s, n |-> stream[s].n,
                                      retry |-> stream[s].retry]]
  BY DEF Reclaim
<1>2. stream' \in [Slots -> Message]
  BY <1>1, DialAssumption DEF RedisTypeOK, Message
<1>3. [slot |-> s, n |-> stream[s].n, retry |-> stream[s].retry]
        \in [slot : Slots \cup {0}, n : Attempts, retry : BOOLEAN]
  BY DEF RedisTypeOK, Message
<1>4. job' \in [Workers -> [slot : Slots \cup {0}, n : Attempts, retry : BOOLEAN]]
  BY <1>1, <1>3 DEF WorkerTypeOK
<1>5. pc' \in [Workers -> PCs]
  BY GotoType DEF Reclaim, PCs
<1>6. RedisTypeOK' /\ WorkerTypeOK'
  BY <1>2, <1>4, <1>5 DEF Reclaim, RedisTypeOK, WorkerTypeOK
<1>7. HistoryTypeOK'
  BY <1>1, FaultType, HistoryKept DEF Reclaim, TakenTwice, history
<1> QED BY <1>6, <1>7, PgKept, DograhKept, OtherKept DEF Reclaim

\* Dead-lettering a poison entry.
LEMMA DeadLetterType == ASSUME TypeOK, NEW w \in Workers, DeadLetter(w) PROVE TypeOK'
<1> USE DEF TypeOK
<1>1. PICK s \in Slots : stream' = [stream EXCEPT ![s] = NoMessage] /\ job' = Forget(w, s)
  BY DEF DeadLetter
<1>2. RedisTypeOK'
  BY <1>1, Constants DEF DeadLetter, RedisTypeOK
<1>3. WorkerTypeOK'
  BY <1>1, ForgetType DEF DeadLetter, WorkerTypeOK
<1>4. contact' \in ContactRow
  <2>1. Parked(contact) \in ContactRow
    BY DEF Parked, PgTypeOK, ContactRow, Statuses
  <2> QED BY <2>1 DEF DeadLetter, PgTypeOK
<1>5. PgTypeOK'
  BY <1>4 DEF DeadLetter, PgTypeOK
<1> QED BY <1>2, <1>3, <1>5, DograhKept, OtherKept, HistoryKept DEF DeadLetter

\* Acknowledging a job.
LEMMA AckType == ASSUME TypeOK, NEW w \in Workers, Ack(w) PROVE TypeOK'
<1> USE DEF TypeOK
<1>1. stream' \in [Slots -> Message]
  BY Constants DEF Ack, RedisTypeOK
<1>2. lease' \in [Attempts -> Workers \cup {"free", "dead"}]
  BY ReleasedType DEF Ack
<1>3. job' \in [Workers -> [slot : Slots \cup {0}, n : Attempts, retry : BOOLEAN]]
  BY ForgetType DEF Ack
<1>4. RedisTypeOK'
  BY <1>1, <1>2 DEF Ack, RedisTypeOK
<1>5. WorkerTypeOK'
  BY <1>3, ToIdleType DEF Ack, WorkerTypeOK
<1> QED BY <1>4, <1>5, PgKept, DograhKept, OtherKept, HistoryKept DEF Ack

\* The steps before admission.
LEMMA TakenType ==
  ASSUME TypeOK, NEW w \in Workers,
         Blocked(w) \/ PutAside(w) \/ Admit(w) \/ NotAdmitted(w)
  PROVE  TypeOK'
<1> USE DEF TypeOK
<1>1. CASE Blocked(w)
  BY <1>1, LeaveType, PgKept, DograhKept, OtherKept, HistoryKept DEF Blocked
<1>2. CASE PutAside(w)
  <2>1. pc' \in [Workers -> PCs]
    BY <1>2, GotoType DEF PutAside, PCs
  <2>2. WorkerTypeOK'
    BY <1>2, <2>1 DEF PutAside, WorkerTypeOK
  <2> QED BY <1>2, <2>2, PgKept, RedisKept, DograhKept, OtherKept, HistoryKept
          DEF PutAside
<1>3. CASE Admit(w)
  <2>1. pc' \in [Workers -> PCs]
    BY <1>3, GotoType DEF Admit, PCs
  <2>2. WorkerTypeOK'
    BY <1>3, <2>1 DEF Admit, WorkerTypeOK
  <2>3. RedisTypeOK'
    BY <1>3 DEF Admit, RedisTypeOK
  <2> QED BY <1>3, <2>2, <2>3, PgKept, DograhKept, OtherKept, HistoryKept DEF Admit
<1>4. CASE NotAdmitted(w)
  <2>1. HistoryTypeOK'
    BY <1>4, FaultType, HistoryKept DEF NotAdmitted, history
  <2> QED BY <1>4, <2>1, LeaveType, PgKept, DograhKept, OtherKept DEF NotAdmitted
<1> QED BY <1>1, <1>2, <1>3, <1>4

\* Putting a job aside.
LEMMA AsideType ==
  ASSUME TypeOK, NEW w \in Workers,
         SettlePaused(w) \/ SettleWindow(w) \/ Unguard(w)
  PROVE  TypeOK'
<1> USE DEF TypeOK
<1>1. CASE SettlePaused(w)
  <2>1. RedisTypeOK' /\ WorkerTypeOK'
    <3>1. CASE Rebuildable(w) \/ AlreadyDialed(w)
      <4>1. pc' \in [Workers -> PCs]
        BY <1>1, <3>1, GotoType DEF SettlePaused, PCs
      <4> QED BY <1>1, <3>1, <4>1 DEF SettlePaused, RedisTypeOK, WorkerTypeOK
    <3>2. CASE ~(Rebuildable(w) \/ AlreadyDialed(w))
      BY <1>1, <3>2, LeaveType DEF SettlePaused
    <3> QED BY <3>1, <3>2
  <2> QED BY <1>1, <2>1, PgKept, DograhKept, OtherKept, HistoryKept DEF SettlePaused
<1>2. CASE SettleWindow(w)
  <2>1. RedisTypeOK' /\ WorkerTypeOK'
    <3>1. CASE Leave(w, TRUE) /\ UNCHANGED sched
      BY <1>2, <3>1, LeaveType DEF SettleWindow
    <3>2. CASE /\ Goto(w, "unguard") \/ Goto(w, "ack")
               /\ \/ UNCHANGED sched
                  \/ sched' = sched \cup {[n |-> 1, kind |-> "dial"]}
                  \/ sched' = sched \cup {[n |-> job[w].n, kind |-> "moved"]}
               /\ UNCHANGED <<job, seen, prior, ans, stream, lease>>
      <4>1. pc' \in [Workers -> PCs]
        BY <3>2, GotoType DEF PCs
      <4>2. sched' \subseteq Entry
        BY <3>2, Constants DEF RedisTypeOK, WorkerTypeOK, Entry
      <4> QED BY <1>2, <3>2, <4>1, <4>2 DEF SettleWindow, RedisTypeOK, WorkerTypeOK
    <3> QED BY <1>2, <3>1, <3>2 DEF SettleWindow
  <2> QED BY <1>2, <2>1, PgKept, DograhKept, OtherKept, HistoryKept DEF SettleWindow
<1>3. CASE Unguard(w)
  <2>1. pc' \in [Workers -> PCs]
    BY <1>3, GotoType DEF Unguard, PCs
  <2>2. RedisTypeOK' /\ WorkerTypeOK'
    BY <1>3, <2>1 DEF Unguard, RedisTypeOK, WorkerTypeOK
  <2> QED BY <1>3, <2>2, PgKept, DograhKept, OtherKept, HistoryKept DEF Unguard
<1> QED BY <1>1, <1>2, <1>3

-----------------------------------------------------------------------------
(* _dial and the trigger *)

\* A list of runs is an answer.
LEMMA ListingType ==
  ASSUME NEW m
  PROVE  Listing(m) \in [kind : Answers, run : RunIds \cup {0}]
<1>1. CASE Cardinality(RunsOf(m)) = 0
  BY <1>1 DEF Listing, Answers
<1>2. CASE Cardinality(RunsOf(m)) = 1
  <2>1. RunsOf(m) # {}
    BY <1>2, FS_EmptySet
  <2>2. (CHOOSE k \in RunsOf(m) : TRUE) \in RunIds
    BY <2>1 DEF RunsOf
  <2>3. Listing(m) = [kind |-> "one", run |-> CHOOSE k \in RunsOf(m) : TRUE]
    BY <1>2 DEF Listing
  <2> QED BY <2>2, <2>3 DEF Answers
<1>3. CASE Cardinality(RunsOf(m)) # 0 /\ Cardinality(RunsOf(m)) # 1
  <2>1. Listing(m) = [kind |-> "many", run |-> 0]
    BY <1>3 DEF Listing
  <2> QED BY <2>1 DEF Answers
<1> QED BY <1>1, <1>2, <1>3

\* The job goes on, or is put aside, after _dial's reads.
LEMMA GoOnType ==
  ASSUME TypeOK, NEW w \in Workers, NEW label \in PCs, NEW kind \in Answers,
         GoOn(w, label, kind), UNCHANGED <<guard, sched, known>>
  PROVE  RedisTypeOK' /\ WorkerTypeOK'
<1> USE DEF TypeOK
<1>1. pc' \in [Workers -> PCs]
  BY GotoType DEF GoOn
<1>2. seen' \in [Workers -> ContactRow]
  BY DEF GoOn, WorkerTypeOK, PgTypeOK
<1>3. [kind |-> kind, run |-> 0] \in [kind : Answers, run : RunIds \cup {0}]
  OBVIOUS
<1>4. ans' \in [Workers -> [kind : Answers, run : RunIds \cup {0}]]
  BY <1>3 DEF GoOn, WorkerTypeOK
<1> QED BY <1>1, <1>2, <1>4 DEF GoOn, RedisTypeOK, WorkerTypeOK

\* The reads of _dial.
LEMMA LoadType == ASSUME TypeOK, NEW w \in Workers, Load(w) PROVE TypeOK'
<1>0. /\ UNCHANGED <<guard, sched, known>>
      /\ UNCHANGED <<pgVars, dograhVars, otherVars, history>>
  BY DEF Load
<1>1. \/ \E label \in PCs, kind \in Answers : GoOn(w, label, kind)
      \/ Leave(w, TRUE)
      \/ \E label \in PCs : Aside(w, label)
  <2>1. ASSUME NEW a, ResolveClaim(w, a)
        PROVE  (\E label \in PCs, kind \in Answers : GoOn(w, label, kind)) \/ Leave(w, TRUE)
    <3>1. "ack" \in PCs /\ "lookup1" \in PCs /\ "none" \in Answers
      BY DEF PCs, Answers
    <3>2. GoOn(w, "ack", "none") \/ Leave(w, TRUE) \/ GoOn(w, "lookup1", "none")
      BY <2>1 DEF ResolveClaim
    <3> QED BY <3>1, <3>2
  <2>2. ASSUME NEW n, NEW kind \in Answers, RetryGate(w, n, kind)
        PROVE  \E label \in PCs, kd \in Answers : GoOn(w, label, kd)
    <3>1. "ack" \in PCs /\ "claim" \in PCs /\ "lookup2" \in PCs /\ "none" \in Answers
      BY DEF PCs, Answers
    <3>2. GoOn(w, "claim", kind) \/ GoOn(w, "ack", "none") \/ GoOn(w, "lookup2", kind)
      BY <2>2 DEF RetryGate
    <3> QED BY <3>1, <3>2
  <2>3. /\ "ack" \in PCs /\ "paused" \in PCs /\ "closed" \in PCs
        /\ "none" \in Answers /\ "held" \in Answers
    BY DEF PCs, Answers
  <2>4. \/ GoOn(w, "ack", "none")
        \/ ResolveClaim(w, attempt[job[w].n])
        \/ Aside(w, "paused") \/ Aside(w, "closed")
        \/ RetryGate(w, job[w].n, "held") \/ RetryGate(w, job[w].n, "none")
    BY DEF Load
  <2> QED BY <2>1, <2>2, <2>3, <2>4
<1>2. RedisTypeOK' /\ WorkerTypeOK'
  <2>1. CASE \E label \in PCs, kind \in Answers : GoOn(w, label, kind)
    BY <1>0, <2>1, GoOnType
  <2>2. CASE Leave(w, TRUE)
    BY <1>0, <2>2, LeaveType DEF TypeOK
  <2>3. ASSUME NEW label \in PCs, Aside(w, label) PROVE RedisTypeOK' /\ WorkerTypeOK'
    <3>1. pc' \in [Workers -> PCs]
      BY <2>3, GotoType DEF Aside, TypeOK
    <3>2. lease' \in [Attempts -> Workers \cup {"free", "dead"}]
      BY <2>3, ReleasedType DEF Aside, TypeOK
    <3> QED BY <1>0, <2>3, <3>1, <3>2 DEF Aside, TypeOK, RedisTypeOK, WorkerTypeOK
  <2> QED BY <1>1, <2>1, <2>2, <2>3
<1> QED BY <1>0, <1>2, PgKept, DograhKept, OtherKept, HistoryKept DEF TypeOK

\* Replacing one attempt row.
LEMMA RowUpdate ==
  ASSUME NEW att \in [Attempts -> AttemptRow], NEW n, NEW a,
         n \in Attempts => a \in AttemptRow
  PROVE  [att EXCEPT ![n] = a] \in [Attempts -> AttemptRow]
  OBVIOUS

\* The row of a claimed attempt.
LEMMA ClaimedRow ==
  ASSUME NEW a \in AttemptRow
  PROVE  [a EXCEPT !.state = "INITIATED", !.held = FALSE, !.provErr = FALSE,
                   !.age = 0] \in AttemptRow
<1>1. "INITIATED" \in AttemptStates /\ 0 \in 0..2
  BY DEF AttemptStates
<1> QED BY <1>1 DEF AttemptRow

\* The claim, or the refusal of a duplicate.
LEMMA ClaimIfOpenType ==
  ASSUME TypeOK, NEW w \in Workers, NEW n \in Attempts, ClaimIfOpen(w, n, attempt),
         UNCHANGED <<campaign, suppressed, stop, windowOpen, guard, sched, known>>
  PROVE  PgTypeOK' /\ RedisTypeOK' /\ WorkerTypeOK'
<1> USE DEF TypeOK
<1>1. CASE ~OutboundOpen(w)
  <2>1. Leave(w, TRUE) /\ attempt' = attempt /\ UNCHANGED contact
    BY <1>1 DEF ClaimIfOpen
  <2> QED BY <2>1, LeaveType DEF PgTypeOK
<1>2. CASE OutboundOpen(w) /\ ~(ans[w].kind = "held") /\ Taken(attempt, n)
  <2>1. /\ Goto(w, "ack") /\ attempt' = attempt
        /\ UNCHANGED <<contact, prior, job, lease, seen, ans, stream>>
    BY <1>2 DEF ClaimIfOpen, CommitClaim
  <2>2. pc' \in [Workers -> PCs]
    BY <2>1, GotoType DEF PCs
  <2> QED BY <2>1, <2>2 DEF PgTypeOK, RedisTypeOK, WorkerTypeOK
<1>3. CASE OutboundOpen(w) /\ ~(~(ans[w].kind = "held") /\ Taken(attempt, n))
  <2> DEFINE c == seen[w]
             new == [status |-> "DIALING", count |-> c.count + 1, due |-> FALSE, no |-> 0]
             row == [attempt[n] EXCEPT !.state = "INITIATED", !.held = FALSE,
                                       !.provErr = FALSE, !.age = 0]
  <2>1. /\ attempt' = [attempt EXCEPT ![n] = row]
        /\ contact' = Merge(contact, c, new, FALSE)
        /\ prior' = [prior EXCEPT ![w] = c]
        /\ Goto(w, "send")
        /\ UNCHANGED <<job, lease, seen, ans, stream>>
    BY <1>3 DEF ClaimIfOpen, CommitClaim
  <2>2. c \in ContactRow
    BY DEF WorkerTypeOK
  <2>3. new \in ContactRow
    BY <2>2 DEF ContactRow, Statuses
  <2>4. attempt[n] \in AttemptRow
    BY DEF PgTypeOK
  <2>5. row \in AttemptRow
    BY <2>4, ClaimedRow
  <2> HIDE DEF c, new, row
  <2>6. contact' \in ContactRow
    BY <2>1, <2>2, <2>3, MergeType DEF PgTypeOK
  <2>7. attempt' \in [Attempts -> AttemptRow]
    BY <2>1, <2>5, RowUpdate DEF PgTypeOK
  <2>8. prior' \in [Workers -> ContactRow]
    BY <2>1, <2>2 DEF WorkerTypeOK
  <2>9. pc' \in [Workers -> PCs]
    BY <2>1, GotoType DEF PCs
  <2> QED BY <2>1, <2>6, <2>7, <2>8, <2>9 DEF PgTypeOK, RedisTypeOK, WorkerTypeOK
<1> QED BY <1>1, <1>2, <1>3

\* The durable claim.
LEMMA ClaimType == ASSUME TypeOK, NEW w \in Workers, Claim(w) PROVE TypeOK'
<1>1. job[w].n \in Attempts
  BY DEF TypeOK, WorkerTypeOK
<1>2. PgTypeOK' /\ RedisTypeOK' /\ WorkerTypeOK'
  BY <1>1, ClaimIfOpenType DEF Claim
<1> QED BY <1>2, DograhKept, OtherKept, HistoryKept DEF Claim, TypeOK

\* The second lookup answers.
LEMMA Lookup2Type == ASSUME TypeOK, NEW w \in Workers, Lookup2(w) PROVE TypeOK'
<1> USE DEF TypeOK
<1>1. ans' = ans \/ ans' = [ans EXCEPT ![w] = Listing(job[w].n - 1)]
  BY DEF Lookup2
<1>2. ans' \in [Workers -> [kind : Answers, run : RunIds \cup {0}]]
  BY <1>1, ListingType DEF WorkerTypeOK
<1>3. pc' \in [Workers -> PCs]
  BY GotoType DEF Lookup2, PCs
<1>4. WorkerTypeOK'
  BY <1>2, <1>3 DEF Lookup2, WorkerTypeOK
<1> QED BY <1>4, PgKept, RedisKept, DograhKept, OtherKept, HistoryKept DEF Lookup2

\* The second lookup fails.
LEMMA Lookup2DownType == ASSUME TypeOK, NEW w \in Workers, Lookup2Down(w) PROVE TypeOK'
<1> DEFINE m == job[w].n - 1
<1> USE DEF TypeOK
<1>1. HistoryTypeOK'
  BY FaultType DEF Lookup2Down
<1>2. CASE DeferralsSpent(m)
  <2>1. /\ contact' = Merge(contact, seen[w],
                            [seen[w] EXCEPT !.status = "COMPLETED_PARTIAL"], FALSE)
        /\ Goto(w, "ack")
        /\ UNCHANGED <<attempt, job, seen, prior, ans, stream, lease>>
    BY <1>2 DEF Lookup2Down
  <2>2. seen[w] \in ContactRow /\ "COMPLETED_PARTIAL" \in Statuses
    BY DEF WorkerTypeOK, Statuses
  <2>3. contact' \in ContactRow
    BY <2>1, <2>2, StatusType, MergeType DEF PgTypeOK
  <2>4. pc' \in [Workers -> PCs]
    BY <2>1, GotoType DEF PCs
  <2>5. PgTypeOK' /\ RedisTypeOK' /\ WorkerTypeOK'
    BY <2>1, <2>3, <2>4 DEF Lookup2Down, PgTypeOK, RedisTypeOK, WorkerTypeOK
  <2> QED BY <1>1, <2>5, DograhKept, OtherKept DEF Lookup2Down
<1>3. CASE ~DeferralsSpent(m)
  <2>1. /\ attempt' = [attempt EXCEPT ![m].deferrals = @ + 1]
        /\ Leave(w, TRUE) /\ UNCHANGED contact
        /\ UNCHANGED <<guard, sched, known, campaign, suppressed, stop, windowOpen>>
    BY <1>3 DEF Lookup2Down
  <2>2. ~(attempt[m].deferrals >= MaxDeferrals)
    BY <1>3 DEF DeferralsSpent
  <2> HIDE DEF m
  <2>3. m \in Attempts => [attempt[m] EXCEPT !.deferrals = @ + 1] \in AttemptRow
    BY <2>2, DialAssumption DEF PgTypeOK, AttemptRow
  <2>4. attempt' \in [Attempts -> AttemptRow]
    BY <2>1, <2>3 DEF PgTypeOK
  <2>5. PgTypeOK'
    BY <2>1, <2>4 DEF PgTypeOK
  <2>6. RedisTypeOK' /\ WorkerTypeOK'
    BY <2>1, LeaveType
  <2> QED BY <1>1, <2>5, <2>6, DograhKept, OtherKept DEF Lookup2Down
<1> QED BY <1>2, <1>3

\* The decision after the second lookup.
LEMMA Gate2Type == ASSUME TypeOK, NEW w \in Workers, Gate2(w) PROVE TypeOK'
<1> DEFINE n == job[w].n
           m == n - 1
<1> USE DEF TypeOK
<1>0. n \in Attempts
  BY DEF WorkerTypeOK
<1>1. CASE /\ Goto(w, "ack")
           /\ UNCHANGED <<contact, attempt, job, seen, prior, ans, stream, lease>>
  <2>1. pc' \in [Workers -> PCs]
    BY <1>1, GotoType DEF PCs
  <2>2. PgTypeOK' /\ RedisTypeOK' /\ WorkerTypeOK'
    BY <1>1, <2>1 DEF Gate2, PgTypeOK, RedisTypeOK, WorkerTypeOK
  <2> QED BY <2>2, DograhKept, OtherKept, HistoryKept DEF Gate2
<1>2. CASE /\ attempt' = [attempt EXCEPT ![m] = [Reopened(@) EXCEPT !.run = ans[w].run]]
           /\ contact' = Merge(contact, seen[w], [seen[w] EXCEPT !.status = "DIALING"], FALSE)
           /\ Goto(w, "ack")
           /\ UNCHANGED <<job, seen, prior, ans, stream, lease>>
  <2>1. pc' \in [Workers -> PCs]
    BY <1>2, GotoType DEF PCs
  <2>2. seen[w] \in ContactRow /\ "DIALING" \in Statuses /\ ans[w].run \in RunIds \cup {0}
    BY DEF WorkerTypeOK, Statuses
  <2>3. contact' \in ContactRow
    BY <1>2, <2>2, StatusType, MergeType DEF PgTypeOK
  <2> HIDE DEF n, m
  <2>4. m \in Attempts => attempt[m] \in AttemptRow
    BY DEF PgTypeOK
  <2>5. m \in Attempts => [Reopened(attempt[m]) EXCEPT !.run = ans[w].run] \in AttemptRow
    BY <2>2, <2>4 DEF Reopened, AttemptRow, AttemptStates
  <2>6. attempt' \in [Attempts -> AttemptRow]
    BY <1>2, <2>5 DEF PgTypeOK
  <2>7. PgTypeOK' /\ RedisTypeOK' /\ WorkerTypeOK'
    BY <1>2, <2>1, <2>3, <2>6 DEF Gate2, PgTypeOK, RedisTypeOK, WorkerTypeOK
  <2> QED BY <2>7, DograhKept, OtherKept, HistoryKept DEF Gate2
<1>3. CASE ClaimIfOpen(w, n, attempt)
  <2>1. PgTypeOK' /\ RedisTypeOK' /\ WorkerTypeOK'
    BY <1>0, <1>3, ClaimIfOpenType DEF Gate2
  <2> QED BY <2>1, DograhKept, OtherKept, HistoryKept DEF Gate2
<1> QED BY <1>1, <1>2, <1>3 DEF Gate2

\* The request leaves.
LEMMA SendType == ASSUME TypeOK, NEW w \in Workers, Send(w) PROVE TypeOK'
<1> USE DEF TypeOK
<1>1. job[w].n \in Attempts
  BY DEF WorkerTypeOK
<1>2. DograhTypeOK'
  BY <1>1 DEF Send, DograhTypeOK
<1>3. HistoryTypeOK'
  BY <1>1 DEF Send, HistoryTypeOK
<1>4. pc' \in [Workers -> PCs]
  BY GotoType DEF Send, PCs
<1>5. seen' \in [Workers -> ContactRow]
  BY DEF Send, WorkerTypeOK, PgTypeOK
<1>6. WorkerTypeOK'
  BY <1>4, <1>5 DEF Send, WorkerTypeOK
<1> QED BY <1>2, <1>3, <1>6, PgKept, RedisKept, OtherKept DEF Send

\* The row of an attempt that failed to connect.
LEMMA FailedRow ==
  ASSUME NEW a \in AttemptRow, NEW amb \in BOOLEAN, NEW held \in BOOLEAN
  PROVE  [a EXCEPT !.state = "FAILED_TO_CONNECT", !.provErr = TRUE,
                   !.amb = amb, !.held = held] \in AttemptRow
<1>1. "FAILED_TO_CONNECT" \in AttemptStates
  BY DEF AttemptStates
<1> QED BY <1>1 DEF AttemptRow

\* Recording a failed trigger on the attempt.
LEMMA FailedAttemptType ==
  ASSUME PgTypeOK, NEW n \in Attempts, NEW amb \in BOOLEAN
  PROVE  FailedAttempt(n, amb) \in [Attempts -> AttemptRow]
<1>1. attempt[n] \in AttemptRow
  BY DEF PgTypeOK
<1>2. (attempt[n].amb \/ amb) \in BOOLEAN
  OBVIOUS
<1>3. [attempt[n] EXCEPT !.state = "FAILED_TO_CONNECT", !.provErr = TRUE,
                         !.amb = attempt[n].amb \/ amb, !.held = FALSE] \in AttemptRow
  BY <1>1, <1>2, FailedRow
<1> QED BY <1>3 DEF FailedAttempt, PgTypeOK

\* Recording a failed trigger, with the recovery decision.
LEMMA RecordFailureType ==
  ASSUME TypeOK, NEW w \in Workers, NEW amb \in BOOLEAN, NEW reason,
         RecordFailure(w, amb, reason)
  PROVE  TypeOK'
<1> DEFINE n == job[w].n
           att == FailedAttempt(n, amb)
           d == HandleDisconnect(seen[w], att, n, reason)
<1> USE DEF TypeOK
<1>1. n \in Attempts /\ seen[w] \in ContactRow
  BY DEF WorkerTypeOK
<1>2. att \in [Attempts -> AttemptRow]
  BY <1>1, FailedAttemptType
<1>3. d.contact \in ContactRow /\ d.entries \subseteq Entry
  BY <1>1, DisconnectType
<1>4. /\ attempt' = att
      /\ contact' = Merge(contact, seen[w], d.contact, d.entries # {})
      /\ sched' = sched \cup d.entries
      /\ Goto(w, "ack")
      /\ UNCHANGED <<campaign, suppressed, stop, windowOpen, stream, guard, lease,
                     job, seen, prior, ans, known>>
      /\ UNCHANGED <<dograhVars, otherVars, history>>
  BY DEF RecordFailure
<1> HIDE DEF n, att, d
<1>5. contact' \in ContactRow
  BY <1>1, <1>3, <1>4, MergeType DEF PgTypeOK
<1>6. pc' \in [Workers -> PCs]
  BY <1>4, GotoType DEF PCs
<1>7. PgTypeOK'
  BY <1>2, <1>4, <1>5 DEF PgTypeOK
<1>8. RedisTypeOK'
  BY <1>3, <1>4 DEF RedisTypeOK
<1>9. WorkerTypeOK'
  BY <1>4, <1>6 DEF WorkerTypeOK
<1> QED BY <1>4, <1>7, <1>8, <1>9, DograhKept, OtherKept, HistoryKept

\* The answers to a trigger.
LEMMA AnswerType ==
  ASSUME TypeOK, NEW w \in Workers,
         AnswerOk(w) \/ EngageHalt(w) \/ AnswerConfig(w) \/ AnswerFailed(w)
           \/ AnswerAmbiguous(w)
  PROVE  TypeOK'
<1> USE DEF TypeOK
<1>0. job[w].n \in Attempts /\ seen[w] \in ContactRow /\ prior[w] \in ContactRow
      /\ ans[w].run \in RunIds \cup {0} /\ attempt[job[w].n] \in AttemptRow
  BY DEF WorkerTypeOK, PgTypeOK
<1>1. CASE AnswerOk(w)
  <2>1. [attempt[job[w].n] EXCEPT !.run = ans[w].run, !.held = FALSE] \in AttemptRow
    BY <1>0 DEF AttemptRow
  <2>2. attempt' \in [Attempts -> AttemptRow]
    BY <1>1, <2>1 DEF AnswerOk, PgTypeOK
  <2>3. pc' \in [Workers -> PCs]
    BY <1>1, GotoType DEF AnswerOk, PCs
  <2>4. PgTypeOK' /\ WorkerTypeOK'
    BY <1>1, <2>2, <2>3 DEF AnswerOk, PgTypeOK, WorkerTypeOK
  <2> QED BY <1>1, <2>4, RedisKept, DograhKept, OtherKept, HistoryKept DEF AnswerOk
<1>2. CASE EngageHalt(w)
  <2>1. stop' \subseteq {"kill", "halt"}
    BY <1>2 DEF EngageHalt, PgTypeOK
  <2>2. pc' \in [Workers -> PCs]
    BY <1>2, GotoType DEF EngageHalt, PCs
  <2>3. known' \in [Workers -> SUBSET {"kill", "halt"}]
    BY <1>2, <2>1 DEF EngageHalt, WorkerTypeOK
  <2>4. PgTypeOK' /\ WorkerTypeOK'
    BY <1>2, <2>1, <2>2, <2>3 DEF EngageHalt, PgTypeOK, WorkerTypeOK
  <2> QED BY <1>2, <2>4, RedisKept, DograhKept, OtherKept, HistoryKept DEF EngageHalt
<1>3. CASE AnswerConfig(w)
  <2>1. [attempt[job[w].n] EXCEPT !.state = "FAILED_TO_CONNECT", !.provErr = TRUE,
                                  !.held = TRUE] \in AttemptRow
    BY <1>0 DEF AttemptRow, AttemptStates
  <2>2. attempt' \in [Attempts -> AttemptRow]
    BY <1>3, <2>1 DEF AnswerConfig, PgTypeOK
  <2>3. Restored(seen[w], prior[w]) \in ContactRow
    BY <1>0 DEF Restored, ContactRow
  <2>4. contact' \in ContactRow
    BY <1>0, <1>3, <2>3, MergeType DEF AnswerConfig, PgTypeOK
  <2>5. PgTypeOK'
    BY <1>3, <2>2, <2>4 DEF AnswerConfig, PgTypeOK
  <2>6. RedisTypeOK' /\ WorkerTypeOK'
    BY <1>3, LeaveType DEF AnswerConfig, KeepJob
  <2>7. HistoryTypeOK'
    BY <1>0, <1>3 DEF AnswerConfig, HistoryTypeOK
  <2> QED BY <1>3, <2>5, <2>6, <2>7, DograhKept, OtherKept DEF AnswerConfig
<1>4. CASE AnswerFailed(w)
  BY <1>4, RecordFailureType DEF AnswerFailed
<1>5. CASE AnswerAmbiguous(w)
  <2>1. pc' \in [Workers -> PCs]
    BY <1>5, GotoType DEF AnswerAmbiguous, PCs
  <2>2. WorkerTypeOK'
    BY <1>5, <2>1 DEF AnswerAmbiguous, WorkerTypeOK
  <2> QED BY <1>5, <2>2, PgKept, RedisKept, DograhKept, OtherKept, HistoryKept
          DEF AnswerAmbiguous
<1> QED BY <1>1, <1>2, <1>3, <1>4, <1>5

\* The first lookup and what follows from it.
LEMMA Lookup1Type ==
  ASSUME TypeOK, NEW w \in Workers, Lookup1(w) \/ Resolve1(w) \/ RecoverySwallowed(w)
  PROVE  TypeOK'
<1> USE DEF TypeOK
<1>0. job[w].n \in Attempts /\ ans[w].run \in RunIds \cup {0}
      /\ attempt[job[w].n] \in AttemptRow
  BY DEF WorkerTypeOK, PgTypeOK
<1>1. CASE Lookup1(w)
  <2>1. [kind |-> "down", run |-> 0] \in [kind : Answers, run : RunIds \cup {0}]
    BY DEF Answers
  <2>2. \/ ans' = [ans EXCEPT ![w] = Listing(job[w].n)]
        \/ ans' = [ans EXCEPT ![w] = [kind |-> "down", run |-> 0]]
    BY <1>1 DEF Lookup1
  <2>3. ans' \in [Workers -> [kind : Answers, run : RunIds \cup {0}]]
    BY <2>1, <2>2, ListingType DEF WorkerTypeOK
  <2>4. pc' \in [Workers -> PCs]
    BY <1>1, GotoType DEF Lookup1, PCs
  <2>5. WorkerTypeOK'
    BY <1>1, <2>3, <2>4 DEF Lookup1, WorkerTypeOK
  <2>6. HistoryTypeOK'
    BY <1>1, FaultType, HistoryKept DEF Lookup1, history
  <2> QED BY <1>1, <2>5, <2>6, PgKept, RedisKept, DograhKept, OtherKept DEF Lookup1
<1>2. CASE Resolve1(w)
  <2>1. CASE ans[w].kind \in {"one", "many"}
    <3>1. /\ attempt' = attempt \/ attempt' = [attempt EXCEPT ![job[w].n].run = ans[w].run]
          /\ Goto(w, "ack")
          /\ UNCHANGED <<contact, campaign, suppressed, stop, windowOpen,
                         job, seen, prior, ans, known>>
          /\ UNCHANGED <<redisVars, dograhVars, otherVars, history>>
      BY <1>2, <2>1 DEF Resolve1
    <3>2. [attempt[job[w].n] EXCEPT !.run = ans[w].run] \in AttemptRow
      BY <1>0 DEF AttemptRow
    <3>3. attempt' \in [Attempts -> AttemptRow]
      BY <3>1, <3>2 DEF PgTypeOK
    <3>4. pc' \in [Workers -> PCs]
      BY <3>1, GotoType DEF PCs
    <3>5. PgTypeOK' /\ WorkerTypeOK'
      BY <3>1, <3>3, <3>4 DEF PgTypeOK, WorkerTypeOK
    <3> QED BY <3>1, <3>5, RedisKept, DograhKept, OtherKept, HistoryKept
  <2>2. CASE RecordFailure(w, TRUE, "provider")
    BY <2>2, RecordFailureType
  <2> QED BY <1>2, <2>1, <2>2 DEF Resolve1
<1>3. CASE RecoverySwallowed(w)
  <2>1. attempt' \in [Attempts -> AttemptRow]
    BY <1>0, <1>3, FailedAttemptType DEF RecoverySwallowed
  <2>2. pc' \in [Workers -> PCs]
    BY <1>3, GotoType DEF RecoverySwallowed, PCs
  <2>3. PgTypeOK' /\ WorkerTypeOK'
    BY <1>3, <2>1, <2>2 DEF RecoverySwallowed, PgTypeOK, WorkerTypeOK
  <2>4. HistoryTypeOK'
    BY <1>3, FaultType DEF RecoverySwallowed
  <2> QED BY <1>3, <2>3, <2>4, RedisKept, DograhKept, OtherKept DEF RecoverySwallowed
<1> QED BY <1>1, <1>2, <1>3

\* Interruptions and the cached controls.
LEMMA InterruptType ==
  ASSUME TypeOK, NEW w \in Workers,
         Crash(w) \/ Abandon(w) \/ CacheExpires(w)
  PROVE  TypeOK'
<1> USE DEF TypeOK
<1>1. CASE Crash(w)
  <2>1. lease' \in [Attempts -> Workers \cup {"free", "dead"}]
    BY <1>1 DEF Crash, RedisTypeOK
  <2>2. job' \in [Workers -> [slot : Slots \cup {0}, n : Attempts, retry : BOOLEAN]]
    BY <1>1, Constants DEF Crash, WorkerTypeOK
  <2>3. RedisTypeOK'
    BY <1>1, <2>1 DEF Crash, RedisTypeOK
  <2>4. WorkerTypeOK'
    BY <1>1, <2>2, ToIdleType DEF Crash, WorkerTypeOK
  <2>5. HistoryTypeOK'
    BY <1>1, FaultType DEF Crash
  <2> QED BY <1>1, <2>3, <2>4, <2>5, PgKept, DograhKept, OtherKept DEF Crash
<1>2. CASE Abandon(w)
  <2>1. HistoryTypeOK'
    BY <1>2, FaultType DEF Abandon
  <2> QED BY <1>2, <2>1, LeaveType, PgKept, DograhKept, OtherKept DEF Abandon
<1>3. CASE CacheExpires(w)
  <2>1. WorkerTypeOK'
    BY <1>3 DEF CacheExpires, WorkerTypeOK, PgTypeOK
  <2> QED BY <1>3, <2>1, PgKept, RedisKept, DograhKept, OtherKept, HistoryKept
          DEF CacheExpires
<1> QED BY <1>1, <1>2, <1>3

-----------------------------------------------------------------------------
(* Recovery *)

\* The dispatcher takes an entry.
LEMMA DispatchClaimType == ASSUME TypeOK, DispatchClaim PROVE TypeOK'
<1> USE DEF TypeOK
<1>1. PICK e \in sched : /\ sched' = sched \ {e}
                         /\ disp' = [pc |-> "claimed", e |-> e, seen |-> NewContact]
  BY DEF DispatchClaim
<1>2. e \in Entry
  BY DEF RedisTypeOK
<1>3. RedisTypeOK'
  BY <1>1 DEF DispatchClaim, RedisTypeOK
<1>4. disp' \in [pc : {"idle", "claimed", "keep", "full", "clear"},
                 e : Entry, seen : ContactRow]
  BY <1>1, <1>2, Constants
<1>5. OtherTypeOK'
  BY <1>4 DEF DispatchClaim, OtherTypeOK
<1> QED BY <1>3, <1>5, PgKept, DograhKept, WorkerKept, HistoryKept DEF DispatchClaim

\* The dispatcher decides about a retry.
LEMMA DispatchRetryType == ASSUME TypeOK, DispatchRetry PROVE TypeOK'
<1> DEFINE e == disp.e
           DispType == [pc : {"idle", "claimed", "keep", "full", "clear"},
                        e : Entry, seen : ContactRow]
<1> USE DEF TypeOK
<1>0. e \in Entry /\ e.n \in Attempts /\ disp \in DispType
  BY DEF OtherTypeOK, Entry
<1>1. \E label \in {"clear", "keep", "full"} :
        disp' = [disp EXCEPT !.pc = label, !.seen = contact]
  BY DEF DispatchRetry
<1>2. \/ UNCHANGED <<sched, stream, guard>>
      \/ sched' = sched \cup {e} /\ UNCHANGED <<stream, guard>>
      \/ EnqueueOnce(e.n, TRUE) /\ UNCHANGED sched
  BY DEF DispatchRetry
<1>3. UNCHANGED lease
  BY DEF DispatchRetry
<1> HIDE DEF e
<1>4. RedisTypeOK'
  <2>1. CASE UNCHANGED <<sched, stream, guard>>
    BY <2>1, <1>3 DEF RedisTypeOK
  <2>2. CASE sched' = sched \cup {e} /\ UNCHANGED <<stream, guard>>
    BY <2>2, <1>0, <1>3 DEF RedisTypeOK
  <2>3. CASE EnqueueOnce(e.n, TRUE) /\ UNCHANGED sched
    BY <2>3, <1>0, <1>3, EnqueueType DEF RedisTypeOK
  <2> QED BY <1>2, <2>1, <2>2, <2>3
<1>5. disp' \in DispType
  BY <1>0, <1>1 DEF PgTypeOK
<1>6. OtherTypeOK'
  BY <1>5 DEF DispatchRetry, OtherTypeOK
<1> QED BY <1>4, <1>6, PgKept, DograhKept, WorkerKept, HistoryKept DEF DispatchRetry

\* The dispatcher has nothing in hand.
LEMMA NoDispatchType ==
  NoDispatch \in [pc : {"idle", "claimed", "keep", "full", "clear"},
                  e : Entry, seen : ContactRow]
  BY Constants DEF NoDispatch

\* The dispatcher commits.
LEMMA DispatchCommitType == ASSUME TypeOK, DispatchCommit PROVE TypeOK'
<1> USE DEF TypeOK
<1>0. disp.seen \in ContactRow /\ disp.e.n \in Attempts
  BY DEF OtherTypeOK, Entry
<1>1. /\ [disp.seen EXCEPT !.due = FALSE, !.no = 0] \in ContactRow
      /\ [disp.seen EXCEPT !.due = TRUE] \in ContactRow
  BY <1>0 DEF ContactRow
<1>2. contact' \in ContactRow
  BY <1>0, <1>1, MergeType DEF DispatchCommit, PgTypeOK
<1>3. attempt' \in [Attempts -> AttemptRow]
  <2> DEFINE m == disp.e.n - 1
  <2>1. CASE attempt' = attempt
    BY <2>1 DEF PgTypeOK
  <2>2. CASE attempt' = [attempt EXCEPT ![m].held = FALSE]
    <3> HIDE DEF m
    <3>1. m \in Attempts => [attempt[m] EXCEPT !.held = FALSE] \in AttemptRow
      BY DEF PgTypeOK, AttemptRow
    <3> QED BY <2>2, <3>1 DEF PgTypeOK
  <2> QED BY <2>1, <2>2 DEF DispatchCommit, Noted
<1>4. PgTypeOK'
  BY <1>2, <1>3 DEF DispatchCommit, PgTypeOK
<1>5. OtherTypeOK'
  BY NoDispatchType DEF DispatchCommit, OtherTypeOK
<1> QED BY <1>4, <1>5, RedisKept, DograhKept, WorkerKept, HistoryKept DEF DispatchCommit

\* The dispatcher handles a deferred first dial, or gives up its entry.
LEMMA DispatchDialType == ASSUME TypeOK, DispatchDial \/ DispatchAbort PROVE TypeOK'
<1> USE DEF TypeOK
<1>0. disp.e \in Entry
  BY DEF OtherTypeOK
<1>1. CASE DispatchDial
  <2>1. \/ UNCHANGED <<sched, stream, guard>>
        \/ sched' = sched \cup {disp.e} /\ UNCHANGED <<stream, guard>>
        \/ EnqueueOnce(1, FALSE) /\ UNCHANGED sched
    BY <1>1 DEF DispatchDial
  <2>2. UNCHANGED lease
    BY <1>1 DEF DispatchDial
  <2>3. RedisTypeOK'
    <3>1. CASE UNCHANGED <<sched, stream, guard>>
      BY <3>1, <2>2 DEF RedisTypeOK
    <3>2. CASE sched' = sched \cup {disp.e} /\ UNCHANGED <<stream, guard>>
      BY <3>2, <1>0, <2>2 DEF RedisTypeOK
    <3>3. CASE EnqueueOnce(1, FALSE) /\ UNCHANGED sched
      BY <3>3, <2>2, Constants, EnqueueType DEF RedisTypeOK
    <3> QED BY <2>1, <3>1, <3>2, <3>3
  <2>4. OtherTypeOK'
    BY <1>1, NoDispatchType DEF DispatchDial, OtherTypeOK
  <2> QED BY <1>1, <2>3, <2>4, PgKept, DograhKept, WorkerKept, HistoryKept DEF DispatchDial
<1>2. CASE DispatchAbort
  <2>1. RedisTypeOK'
    BY <1>0, <1>2 DEF DispatchAbort, RedisTypeOK
  <2>2. OtherTypeOK'
    BY <1>2, NoDispatchType DEF DispatchAbort, OtherTypeOK
  <2>3. HistoryTypeOK'
    BY <1>2, FaultType DEF DispatchAbort
  <2> QED BY <1>2, <2>1, <2>2, <2>3, PgKept, DograhKept, WorkerKept DEF DispatchAbort
<1> QED BY <1>1, <1>2

\* Rebuild and enqueue scan.
LEMMA RefillType == ASSUME TypeOK, Rebuild \/ Enqueue PROVE TypeOK'
<1> USE DEF TypeOK
<1>1. CASE Rebuild
  <2>1. RedisTypeOK'
    BY <1>1 DEF Rebuild, RedisTypeOK, Entry
  <2> QED BY <1>1, <2>1, PgKept, DograhKept, WorkerKept, OtherKept, HistoryKept DEF Rebuild
<1>2. CASE Enqueue
  <2>1. stream' \in [Slots -> Message] /\ guard' \subseteq Attempts
    BY <1>2, Constants, EnqueueType DEF Enqueue, EnqueueScan, RedisTypeOK
  <2>2. RedisTypeOK'
    BY <1>2, <2>1 DEF Enqueue, RedisTypeOK
  <2> QED BY <1>2, <2>2, PgKept, DograhKept, WorkerKept, OtherKept, HistoryKept DEF Enqueue
<1> QED BY <1>1, <1>2

\* The stuck-call sweeper and the clock it watches.
LEMMA SweepType ==
  ASSUME TypeOK, NEW n \in Attempts, AttemptAges(n) \/ Sweep(n)
  PROVE  TypeOK'
<1> USE DEF TypeOK
<1>0. attempt[n] \in AttemptRow /\ contact \in ContactRow
  BY DEF PgTypeOK
<1>1. CASE AttemptAges(n)
  <2>1. [attempt[n] EXCEPT !.age = attempt[n].age + 1] \in AttemptRow
    BY <1>0, <1>1 DEF AttemptAges, AttemptRow
  <2>2. attempt' \in [Attempts -> AttemptRow]
    BY <1>1, <2>1 DEF AttemptAges, PgTypeOK
  <2>3. PgTypeOK'
    BY <1>1, <2>2 DEF AttemptAges, PgTypeOK
  <2> QED BY <1>1, <2>3, RedisKept, DograhKept, WorkerKept, OtherKept, HistoryKept
          DEF AttemptAges
<1>2. CASE Sweep(n)
  <2>1. Reviewed(attempt[n]) \in AttemptRow
    BY <1>0 DEF Reviewed, AttemptRow, AttemptStates
  <2>2. attempt' \in [Attempts -> AttemptRow]
    BY <1>2, <2>1 DEF Sweep, PgTypeOK
  <2>3. "NEEDS_REVIEW" \in Statuses
    BY DEF Statuses
  <2>4. PgTypeOK'
    BY <1>0, <1>2, <2>2, <2>3, StatusType DEF Sweep, PgTypeOK
  <2> QED BY <1>2, <2>4, RedisKept, DograhKept, WorkerKept, OtherKept, HistoryKept DEF Sweep
<1> QED BY <1>1, <1>2

-----------------------------------------------------------------------------
(* Dograh and its webhook *)

\* An answer reaches a waiting worker, or nobody.
LEMMA AnswerArrives ==
  ASSUME WorkerTypeOK, NEW r, NEW a \in [kind : Answers, run : RunIds \cup {0}],
         Answer(r, a), UNCHANGED <<job, seen, prior, known>>
  PROVE  WorkerTypeOK'
<1>1. "answer" \in PCs
  BY DEF PCs
<1>2. pc' \in [Workers -> PCs]
  BY <1>1 DEF Answer, WorkerTypeOK
<1>3. ans' \in [Workers -> [kind : Answers, run : RunIds \cup {0}]]
  <2>1. CASE Waits(r)
    <3>1. ans' = [ans EXCEPT ![r.w] = a]
      BY <2>1 DEF Answer
    <3> QED BY <3>1 DEF WorkerTypeOK
  <2>2. CASE ~Waits(r)
    BY <2>2 DEF Answer, WorkerTypeOK
  <2> QED BY <2>1, <2>2
<1> QED BY <1>2, <1>3 DEF WorkerTypeOK

\* The answers Dograh gives.
LEMMA AnswerKinds ==
  /\ \A k \in RunIds : [kind |-> "ok", run |-> k] \in [kind : Answers, run : RunIds \cup {0}]
  /\ \A kd \in {"ambiguous", "config", "reject", "permanent"} :
       [kind |-> kd, run |-> 0] \in [kind : Answers, run : RunIds \cup {0}]
  BY DEF Answers

\* Dograh's steps.
LEMMA DograhType == ASSUME TypeOK, DograhStep PROVE TypeOK'
<1> USE DEF TypeOK
<1>1. CASE Accept
  <2>1. PICK r \in wire, k \in RunIds :
          /\ run' = [run EXCEPT ![r.n][k] = "live"]
          /\ wire' = wire \ {r}
          /\ \/ Answer(r, [kind |-> "ok", run |-> k])
             \/ Answer(r, [kind |-> "ambiguous", run |-> 0])
          /\ UNCHANGED <<job, seen, prior, known>>
          /\ UNCHANGED <<pgVars, redisVars, otherVars, history>>
    BY <1>1 DEF Accept
  <2>2. run' \in [Attempts -> [RunIds -> {"none", "live"} \cup AllOutcomes]]
    BY <2>1 DEF DograhTypeOK
  <2>3. DograhTypeOK'
    BY <2>1, <2>2 DEF DograhTypeOK
  <2>4. WorkerTypeOK'
    BY <2>1, AnswerArrives, AnswerKinds
  <2> QED BY <2>1, <2>3, <2>4, PgKept, RedisKept, OtherKept, HistoryKept
<1>2. CASE Refuse
  <2>1. PICK r \in wire :
          /\ wire' = wire \ {r}
          /\ \/ Fault("config") \/ UNCHANGED faults
          /\ \E kd \in {"ambiguous", "config", "reject", "permanent"} :
               Answer(r, [kind |-> kd, run |-> 0])
          /\ UNCHANGED <<run, job, seen, prior, known, triggers, holds>>
          /\ UNCHANGED <<pgVars, redisVars, otherVars>>
    BY <1>2 DEF Refuse
  <2>2. DograhTypeOK'
    BY <2>1 DEF DograhTypeOK
  <2>3. WorkerTypeOK'
    BY <2>1, AnswerArrives, AnswerKinds
  <2>4. HistoryTypeOK'
    BY <2>1, FaultType, HistoryKept DEF history
  <2> QED BY <2>1, <2>2, <2>3, <2>4, PgKept, RedisKept, OtherKept
<1>3. ASSUME NEW w \in Workers, TimeOut(w) PROVE TypeOK'
  <2>1. "answer" \in PCs
    BY DEF PCs
  <2>2. WorkerTypeOK'
    BY <1>3, <2>1, AnswerKinds DEF TimeOut, WorkerTypeOK
  <2> QED BY <1>3, <2>2, PgKept, RedisKept, DograhKept, OtherKept, HistoryKept DEF TimeOut
<1>4. ASSUME NEW n \in Attempts, NEW k \in RunIds, RunEnds(n, k) PROVE TypeOK'
  <2>1. PICK o \in AllOutcomes : run' = [run EXCEPT ![n][k] = o]
    BY <1>4, DialAssumption DEF RunEnds
  <2>2. run' \in [Attempts -> [RunIds -> {"none", "live"} \cup AllOutcomes]]
    BY <2>1 DEF DograhTypeOK
  <2>3. DograhTypeOK'
    BY <1>4, <2>2 DEF RunEnds, DograhTypeOK
  <2> QED BY <1>4, <2>3, PgKept, RedisKept, WorkerKept, OtherKept, HistoryKept DEF RunEnds
<1> QED BY <1>1, <1>2, <1>3, <1>4 DEF DograhStep

\* The webhook handler has no request in hand.
LEMMA NoHookType ==
  NoHook \in [on : BOOLEAN, n : Attempts, k : RunIds, amb : BOOLEAN,
              bound : BOOLEAN, seen : ContactRow]
  BY Constants DEF NoHook

\* A webhook passes the checks.
LEMMA HookLoadType ==
  ASSUME TypeOK, NEW n \in Attempts, NEW k \in RunIds, HookLoad(n, k)
  PROVE  TypeOK'
<1> USE DEF TypeOK
<1>1. /\ Ambiguous(attempt[n]) \in BOOLEAN /\ (attempt[n].run # 0) \in BOOLEAN
      /\ contact \in ContactRow
  BY DEF Ambiguous, PgTypeOK, AttemptRow
<1>2. hook' \in [on : BOOLEAN, n : Attempts, k : RunIds, amb : BOOLEAN,
                 bound : BOOLEAN, seen : ContactRow]
  BY <1>1 DEF HookLoad
<1>3. OtherTypeOK'
  BY <1>2 DEF HookLoad, OtherTypeOK
<1> QED BY <1>3, PgKept, RedisKept, DograhKept, WorkerKept, HistoryKept DEF HookLoad

\* The contact and the attempt as the handler leaves them in its session.
LEMMA HookRows ==
  ASSUME OtherTypeOK, NEW o, NEW c \in ContactRow, NEW a \in AttemptRow
  PROVE  /\ HookContact(c, o) \in ContactRow /\ HookBase(c) \in ContactRow
         /\ HookAttempt(a, o) \in AttemptRow
<1>1. \A x \in ContactRow :
        /\ [x EXCEPT !.status = "DIALING"] \in ContactRow
        /\ [x EXCEPT !.status = "CLOSED"] \in ContactRow
        /\ [x EXCEPT !.status = "COMPLETED"] \in ContactRow
        /\ [x EXCEPT !.status = "DISCONNECTED"] \in ContactRow
  BY StatusType DEF Statuses
<1>2. HookBase(c) \in ContactRow
  BY <1>1 DEF HookBase
<1>3. HookContact(c, o) \in ContactRow
  BY <1>1 DEF HookContact
<1>4. FinalState(o) \in AttemptStates
  BY DEF FinalState, AttemptStates
<1>5. (IF hook.amb \/ ~hook.bound THEN hook.k ELSE a.run) \in RunIds \cup {0}
  BY DEF OtherTypeOK, AttemptRow
<1>6. (IF FinalState(o) = "FAILED_TO_CONNECT" THEN o # "noanswer"
       ELSE a.provErr /\ ~hook.amb) \in BOOLEAN
  OBVIOUS
<1>7. HookAttempt(a, o) \in AttemptRow
  BY <1>4, <1>5, <1>6 DEF HookAttempt, AttemptRow
<1> QED BY <1>2, <1>3, <1>7

\* The handler commits.
LEMMA HookCommitType == ASSUME TypeOK, HookCommit PROVE TypeOK'
<1> DEFINE n == hook.n
           o == run[n][hook.k]
           att == [attempt EXCEPT ![n] = HookAttempt(@, o)]
           c == HookContact(hook.seen, o)
           d == IF FinalState(o) = "ENDED_NORMALLY"
                THEN [contact |-> c, entries |-> {}]
                ELSE HandleDisconnect(c, att, n, Reason(o))
<1> USE DEF TypeOK
<1>0. n \in Attempts /\ hook.k \in RunIds /\ hook.seen \in ContactRow
      /\ contact \in ContactRow /\ attempt[n] \in AttemptRow
  BY DEF OtherTypeOK, PgTypeOK
<1>1. /\ attempt' = att
      /\ contact' = Merge(HookBase(contact), HookBase(hook.seen), d.contact, d.entries # {})
      /\ suppressed' = (suppressed \/ o = "optout")
      /\ sched' = sched \cup d.entries
      /\ processed' = processed \cup {<<n, hook.k>>}
      /\ hook' = NoHook
      /\ UNCHANGED <<campaign, stop, windowOpen, stream, guard, lease, disp>>
      /\ UNCHANGED <<dograhVars, workerVars, history>>
  BY DEF HookCommit
<1>2. c \in ContactRow /\ HookBase(contact) \in ContactRow /\ HookBase(hook.seen) \in ContactRow
  BY <1>0, HookRows
<1>3. HookAttempt(attempt[n], o) \in AttemptRow
  BY <1>0, HookRows
<1>4. att \in [Attempts -> AttemptRow]
  BY <1>3 DEF PgTypeOK
<1>5. d.contact \in ContactRow /\ d.entries \subseteq Entry
  <2>1. CASE FinalState(o) = "ENDED_NORMALLY"
    BY <1>2, <2>1
  <2>2. CASE FinalState(o) # "ENDED_NORMALLY"
    <3>1. d = HandleDisconnect(c, att, n, Reason(o))
      BY <2>2
    <3> HIDE DEF c, att, n, o, d
    <3> QED BY <1>0, <1>2, <3>1, DisconnectType
  <2> QED BY <2>1, <2>2
<1> HIDE DEF c, att, d, o
<1>6. PgTypeOK'
  <2>1. contact' \in ContactRow
    BY <1>1, <1>2, <1>5, MergeType
  <2>2. suppressed' \in BOOLEAN
    BY <1>1
  <2> QED BY <1>1, <1>4, <2>1, <2>2 DEF PgTypeOK
<1>7. RedisTypeOK'
  BY <1>1, <1>5 DEF RedisTypeOK
<1>8. OtherTypeOK'
  BY <1>0, <1>1, NoHookType DEF OtherTypeOK
<1> QED BY <1>1, <1>6, <1>7, <1>8, DograhKept, WorkerKept, HistoryKept

\* The handler fails.
LEMMA HookAbortType == ASSUME TypeOK, HookAbort PROVE TypeOK'
<1> DEFINE c == HookContact(hook.seen, run[hook.n][hook.k])
           d == HandleDisconnect(c, attempt, hook.n, Reason(run[hook.n][hook.k]))
<1> USE DEF TypeOK
<1>1. hook.n \in Attempts /\ hook.seen \in ContactRow /\ NoRow \in AttemptRow
  BY Constants DEF OtherTypeOK
<1>2. c \in ContactRow
  BY <1>1, HookRows
<1>3. d.entries \subseteq Entry
  <2> HIDE DEF c
  <2> QED BY <1>1, <1>2, DisconnectType
<1>4. sched' = sched \/ sched' = sched \cup d.entries
  BY DEF HookAbort
<1> HIDE DEF c, d
<1>5. RedisTypeOK'
  BY <1>3, <1>4 DEF HookAbort, RedisTypeOK
<1>6. OtherTypeOK'
  BY NoHookType DEF HookAbort, OtherTypeOK
<1>7. HistoryTypeOK'
  BY FaultType DEF HookAbort
<1> QED BY <1>5, <1>6, <1>7, PgKept, DograhKept, WorkerKept DEF HookAbort

-----------------------------------------------------------------------------
(* The environment, and the theorem *)

\* Operators, the clock and a lost Redis.
LEMMA EnvironmentType == ASSUME TypeOK, Environment PROVE TypeOK'
<1> USE DEF TypeOK
<1>1. CASE Pause \/ Complete \/ WindowTurns \/ KillSwitch \/ ReleaseStop
  <2>1. PgTypeOK'
    BY <1>1 DEF Pause, Complete, WindowTurns, KillSwitch, ReleaseStop, PgTypeOK
  <2>2. UNCHANGED <<redisVars, dograhVars, workerVars, otherVars, history>>
    BY <1>1 DEF Pause, Complete, WindowTurns, KillSwitch, ReleaseStop
  <2> QED BY <2>1, <2>2, RedisKept, DograhKept, WorkerKept, OtherKept, HistoryKept
<1>2. CASE Resume
  <2>1. PgTypeOK'
    BY <1>2 DEF Resume, PgTypeOK
  <2>2. stream' \in [Slots -> Message] /\ guard' \subseteq Attempts
    BY <1>2, Constants, EnqueueType DEF Resume, EnqueueScan, RedisTypeOK
  <2>3. RedisTypeOK'
    BY <1>2, <2>2 DEF Resume, RedisTypeOK
  <2> QED BY <1>2, <2>1, <2>3, DograhKept, WorkerKept, OtherKept, HistoryKept DEF Resume
<1>3. CASE Suppress
  <2>1. "CLOSED" \in Statuses
    BY DEF Statuses
  <2>2. contact' \in ContactRow
    BY <1>3, <2>1, StatusType DEF Suppress, PgTypeOK
  <2>3. PgTypeOK'
    BY <1>3, <2>2 DEF Suppress, PgTypeOK
  <2> QED BY <1>3, <2>3, RedisKept, DograhKept, WorkerKept, OtherKept, HistoryKept
          DEF Suppress
<1>4. CASE GuardExpires
  <2>1. RedisTypeOK'
    BY <1>4 DEF GuardExpires, RedisTypeOK
  <2>2. HistoryTypeOK'
    BY <1>4, FaultType DEF GuardExpires
  <2> QED BY <1>4, <2>1, <2>2, PgKept, DograhKept, WorkerKept, OtherKept DEF GuardExpires
<1>5. CASE RedisLoss
  <2>1. RedisTypeOK'
    BY <1>5, Constants DEF RedisLoss, RedisTypeOK
  <2>2. job' \in [Workers -> [slot : Slots \cup {0}, n : Attempts, retry : BOOLEAN]]
    BY <1>5 DEF RedisLoss, WorkerTypeOK
  <2>3. WorkerTypeOK'
    BY <1>5, <2>2 DEF RedisLoss, WorkerTypeOK
  <2>4. HistoryTypeOK'
    BY <1>5, FaultType DEF RedisLoss
  <2> QED BY <1>5, <2>1, <2>3, <2>4, PgKept, DograhKept, OtherKept DEF RedisLoss
<1> QED BY <1>1, <1>2, <1>3, <1>4, <1>5 DEF Environment

\* The initial state.
LEMMA InitType == Init => TypeOK
<1> SUFFICES ASSUME Init PROVE TypeOK
  OBVIOUS
<1>1. PgTypeOK
  BY Constants DEF Init, PgTypeOK
<1>2. RedisTypeOK
  BY Constants DEF Init, RedisTypeOK
<1>3. DograhTypeOK
  BY DEF Init, DograhTypeOK
<1>4. WorkerTypeOK
  <2>1. "idle" \in PCs
    BY DEF PCs
  <2> QED BY <2>1, Constants DEF Init, WorkerTypeOK
<1>5. OtherTypeOK
  BY NoDispatchType, NoHookType DEF Init, OtherTypeOK
<1>6. HistoryTypeOK
  BY DialAssumption DEF Init, HistoryTypeOK
<1> QED BY <1>1, <1>2, <1>3, <1>4, <1>5, <1>6 DEF TypeOK

\* Every step preserves the types.
LEMMA NextType == ASSUME TypeOK, [Next]_vars PROVE TypeOK'
<1>1. CASE UNCHANGED vars
  BY <1>1, PgKept, RedisKept, DograhKept, WorkerKept, OtherKept, HistoryKept
  DEF vars, TypeOK
<1>2. ASSUME NEW w \in Workers,
             \/ Read(w) \/ Reclaim(w) \/ DeadLetter(w)
             \/ WorkerStep(w) \/ WorkerFault(w) \/ CacheExpires(w)
      PROVE  TypeOK'
  BY <1>2, ReadType, ReclaimType, DeadLetterType, AckType, TakenType, AsideType,
     LoadType, ClaimType, Lookup2Type, Lookup2DownType, Gate2Type, SendType,
     AnswerType, Lookup1Type, InterruptType
  DEF WorkerStep, WorkerFault
<1>3. CASE LeaseExpires
  <2>1. RedisTypeOK'
    BY <1>3 DEF LeaseExpires, RedisTypeOK, TypeOK
  <2> QED BY <1>3, <2>1, PgKept, DograhKept, WorkerKept, OtherKept, HistoryKept
          DEF LeaseExpires, TypeOK
<1>4. CASE RecoveryStep \/ DispatchAbort
  BY <1>4, DispatchClaimType, DispatchRetryType, DispatchCommitType,
     DispatchDialType, RefillType, SweepType
  DEF RecoveryStep
<1>5. CASE DograhStep \/ HookStep \/ HookAbort
  BY <1>5, DograhType, HookLoadType, HookCommitType, HookAbortType DEF HookStep
<1> QED BY <1>1, <1>2, <1>3, <1>4, <1>5, EnvironmentType DEF Next

\* Type correctness: whatever the interleaving of workers, dispatcher, webhook,
\* sweeper and faults, every row stays within its columns' domains, no retry
\* number passes the policy by more than the next one, deferrals and deliveries
\* stay within their limits.
THEOREM DialTypeCorrect == Spec => []TypeOK
<1> QED BY InitType, NextType, PTL DEF Spec

-----------------------------------------------------------------------------
(* The fence *)

\* Nothing is on hold, and no answer says that something should be.
NoHold ==
  /\ \A n \in Attempts : ~attempt[n].held
  /\ \A w \in Workers : pc[w] # "hold" /\ ans[w].kind \notin {"held", "config"}

\* The fence.
Fence ==
  /\ \A n \in Attempts : triggers[n] <= 1
  /\ \A n \in Attempts : attempt[n].state = "none" => triggers[n] = 0
  /\ \A w \in Workers : pc[w] = "send" =>
       attempt[job[w].n].state # "none" /\ triggers[job[w].n] = 0
  /\ \A v, w \in Workers :
       pc[v] = "send" /\ pc[w] = "send" /\ job[v].n = job[w].n => v = w

FenceInv == TypeOK /\ NoHold /\ Fence

-----------------------------------------------------------------------------
(* Steps that neither claim nor send *)

\* No attempt row disappears, none is put on hold.
RowsStay ==
  \A n \in Attempts : /\ ~attempt'[n].held
                      /\ attempt[n].state # "none" => attempt'[n].state # "none"

\* No worker comes to its trigger or to a hold.
NoNewSender ==
  \A v \in Workers :
    /\ pc'[v] = "send" => pc[v] = "send" /\ job'[v].n = job[v].n
    /\ pc'[v] # "hold" /\ ans'[v].kind \notin {"held", "config"}

\* A step with these two properties that sends nothing keeps the fence.
LEMMA QuietStep ==
  ASSUME FenceInv, RowsStay, NoNewSender, triggers' = triggers
  PROVE  NoHold' /\ Fence'
<1>1. \A v \in Workers : job[v].n \in Attempts
  BY DEF FenceInv, TypeOK, WorkerTypeOK
<1>2. NoHold'
  BY DEF RowsStay, NoNewSender, NoHold
<1>3. \A n \in Attempts : triggers'[n] <= 1
  BY DEF FenceInv, Fence
<1>4. \A n \in Attempts : attempt'[n].state = "none" => triggers'[n] = 0
  BY DEF FenceInv, Fence, RowsStay
<1>5. ASSUME NEW w \in Workers, pc'[w] = "send"
      PROVE  attempt'[job'[w].n].state # "none" /\ triggers'[job'[w].n] = 0
  <2>1. pc[w] = "send" /\ job'[w].n = job[w].n
    BY <1>5 DEF NoNewSender
  <2>2. attempt[job[w].n].state # "none" /\ triggers[job[w].n] = 0
    BY <2>1 DEF FenceInv, Fence
  <2> QED BY <1>1, <2>1, <2>2 DEF RowsStay
<1>6. ASSUME NEW v \in Workers, NEW w \in Workers,
             pc'[v] = "send", pc'[w] = "send", job'[v].n = job'[w].n
      PROVE  v = w
  BY <1>6 DEF NoNewSender, FenceInv, Fence
<1> QED BY <1>2, <1>3, <1>4, <1>5, <1>6 DEF Fence

\* Rows that nobody writes stay.
LEMMA RowsKept == ASSUME NoHold, UNCHANGED attempt PROVE RowsStay
  BY DEF NoHold, RowsStay

\* One row is replaced by another that exists and is not on hold.
LEMMA RowReplaced ==
  ASSUME TypeOK, NoHold, NEW n, NEW a, attempt' = [attempt EXCEPT ![n] = a],
         n \in Attempts => ~a.held /\ (attempt[n].state # "none" => a.state # "none")
  PROVE  RowsStay
  BY DEF NoHold, RowsStay, TypeOK, PgTypeOK

\* Workers that do nothing.
LEMMA WorkersKept == ASSUME NoHold, UNCHANGED <<pc, job, ans>> PROVE NoNewSender
  BY DEF NoHold, NoNewSender

\* A worker goes somewhere that is neither the trigger nor a hold.
LEMMA WorkerGoes ==
  ASSUME TypeOK, NoHold, NEW w \in Workers, NEW label \in PCs \ {"send", "hold"},
         Goto(w, label), UNCHANGED <<job, ans>>
  PROVE  NoNewSender
  BY DEF NoHold, NoNewSender, TypeOK, WorkerTypeOK, Goto

\* A worker goes there with an answer that holds nothing.
LEMMA WorkerGoesWith ==
  ASSUME TypeOK, NoHold, NEW w \in Workers, NEW label \in PCs \ {"send", "hold"},
         Goto(w, label), UNCHANGED job,
         NEW a, ans' = [ans EXCEPT ![w] = a], a.kind \notin {"held", "config"}
  PROVE  NoNewSender
<1>1. \A v \in Workers : pc'[v] = IF v = w THEN label ELSE pc[v]
  BY DEF Goto, TypeOK, WorkerTypeOK
<1>2. \A v \in Workers : ans'[v] = IF v = w THEN a ELSE ans[v]
  BY DEF TypeOK, WorkerTypeOK
<1> QED BY <1>1, <1>2 DEF NoHold, NoNewSender

\* A worker becomes idle, and the others keep their attempt numbers.
LEMMA WorkerRests ==
  ASSUME TypeOK, NoHold, NEW w \in Workers, ToIdle(w),
         \A v \in Workers : v # w => job'[v].n = job[v].n
  PROVE  NoNewSender
<1>1. \A v \in Workers : pc'[v] = IF v = w THEN "idle" ELSE pc[v]
  BY DEF ToIdle, TypeOK, WorkerTypeOK
<1>2. \A v \in Workers : ans'[v] = IF v = w THEN NoAnswer ELSE ans[v]
  BY DEF ToIdle, TypeOK, WorkerTypeOK
<1>3. NoAnswer.kind = "none"
  BY DEF NoAnswer
<1> QED BY <1>1, <1>2, <1>3 DEF NoHold, NoNewSender

\* A job left pending.
LEMMA WorkerLeaves ==
  ASSUME TypeOK, NoHold, NEW w \in Workers, NEW reset, Leave(w, reset)
  PROVE  NoNewSender
<1>1. \A v \in Workers : v # w => job'[v].n = job[v].n
  BY DEF Leave, TypeOK, WorkerTypeOK
<1> QED BY <1>1, WorkerRests DEF Leave

\* An entry that left the stream changes nobody else's attempt number.
LEMMA ForgetKeepsNumber ==
  ASSUME TypeOK, NEW w \in Workers, NEW s, job' = Forget(w, s), NEW v \in Workers, v # w
  PROVE  job'[v].n = job[v].n
  BY DEF Forget, TypeOK, WorkerTypeOK

-----------------------------------------------------------------------------
(* The worker's steps *)

\* Taking a job, putting it aside, acknowledging it.
LEMMA TakingQuiet ==
  ASSUME FenceInv, NEW w \in Workers,
         \/ Read(w) \/ Reclaim(w) \/ DeadLetter(w) \/ Ack(w)
         \/ Blocked(w) \/ PutAside(w) \/ Admit(w) \/ NotAdmitted(w)
         \/ SettlePaused(w) \/ SettleWindow(w) \/ Unguard(w)
         \/ Crash(w) \/ Abandon(w) \/ CacheExpires(w)
  PROVE  RowsStay /\ NoNewSender /\ triggers' = triggers
<1> USE DEF FenceInv
<1>0. attempt' = attempt /\ triggers' = triggers
  BY DEF Read, Reclaim, DeadLetter, Ack, Blocked, PutAside, Admit, NotAdmitted,
         SettlePaused, SettleWindow, Unguard, Crash, Abandon, CacheExpires,
         pgVars, history
<1>a. {"taken", "load", "paused", "closed", "unguard", "ack"} \subseteq PCs \ {"send", "hold"}
  BY DEF PCs
<1>1. CASE Read(w) \/ Reclaim(w)
  <2>1. Goto(w, "taken") /\ UNCHANGED ans /\ \E j : job' = [job EXCEPT ![w] = j]
    BY <1>1 DEF Read, Reclaim
  <2>2. \A v \in Workers : pc'[v] = IF v = w THEN "taken" ELSE pc[v]
    BY <2>1 DEF Goto, TypeOK, WorkerTypeOK
  <2>3. \A v \in Workers : v # w => job'[v] = job[v]
    BY <2>1 DEF TypeOK, WorkerTypeOK
  <2>4. NoNewSender
    BY <2>1, <2>2, <2>3 DEF NoHold, NoNewSender
  <2> QED BY <1>0, <2>4, RowsKept
<1>2. CASE DeadLetter(w)
  <2>1. pc[w] = "idle" /\ UNCHANGED <<pc, ans>> /\ \E s : job' = Forget(w, s)
    BY <1>2 DEF DeadLetter
  <2>2. \A v \in Workers : v # w => job'[v].n = job[v].n
    BY <2>1, ForgetKeepsNumber
  <2>3. NoNewSender
    BY <2>1, <2>2 DEF NoHold, NoNewSender
  <2> QED BY <1>0, <2>3, RowsKept
<1>3. CASE Ack(w)
  <2>1. ToIdle(w) /\ job' = Forget(w, job[w].slot)
    BY <1>3 DEF Ack
  <2>2. \A v \in Workers : v # w => job'[v].n = job[v].n
    BY <2>1, ForgetKeepsNumber
  <2> QED BY <1>0, <2>1, <2>2, RowsKept, WorkerRests
<1>4. CASE Crash(w)
  <2>1. ToIdle(w) /\ job' = [job EXCEPT ![w] = NoJob]
    BY <1>4 DEF Crash
  <2>2. \A v \in Workers : v # w => job'[v].n = job[v].n
    BY <2>1 DEF TypeOK, WorkerTypeOK
  <2> QED BY <1>0, <2>1, <2>2, RowsKept, WorkerRests
<1>5. CASE CacheExpires(w)
  <2>1. UNCHANGED <<pc, job, ans>>
    BY <1>5 DEF CacheExpires
  <2> QED BY <1>0, <2>1, RowsKept, WorkersKept
<1>6. CASE \/ Blocked(w) \/ PutAside(w) \/ Admit(w) \/ NotAdmitted(w)
           \/ SettlePaused(w) \/ SettleWindow(w) \/ Unguard(w) \/ Abandon(w)
  <2>1. \/ Leave(w, TRUE) \/ Leave(w, FALSE)
        \/ \E label \in {"load", "paused", "closed", "unguard", "ack"} :
             Goto(w, label) /\ UNCHANGED <<job, ans>>
    BY <1>6 DEF Blocked, PutAside, Admit, NotAdmitted, SettlePaused, SettleWindow,
                Unguard, Abandon
  <2> QED BY <1>0, <1>a, <2>1, RowsKept, WorkerLeaves, WorkerGoes
<1> QED BY <1>1, <1>2, <1>3, <1>4, <1>5, <1>6

\* The reads of _dial: an attempt that is not held is not resumed.
LEMMA LoadQuiet ==
  ASSUME FenceInv, NEW w \in Workers, Load(w)
  PROVE  RowsStay /\ NoNewSender /\ triggers' = triggers
<1> USE DEF FenceInv
<1>0. attempt' = attempt /\ triggers' = triggers
  BY DEF Load, pgVars, history
<1>1. ~Held(attempt[job[w].n])
  BY DEF Held, NoHold, TypeOK, WorkerTypeOK
<1>2. \/ Leave(w, TRUE)
      \/ \E label \in {"paused", "closed"} : Aside(w, label)
      \/ \E label \in {"ack", "lookup1", "claim", "lookup2"} : GoOn(w, label, "none")
  BY <1>1 DEF Load, ResolveClaim, RetryGate
<1>3. {"paused", "closed", "ack", "lookup1", "claim", "lookup2"} \subseteq PCs \ {"send", "hold"}
  BY DEF PCs
<1>4. ASSUME NEW label \in {"paused", "closed"}, Aside(w, label) PROVE NoNewSender
  BY <1>3, <1>4, WorkerGoes DEF Aside
<1>5. ASSUME NEW label \in {"ack", "lookup1", "claim", "lookup2"}, GoOn(w, label, "none")
      PROVE  NoNewSender
  <2>1. /\ Goto(w, label) /\ UNCHANGED job
        /\ ans' = [ans EXCEPT ![w] = [kind |-> "none", run |-> 0]]
    BY <1>5 DEF GoOn
  <2>2. [kind |-> "none", run |-> 0].kind \notin {"held", "config"}
    OBVIOUS
  <2> QED BY <1>3, <2>1, <2>2, WorkerGoesWith
<1> QED BY <1>0, <1>2, <1>4, <1>5, RowsKept, WorkerLeaves

\* A listing holds nothing.
LEMMA ListingKind == ASSUME NEW m PROVE Listing(m).kind \notin {"held", "config"}
<1>1. CASE Cardinality(RunsOf(m)) = 0
  BY <1>1 DEF Listing
<1>2. CASE Cardinality(RunsOf(m)) = 1
  <2>1. Listing(m) = [kind |-> "one", run |-> CHOOSE k \in RunsOf(m) : TRUE]
    BY <1>2 DEF Listing
  <2> QED BY <2>1
<1>3. CASE Cardinality(RunsOf(m)) # 0 /\ Cardinality(RunsOf(m)) # 1
  <2>1. Listing(m) = [kind |-> "many", run |-> 0]
    BY <1>3 DEF Listing
  <2> QED BY <2>1
<1> QED BY <1>1, <1>2, <1>3

\* The lookups.
LEMMA LookupQuiet ==
  ASSUME FenceInv, NEW w \in Workers, Lookup1(w) \/ Lookup2(w) \/ Lookup2Down(w)
  PROVE  RowsStay /\ NoNewSender /\ triggers' = triggers
<1> USE DEF FenceInv
<1>a. {"resolve1", "gate2", "ack"} \subseteq PCs \ {"send", "hold"}
  BY DEF PCs
<1>1. CASE Lookup1(w)
  <2>1. attempt' = attempt /\ triggers' = triggers /\ Goto(w, "resolve1") /\ UNCHANGED job
    BY <1>1 DEF Lookup1, pgVars
  <2>2. \/ ans' = [ans EXCEPT ![w] = Listing(job[w].n)]
        \/ ans' = [ans EXCEPT ![w] = [kind |-> "down", run |-> 0]]
    BY <1>1 DEF Lookup1
  <2>3. [kind |-> "down", run |-> 0].kind \notin {"held", "config"}
    OBVIOUS
  <2> QED BY <1>a, <2>1, <2>2, <2>3, ListingKind, RowsKept, WorkerGoesWith
<1>2. CASE Lookup2(w)
  <2>1. attempt' = attempt /\ triggers' = triggers /\ Goto(w, "gate2") /\ UNCHANGED job
    BY <1>2 DEF Lookup2, pgVars, history
  <2>2. ans' = [ans EXCEPT ![w] = Listing(job[w].n - 1)] \/ ans' = ans
    BY <1>2 DEF Lookup2
  <2> QED BY <1>a, <2>1, <2>2, ListingKind, RowsKept, WorkerGoes, WorkerGoesWith
<1>3. CASE Lookup2Down(w)
  <2> DEFINE m == job[w].n - 1
  <2>1. /\ triggers' = triggers
        /\ \/ attempt' = attempt /\ Goto(w, "ack") /\ UNCHANGED <<job, ans>>
           \/ attempt' = [attempt EXCEPT ![m].deferrals = @ + 1] /\ Leave(w, TRUE)
    BY <1>3 DEF Lookup2Down
  <2> HIDE DEF m
  <2>2. CASE attempt' = attempt /\ Goto(w, "ack") /\ UNCHANGED <<job, ans>>
    BY <1>a, <2>1, <2>2, RowsKept, WorkerGoes
  <2>3. CASE attempt' = [attempt EXCEPT ![m].deferrals = @ + 1] /\ Leave(w, TRUE)
    <3>1. RowsStay
      BY <2>3 DEF NoHold, RowsStay, TypeOK, PgTypeOK, AttemptRow
    <3> QED BY <2>1, <2>3, <3>1, WorkerLeaves
  <2> QED BY <2>1, <2>2, <2>3
<1> QED BY <1>1, <1>2, <1>3

\* What a worker writes about an answer.  No answer asks for a hold.
LEMMA AnswerQuiet ==
  ASSUME FenceInv, NEW w \in Workers,
         \/ AnswerOk(w) \/ EngageHalt(w) \/ AnswerConfig(w) \/ AnswerFailed(w)
         \/ AnswerAmbiguous(w) \/ Resolve1(w) \/ RecoverySwallowed(w)
  PROVE  RowsStay /\ NoNewSender /\ triggers' = triggers
<1> DEFINE n == job[w].n
<1> USE DEF FenceInv
<1>a. "ack" \in PCs \ {"send", "hold"} /\ "lookup1" \in PCs \ {"send", "hold"}
  BY DEF PCs
<1>b. n \in Attempts /\ attempt[n] \in AttemptRow
  BY DEF TypeOK, WorkerTypeOK, PgTypeOK
<1>1. CASE AnswerOk(w)
  <2>1. /\ attempt' = [attempt EXCEPT ![n] = [attempt[n] EXCEPT !.run = ans[w].run,
                                                                !.held = FALSE]]
        /\ Goto(w, "ack") /\ UNCHANGED <<job, ans>> /\ triggers' = triggers
    BY <1>1 DEF AnswerOk, history
  <2>2. ~[attempt[n] EXCEPT !.run = ans[w].run, !.held = FALSE].held
    BY <1>b DEF AttemptRow
  <2>3. [attempt[n] EXCEPT !.run = ans[w].run, !.held = FALSE].state = attempt[n].state
    BY <1>b DEF AttemptRow
  <2> HIDE DEF n
  <2>4. RowsStay
    BY <2>1, <2>2, <2>3, RowReplaced
  <2> QED BY <1>a, <2>1, <2>4, WorkerGoes
<1>2. CASE EngageHalt(w) \/ AnswerConfig(w)
  BY <1>2 DEF EngageHalt, AnswerConfig, NoHold
<1>3. CASE AnswerAmbiguous(w)
  <2>1. attempt' = attempt /\ Goto(w, "lookup1") /\ UNCHANGED <<job, ans>>
        /\ triggers' = triggers
    BY <1>3 DEF AnswerAmbiguous, pgVars, history
  <2> QED BY <1>a, <2>1, RowsKept, WorkerGoes
<1>4. ASSUME NEW amb, attempt' = FailedAttempt(n, amb),
             Goto(w, "ack"), UNCHANGED <<job, ans>>
      PROVE  RowsStay /\ NoNewSender
  <2> DEFINE a == [attempt[n] EXCEPT !.state = "FAILED_TO_CONNECT", !.provErr = TRUE,
                                     !.amb = attempt[n].amb \/ amb, !.held = FALSE]
  <2>1. attempt' = [attempt EXCEPT ![n] = a]
    BY <1>4 DEF FailedAttempt
  <2>2. ~a.held /\ a.state # "none"
    BY <1>b DEF AttemptRow
  <2> HIDE DEF a, n
  <2> QED BY <1>a, <1>4, <2>1, <2>2, RowReplaced, WorkerGoes
<1>5. CASE AnswerFailed(w)
  BY <1>4, <1>5 DEF AnswerFailed, RecordFailure, history
<1>6. CASE RecoverySwallowed(w)
  BY <1>4, <1>6 DEF RecoverySwallowed
<1>7. CASE Resolve1(w)
  <2>1. CASE RecordFailure(w, TRUE, "provider")
    BY <1>4, <2>1 DEF RecordFailure, history
  <2>2. CASE ans[w].kind \in {"one", "many"}
    <3>1. /\ attempt' = attempt \/ attempt' = [attempt EXCEPT ![n].run = ans[w].run]
          /\ Goto(w, "ack") /\ UNCHANGED <<job, ans>> /\ triggers' = triggers
      BY <1>7, <2>2 DEF Resolve1, history
    <3> HIDE DEF n
    <3>2. RowsStay
      BY <1>b, <3>1 DEF NoHold, RowsStay, TypeOK, PgTypeOK, AttemptRow
    <3> QED BY <1>a, <3>1, <3>2, WorkerGoes
  <2> QED BY <1>7, <2>1, <2>2 DEF Resolve1
<1> QED BY <1>1, <1>2, <1>3, <1>5, <1>6, <1>7

-----------------------------------------------------------------------------
(* The claim and the trigger *)

\* Claiming: the row did not exist, so nobody has sent for it or is about to.
LEMMA ClaimFences ==
  ASSUME FenceInv, NEW w \in Workers, ClaimIfOpen(w, job[w].n, attempt),
         triggers' = triggers
  PROVE  NoHold' /\ Fence'
<1> DEFINE n == job[w].n
           row == [attempt[n] EXCEPT !.state = "INITIATED", !.held = FALSE,
                                     !.provErr = FALSE, !.age = 0]
<1> USE DEF FenceInv
<1>a. n \in Attempts /\ attempt[n] \in AttemptRow /\ ans[w].kind # "held"
  BY DEF NoHold, TypeOK, WorkerTypeOK, PgTypeOK
<1>1. CASE ~OutboundOpen(w)
  <2>1. Leave(w, TRUE) /\ UNCHANGED attempt
    BY <1>1 DEF ClaimIfOpen
  <2> QED BY <2>1, RowsKept, WorkerLeaves, QuietStep
<1>2. CASE OutboundOpen(w) /\ Taken(attempt, n)
  <2>1. Goto(w, "ack") /\ UNCHANGED <<attempt, job, ans>>
    BY <1>a, <1>2 DEF ClaimIfOpen, CommitClaim
  <2>2. "ack" \in PCs \ {"send", "hold"}
    BY DEF PCs
  <2> QED BY <2>1, <2>2, RowsKept, WorkerGoes, QuietStep
<1>3. CASE OutboundOpen(w) /\ ~Taken(attempt, n)
  <2>1. attempt[n].state = "none"
    BY <1>3 DEF Taken
  <2>2. /\ attempt' = [attempt EXCEPT ![n] = row]
        /\ Goto(w, "send") /\ UNCHANGED <<job, ans>>
    BY <1>3 DEF ClaimIfOpen, CommitClaim
  <2>3. ~row.held /\ row.state # "none"
    BY <1>a DEF AttemptRow
  <2>4. triggers[n] = 0
    BY <1>a, <2>1 DEF Fence
  <2>5. \A v \in Workers : pc[v] = "send" => job[v].n # n
    BY <2>1 DEF Fence
  <2>6. \A v \in Workers : pc'[v] = IF v = w THEN "send" ELSE pc[v]
    BY <2>2 DEF Goto, TypeOK, WorkerTypeOK
  <2>7. \A v \in Workers : job[v].n \in Attempts
    BY DEF TypeOK, WorkerTypeOK
  <2> HIDE DEF row
  <2>8. RowsStay /\ attempt'[n].state # "none"
    <3>1. attempt'[n] = row
      BY <1>a, <2>2 DEF TypeOK, PgTypeOK
    <3>2. RowsStay
      BY <2>2, <2>3, RowReplaced
    <3> QED BY <2>3, <3>1, <3>2
  <2>9. NoHold'
    BY <2>2, <2>6, <2>8 DEF NoHold, RowsStay
  <2>10. \A k \in Attempts : triggers'[k] <= 1
    BY DEF Fence
  <2>11. \A k \in Attempts : attempt'[k].state = "none" => triggers'[k] = 0
    BY <2>8 DEF Fence, RowsStay
  <2>12. \A v \in Workers : pc'[v] = "send" =>
           attempt'[job'[v].n].state # "none" /\ triggers'[job'[v].n] = 0
    BY <2>2, <2>4, <2>6, <2>7, <2>8 DEF Fence, RowsStay
  <2>13. \A v, u \in Workers :
           pc'[v] = "send" /\ pc'[u] = "send" /\ job'[v].n = job'[u].n => v = u
    BY <2>2, <2>5, <2>6 DEF Fence
  <2> QED BY <2>9, <2>10, <2>11, <2>12, <2>13 DEF Fence
<1> QED BY <1>1, <1>2, <1>3

\* The claim, and the decision after the second lookup.
LEMMA ClaimKeepsFence ==
  ASSUME FenceInv, NEW w \in Workers, Claim(w) \/ Gate2(w)
  PROVE  NoHold' /\ Fence'
<1> DEFINE m == job[w].n - 1
<1> USE DEF FenceInv
<1>0. triggers' = triggers
  BY DEF Claim, Gate2, history
<1>a. "ack" \in PCs \ {"send", "hold"}
  BY DEF PCs
<1>1. CASE ClaimIfOpen(w, job[w].n, attempt)
  BY <1>0, <1>1, ClaimFences
<1>2. CASE Goto(w, "ack") /\ UNCHANGED <<attempt, job, ans>>
  BY <1>0, <1>a, <1>2, RowsKept, WorkerGoes, QuietStep
<1>3. CASE /\ attempt' = [attempt EXCEPT ![m] = [Reopened(@) EXCEPT !.run = ans[w].run]]
           /\ Goto(w, "ack") /\ UNCHANGED <<job, ans>>
  <2> HIDE DEF m
  <2> DEFINE a == [Reopened(attempt[m]) EXCEPT !.run = ans[w].run]
  <2>1. attempt' = [attempt EXCEPT ![m] = a]
    BY <1>3
  <2>2. m \in Attempts => ~a.held /\ a.state # "none"
    BY DEF Reopened, AttemptRow, TypeOK, PgTypeOK, NoHold
  <2> HIDE DEF a
  <2>3. RowsStay
    BY <2>1, <2>2, RowReplaced
  <2> QED BY <1>0, <1>a, <1>3, <2>3, WorkerGoes, QuietStep
<1> QED BY <1>1, <1>2, <1>3 DEF Claim, Gate2

\* Sending: the sender was alone with a row nobody had sent for.
LEMMA SendKeepsFence ==
  ASSUME FenceInv, NEW w \in Workers, Send(w)
  PROVE  NoHold' /\ Fence'
<1> DEFINE n == job[w].n
<1> USE DEF FenceInv
<1>1. /\ pc[w] = "send" /\ UNCHANGED <<attempt, job, ans>>
      /\ Goto(w, "await")
      /\ triggers' = [triggers EXCEPT ![n] = @ + 1]
  BY DEF Send, pgVars
<1>2. n \in Attempts /\ triggers[n] = 0 /\ attempt[n].state # "none"
  BY <1>1 DEF Fence, TypeOK, WorkerTypeOK
<1>3. \A k \in Attempts : triggers'[k] = IF k = n THEN 1 ELSE triggers[k]
  BY <1>1, <1>2 DEF TypeOK, HistoryTypeOK
<1>4. \A v \in Workers : pc'[v] = IF v = w THEN "await" ELSE pc[v]
  BY <1>1 DEF Goto, TypeOK, WorkerTypeOK
<1>5. \A v \in Workers : pc[v] = "send" /\ v # w => job[v].n # n /\ job[v].n \in Attempts
  BY <1>1 DEF Fence, TypeOK, WorkerTypeOK
<1> HIDE DEF n
<1>6. NoHold'
  BY <1>1, <1>4 DEF NoHold
<1>7. \A k \in Attempts : triggers'[k] <= 1
  BY <1>3 DEF Fence
<1>8. \A k \in Attempts : attempt'[k].state = "none" => triggers'[k] = 0
  BY <1>1, <1>2, <1>3 DEF Fence
<1>9. \A v \in Workers : pc'[v] = "send" =>
        attempt'[job'[v].n].state # "none" /\ triggers'[job'[v].n] = 0
  BY <1>1, <1>3, <1>4, <1>5 DEF Fence
<1>10. \A v, u \in Workers :
         pc'[v] = "send" /\ pc'[u] = "send" /\ job'[v].n = job'[u].n => v = u
  BY <1>1, <1>4 DEF Fence
<1> QED BY <1>6, <1>7, <1>8, <1>9, <1>10 DEF Fence

-----------------------------------------------------------------------------
(* Everybody else *)

\* The recovery path, the sweeper and the environment only write rows that
\* exist and never a worker's place.
LEMMA RecoveryQuiet ==
  ASSUME FenceInv, LeaseExpires \/ RecoveryStep \/ DispatchAbort \/ Environment
  PROVE  RowsStay /\ NoNewSender /\ triggers' = triggers
<1> USE DEF FenceInv
<1>1. CASE \/ LeaseExpires \/ DispatchClaim \/ DispatchRetry \/ DispatchDial
           \/ DispatchAbort \/ Rebuild \/ Enqueue
  <2>1. attempt' = attempt /\ triggers' = triggers /\ UNCHANGED <<pc, job, ans>>
    BY <1>1 DEF LeaseExpires, DispatchClaim, DispatchRetry, DispatchDial,
                DispatchAbort, Rebuild, Enqueue, pgVars, workerVars, history
  <2> QED BY <2>1, RowsKept, WorkersKept
<1>2. CASE DispatchCommit
  <2> DEFINE m == disp.e.n - 1
  <2>1. /\ attempt' = attempt \/ attempt' = [attempt EXCEPT ![m].held = FALSE]
        /\ triggers' = triggers /\ UNCHANGED <<pc, job, ans>>
    BY <1>2 DEF DispatchCommit, Noted, workerVars, history
  <2> HIDE DEF m
  <2>2. RowsStay
    BY <2>1 DEF NoHold, RowsStay, TypeOK, PgTypeOK, AttemptRow
  <2> QED BY <2>1, <2>2, WorkersKept
<1>3. ASSUME NEW n \in Attempts, AttemptAges(n) \/ Sweep(n)
      PROVE  RowsStay /\ NoNewSender /\ triggers' = triggers
  <2>1. /\ \/ attempt' = [attempt EXCEPT ![n].age = @ + 1]
           \/ attempt' = [attempt EXCEPT ![n] = Reviewed(@)]
        /\ triggers' = triggers /\ UNCHANGED <<pc, job, ans>>
    BY <1>3 DEF AttemptAges, Sweep, workerVars, history
  <2>2. attempt[n] \in AttemptRow /\ ~attempt[n].held
    BY DEF NoHold, TypeOK, PgTypeOK
  <2>3. ~Reviewed(attempt[n]).held
        /\ (attempt[n].state # "none" => Reviewed(attempt[n]).state # "none")
    BY <2>2 DEF Reviewed, AttemptRow
  <2>4. CASE attempt' = [attempt EXCEPT ![n].age = @ + 1]
    <3>1. RowsStay
      BY <2>4 DEF NoHold, RowsStay, TypeOK, PgTypeOK, AttemptRow
    <3> QED BY <2>1, <3>1, WorkersKept
  <2>5. CASE attempt' = [attempt EXCEPT ![n] = Reviewed(@)]
    <3>1. RowsStay
      BY <2>3, <2>5, RowReplaced
    <3> QED BY <2>1, <3>1, WorkersKept
  <2> QED BY <2>1, <2>4, <2>5
<1>4. CASE \/ Pause \/ Resume \/ Complete \/ WindowTurns \/ KillSwitch
           \/ ReleaseStop \/ Suppress \/ GuardExpires
  <2>1. attempt' = attempt /\ triggers' = triggers /\ UNCHANGED <<pc, job, ans>>
    BY <1>4 DEF Pause, Resume, Complete, WindowTurns, KillSwitch, ReleaseStop,
                Suppress, GuardExpires, pgVars, workerVars, history
  <2> QED BY <2>1, RowsKept, WorkersKept
<1>5. CASE RedisLoss
  <2>1. attempt' = attempt /\ triggers' = triggers /\ UNCHANGED <<pc, ans>>
        /\ job' = [v \in Workers |-> [job[v] EXCEPT !.slot = 0]]
    BY <1>5 DEF RedisLoss, pgVars
  <2>2. \A v \in Workers : job'[v].n = job[v].n
    BY <2>1 DEF TypeOK, WorkerTypeOK
  <2>3. NoNewSender
    BY <2>1, <2>2 DEF NoHold, NoNewSender
  <2> QED BY <2>1, <2>3, RowsKept
<1> QED BY <1>1, <1>2, <1>3, <1>4, <1>5 DEF RecoveryStep, Environment

\* An answer that holds nothing reaches a waiting worker, or nobody.
LEMMA AnswerReaches ==
  ASSUME TypeOK, NoHold, NEW r \in wire, NEW a, a.kind \notin {"held", "config"},
         Answer(r, a), UNCHANGED job
  PROVE  NoNewSender
<1>1. CASE Waits(r)
  <2>1. r.w \in Workers
    BY DEF TypeOK, DograhTypeOK
  <2>2. Goto(r.w, "answer") /\ ans' = [ans EXCEPT ![r.w] = a]
    BY <1>1 DEF Answer, Goto
  <2>3. "answer" \in PCs \ {"send", "hold"}
    BY DEF PCs
  <2> QED BY <2>1, <2>2, <2>3, WorkerGoesWith
<1>2. CASE ~Waits(r)
  BY <1>2, WorkersKept DEF Answer
<1> QED BY <1>1, <1>2

\* Dograh and its webhook handler write rows that exist, and no configuration
\* error is ever answered.
LEMMA DograhQuiet ==
  ASSUME FenceInv, "config" \notin Env, DograhStep \/ HookStep \/ HookAbort
  PROVE  RowsStay /\ NoNewSender /\ triggers' = triggers
<1> USE DEF FenceInv
<1>1. CASE Accept
  <2>1. PICK r \in wire, k \in RunIds :
          /\ \/ Answer(r, [kind |-> "ok", run |-> k])
             \/ Answer(r, [kind |-> "ambiguous", run |-> 0])
          /\ UNCHANGED <<attempt, job, triggers>>
    BY <1>1 DEF Accept, pgVars, history
  <2>2. /\ [kind |-> "ok", run |-> k].kind \notin {"held", "config"}
        /\ [kind |-> "ambiguous", run |-> 0].kind \notin {"held", "config"}
    OBVIOUS
  <2> QED BY <2>1, <2>2, AnswerReaches, RowsKept
<1>2. CASE Refuse
  <2>1. PICK r \in wire, kd \in {"reject", "permanent", "ambiguous"} :
          /\ Answer(r, [kind |-> kd, run |-> 0])
          /\ UNCHANGED <<attempt, job, triggers>>
    BY <1>2 DEF Refuse, Fault, May, pgVars
  <2>2. [kind |-> kd, run |-> 0].kind \notin {"held", "config"}
    OBVIOUS
  <2> QED BY <2>1, <2>2, AnswerReaches, RowsKept
<1>3. ASSUME NEW w \in Workers, TimeOut(w)
      PROVE  RowsStay /\ NoNewSender /\ triggers' = triggers
  <2>1. /\ Goto(w, "answer") /\ ans' = [ans EXCEPT ![w] = [kind |-> "ambiguous", run |-> 0]]
        /\ UNCHANGED <<attempt, job, triggers>>
    BY <1>3 DEF TimeOut, Goto, pgVars, history
  <2>2. /\ [kind |-> "ambiguous", run |-> 0].kind \notin {"held", "config"}
        /\ "answer" \in PCs \ {"send", "hold"}
    BY DEF PCs
  <2> QED BY <2>1, <2>2, WorkerGoesWith, RowsKept
<1>4. ASSUME NEW n \in Attempts, NEW k \in RunIds, RunEnds(n, k) \/ HookLoad(n, k)
      PROVE  RowsStay /\ NoNewSender /\ triggers' = triggers
  <2>1. UNCHANGED <<attempt, pc, job, ans, triggers>>
    BY <1>4 DEF RunEnds, HookLoad, pgVars, workerVars, history
  <2> QED BY <2>1, RowsKept, WorkersKept
<1>5. CASE HookAbort
  <2>1. UNCHANGED <<attempt, pc, job, ans, triggers>>
    BY <1>5 DEF HookAbort, pgVars, workerVars
  <2> QED BY <2>1, RowsKept, WorkersKept
<1>6. CASE HookCommit
  <2> DEFINE n == hook.n
             a == HookAttempt(attempt[n], run[n][hook.k])
  <2>1. attempt' = [attempt EXCEPT ![n] = a] /\ UNCHANGED <<pc, job, ans, triggers>>
    BY <1>6 DEF HookCommit, workerVars, history
  <2>2. attempt[n] \in AttemptRow
    BY DEF TypeOK, OtherTypeOK, PgTypeOK
  <2>3. FinalState(run[n][hook.k]) # "none"
    BY DEF FinalState
  <2>4. a.held = FALSE /\ a.state = FinalState(run[n][hook.k])
    BY <2>2 DEF HookAttempt, AttemptRow
  <2> HIDE DEF a, n
  <2>5. RowsStay
    BY <2>1, <2>3, <2>4, RowReplaced
  <2> QED BY <2>1, <2>5, WorkersKept
<1> QED BY <1>1, <1>2, <1>3, <1>4, <1>5, <1>6 DEF DograhStep, HookStep

\* Every step keeps the fence, as long as Dograh refuses no configuration.
LEMMA FenceStep ==
  ASSUME "config" \notin Env, FenceInv, [Next]_vars PROVE FenceInv'
<1>1. TypeOK'
  BY NextType DEF FenceInv
<1>2. CASE UNCHANGED vars
  <2>1. UNCHANGED <<attempt, pc, job, ans, triggers>>
    BY <1>2 DEF vars, pgVars, workerVars, history
  <2>2. NoHold' /\ Fence'
    BY <2>1, RowsKept, WorkersKept, QuietStep DEF FenceInv
  <2> QED BY <1>1, <2>2 DEF FenceInv
<1>3. ASSUME NEW w \in Workers,
             \/ Read(w) \/ Reclaim(w) \/ DeadLetter(w)
             \/ WorkerStep(w) \/ WorkerFault(w) \/ CacheExpires(w)
      PROVE  NoHold' /\ Fence'
  BY <1>3, TakingQuiet, LoadQuiet, LookupQuiet, AnswerQuiet, QuietStep,
     ClaimKeepsFence, SendKeepsFence
  DEF WorkerStep, WorkerFault
<1>4. CASE LeaseExpires \/ RecoveryStep \/ DispatchAbort \/ Environment
  BY <1>1, <1>4, RecoveryQuiet, QuietStep DEF FenceInv
<1>5. CASE DograhStep \/ HookStep \/ HookAbort
  BY <1>1, <1>5, DograhQuiet, QuietStep DEF FenceInv
<1>6. CASE Next
  BY <1>1, <1>3, <1>4, <1>5, <1>6 DEF Next, FenceInv
<1> QED BY <1>1, <1>2, <1>6 DEF FenceInv

\* Nothing is claimed or sent in the beginning.
LEMMA InitFence == ASSUME Init PROVE FenceInv
<1>1. TypeOK
  BY InitType
<1>2. NoHold
  BY DEF Init, NoHold, NoRow, NoAnswer
<1>3. Fence
  BY DEF Init, Fence
<1> QED BY <1>1, <1>2, <1>3 DEF FenceInv

\* The invariant of every behaviour without configuration refusals.
THEOREM FenceInvariant == ASSUME "config" \notin Env PROVE Spec => []FenceInv
<1>1. ASSUME Init PROVE FenceInv
  BY <1>1, InitFence
<1>2. ASSUME FenceInv, [Next]_vars PROVE FenceInv'
  BY <1>2, FenceStep
<1> QED BY <1>1, <1>2, PTL DEF Spec

\* No attempt number is triggered twice: Dograh has no idempotency key, so this
\* is what keeps a person from being called twice for one attempt.
THEOREM SingleTrigger ==
  ASSUME "config" \notin Env PROVE Spec => []OneTriggerPerAttempt
<1>1. ASSUME FenceInv PROVE OneTriggerPerAttempt
  <2> SUFFICES ASSUME NEW n \in Attempts PROVE triggers[n] <= 1 + holds[n]
    BY DEF OneTriggerPerAttempt
  <2>1. triggers[n] <= 1 /\ triggers[n] \in Nat /\ holds[n] \in Nat
    BY <1>1 DEF FenceInv, Fence, TypeOK, HistoryTypeOK
  <2> QED BY <2>1
<1> QED BY <1>1, FenceInvariant, PTL

-----------------------------------------------------------------------------
(***************************************************************************)
(* The count of attempts.  A session adds one to the count it read, perhaps*)
(* long before its claim.  It is exact because attempt numbers are handed  *)
(* out in order: whatever carries a number n, in the stream, in the        *)
(* schedule, in a process or in the contact's row, the attempt before n has*)
(* a row, so that a worker that found no row for n has read the count n - 1*)
(***************************************************************************)
Exists(n) == attempt[n].state # "none"
Follows(n) == n = 1 \/ Exists(n - 1)

\* The rows are those of the attempts counted.
Counted ==
  /\ contact.count <= MaxRetries + 2
  /\ \A n \in Attempts : Exists(n) <=> n <= contact.count

\* Every number that may come to be dialed follows an attempt that was made.
InOrder ==
  /\ contact.no # 0 => Follows(contact.no)
  /\ \A s \in Slots : Follows(stream[s].n)
  /\ \A e \in sched : Follows(e.n)
  /\ Follows(disp.e.n)
  /\ \A w \in Workers : Follows(job[w].n)

BeforeClaim == {"claim", "lookup2", "gate2"}
AfterClaim == {"send", "await", "answer", "hold", "lookup1", "resolve1"}

\* Workers before their claim have read the count that goes with their number;
\* after it, and in the webhook's hands, an attempt exists.
InHand ==
  /\ hook.on => Exists(hook.n)
  /\ \A w \in Workers :
       /\ pc[w] \in BeforeClaim => seen[w].count = job[w].n - 1
       /\ pc[w] \in AfterClaim => Exists(job[w].n)

CountInv == FenceInv /\ Counted /\ InOrder /\ InHand

\* What RecoveryManager does to the count and to the numbers.
LEMMA DisconnectNumbers ==
  ASSUME NEW c \in ContactRow, NEW att, NEW n \in Attempts, NEW reason,
         NEW d, d = HandleDisconnect(c, att, n, reason)
  PROVE  /\ d.contact.count = c.count
         /\ d.contact.no \in {c.no, n + 1}
         /\ d.contact.status # "PENDING" \/ d.contact.status = c.status
         /\ \A e \in d.entries : e.n = n + 1 /\ e.kind = "retry"
         /\ \/ n <= MaxRetries
            \/ /\ d.entries = {} /\ d.contact.no = c.no
               /\ d.contact.status \in {c.status, "COMPLETED_PARTIAL"}
<1>1. CASE c.status = "CLOSED" \/ suppressed
  BY <1>1 DEF HandleDisconnect
<1>2. CASE /\ ~(c.status = "CLOSED" \/ suppressed)
           /\ campaign # "COMPLETED" /\ ShouldRetry(att, n, reason)
  <2> DEFINE r == [c EXCEPT !.status = "RETRY_SCHEDULED", !.due = TRUE, !.no = n + 1]
             es == {[n |-> n + 1, kind |-> "retry"]}
  <2>1. d = [contact |-> r, entries |-> es]
    BY <1>2 DEF HandleDisconnect
  <2>2. r.count = c.count /\ r.no = n + 1 /\ r.status = "RETRY_SCHEDULED"
    BY DEF ContactRow
  <2>3. \A e \in es : e.n = n + 1 /\ e.kind = "retry"
    OBVIOUS
  <2>4. n <= MaxRetries
    BY <1>2 DEF ShouldRetry
  <2> HIDE DEF r, es
  <2> QED BY <2>1, <2>2, <2>3, <2>4
<1>3. CASE /\ ~(c.status = "CLOSED" \/ suppressed)
           /\ ~(campaign # "COMPLETED" /\ ShouldRetry(att, n, reason))
  <2>1. d = [contact |-> GivenUp(c), entries |-> {}]
    BY <1>3 DEF HandleDisconnect
  <2>2. /\ GivenUp(c).count = c.count /\ GivenUp(c).no = c.no
        /\ GivenUp(c).status = "COMPLETED_PARTIAL"
    BY DEF GivenUp, ContactRow
  <2> QED BY <2>1, <2>2
<1> QED BY <1>1, <1>2, <1>3

\* A session that leaves the count alone writes the row's own count back.
LEMMA MergeNumbers ==
  ASSUME NEW row \in ContactRow, NEW loaded, NEW new, NEW newDue,
         NEW m, m = Merge(row, loaded, new, newDue)
  PROVE  /\ m.count = IF new.count # loaded.count THEN new.count ELSE row.count
         /\ m.no = IF new.no # loaded.no THEN new.no ELSE row.no
         /\ m.status = IF new.status # loaded.status THEN new.status ELSE row.status
  BY DEF Merge

\* The effect of a failure record.
LEMMA RecordNumbers ==
  ASSUME TypeOK, NEW w \in Workers, NEW amb, NEW reason, RecordFailure(w, amb, reason)
  PROVE  /\ contact'.count = contact.count
         /\ contact'.no \in {contact.no, job[w].n + 1}
         /\ contact'.status = "PENDING" => contact.status = "PENDING"
         /\ \A e \in sched' : e \in sched \/ (e.n = job[w].n + 1 /\ e.kind = "retry")
         /\ \/ job[w].n <= MaxRetries
            \/ /\ sched' = sched /\ contact'.no = contact.no
               /\ contact'.status \in {contact.status, "COMPLETED_PARTIAL"}
<1> DEFINE n == job[w].n
           d == HandleDisconnect(seen[w], FailedAttempt(n, amb), n, reason)
<1>1. /\ contact' = Merge(contact, seen[w], d.contact, d.entries # {})
      /\ sched' = sched \cup d.entries
  BY DEF RecordFailure
<1>2. n \in Attempts /\ seen[w] \in ContactRow /\ contact \in ContactRow
  BY DEF TypeOK, WorkerTypeOK, PgTypeOK
<1>3. /\ d.contact.count = seen[w].count
      /\ d.contact.no \in {seen[w].no, n + 1}
      /\ d.contact.status # "PENDING" \/ d.contact.status = seen[w].status
      /\ \A e \in d.entries : e.n = n + 1 /\ e.kind = "retry"
      /\ \/ n <= MaxRetries
         \/ /\ d.entries = {} /\ d.contact.no = seen[w].no
            /\ d.contact.status \in {seen[w].status, "COMPLETED_PARTIAL"}
  BY <1>2, DisconnectNumbers
<1> HIDE DEF n, d
<1>4. /\ contact'.count = contact.count
      /\ contact'.no \in {contact.no, n + 1}
      /\ contact'.status = "PENDING" => contact.status = "PENDING"
  BY <1>1, <1>2, <1>3, MergeNumbers
<1>5. \/ n <= MaxRetries
      \/ /\ sched' = sched /\ contact'.no = contact.no
         /\ contact'.status \in {contact.status, "COMPLETED_PARTIAL"}
  BY <1>1, <1>2, <1>3, MergeNumbers
<1> QED BY <1>1, <1>3, <1>4, <1>5 DEF n

\* The effect of a webhook.
LEMMA HookNumbers ==
  ASSUME TypeOK, HookCommit
  PROVE  /\ contact'.count = contact.count
         /\ contact'.no \in {contact.no, hook.n + 1}
         /\ contact'.status = "PENDING" => contact.status = "PENDING"
         /\ \A e \in sched' : e \in sched \/ (e.n = hook.n + 1 /\ e.kind = "retry")
         /\ \/ hook.n <= MaxRetries
            \/ /\ sched' = sched /\ contact'.no = contact.no
               /\ contact'.status = "RETRY_SCHEDULED" => contact.status = "RETRY_SCHEDULED"
<1> DEFINE n == hook.n
           o == run[n][hook.k]
           c == HookContact(hook.seen, o)
           h == HandleDisconnect(c, [attempt EXCEPT ![n] = HookAttempt(@, o)], n, Reason(o))
           d == IF FinalState(o) = "ENDED_NORMALLY" THEN [contact |-> c, entries |-> {}] ELSE h
<1>1. /\ contact' = Merge(HookBase(contact), HookBase(hook.seen), d.contact, d.entries # {})
      /\ sched' = sched \cup d.entries
  BY DEF HookCommit
<1>2. n \in Attempts /\ hook.seen \in ContactRow /\ contact \in ContactRow
  BY DEF TypeOK, OtherTypeOK, PgTypeOK
<1>3. /\ HookBase(contact) \in ContactRow
      /\ HookBase(contact).count = contact.count /\ HookBase(contact).no = contact.no
      /\ HookBase(hook.seen).count = hook.seen.count /\ HookBase(hook.seen).no = hook.seen.no
  BY <1>2 DEF HookBase, ContactRow, Statuses
<1>4. c \in ContactRow /\ c.count = hook.seen.count /\ c.no = hook.seen.no
  BY <1>2 DEF HookContact, ContactRow, Statuses
<1>s. /\ c.status # "PENDING" \/ c.status = HookBase(hook.seen).status
      /\ HookBase(contact).status = "PENDING" => contact.status = "PENDING"
      /\ HookBase(contact).status \in {contact.status, "DIALING"}
      /\ c.status \in {HookBase(hook.seen).status, "CLOSED", "COMPLETED", "DISCONNECTED"}
  BY <1>2 DEF HookContact, HookBase, ContactRow
<1> HIDE DEF c, n, o
<1>5. /\ h.contact.count = c.count /\ h.contact.no \in {c.no, n + 1}
      /\ h.contact.status # "PENDING" \/ h.contact.status = c.status
      /\ \A e \in h.entries : e.n = n + 1 /\ e.kind = "retry"
      /\ \/ n <= MaxRetries
         \/ /\ h.entries = {} /\ h.contact.no = c.no
            /\ h.contact.status \in {c.status, "COMPLETED_PARTIAL"}
  BY <1>2, <1>4, DisconnectNumbers
<1> HIDE DEF h
<1>6. /\ d.contact.count = c.count /\ d.contact.no \in {c.no, n + 1}
      /\ d.contact.status # "PENDING" \/ d.contact.status = c.status
      /\ \A e \in d.entries : e.n = n + 1 /\ e.kind = "retry"
      /\ \/ n <= MaxRetries
         \/ /\ d.entries = {} /\ d.contact.no = c.no
            /\ d.contact.status \in {c.status, "COMPLETED_PARTIAL"}
  BY <1>5
<1> HIDE DEF d
<1>7. /\ contact'.count = contact.count /\ contact'.no \in {contact.no, n + 1}
      /\ contact'.status = "PENDING" => contact.status = "PENDING"
  BY <1>1, <1>3, <1>4, <1>s, <1>6, MergeNumbers
<1>8. \/ n <= MaxRetries
      \/ /\ sched' = sched /\ contact'.no = contact.no
         /\ contact'.status = "RETRY_SCHEDULED" => contact.status = "RETRY_SCHEDULED"
  BY <1>1, <1>3, <1>4, <1>s, <1>6, MergeNumbers
<1> QED BY <1>1, <1>6, <1>7, <1>8 DEF n

\* Nobody is given a run before it has a row.
RunsStay == \A n \in Attempts : attempt'[n].state = "none" => attempt'[n].run = attempt[n].run

\* The same rows exist.
SameStates ==
  /\ \A n \in Attempts : attempt'[n].state # "none" <=> attempt[n].state # "none"
  /\ RunsStay

\* Worker w claims its attempt, which had no row.
Claims(w) ==
  /\ pc[w] \in BeforeClaim /\ attempt[job[w].n].state = "none"
  /\ \A n \in Attempts : attempt'[n].state # "none" <=> (attempt[n].state # "none" \/ n = job[w].n)
  /\ contact'.count = job[w].n /\ contact'.no \in {0, contact.no} /\ RunsStay
  /\ pc' = [pc EXCEPT ![w] = "send"]
  /\ UNCHANGED <<stream, sched, disp, hook, job, seen>>

\* Nobody claims: the same rows exist, the count stays, and a contact that has
\* left PENDING does not come back to it.
SameRows ==
  /\ SameStates /\ contact'.count = contact.count
  /\ contact'.status = "PENDING" => contact.status = "PENDING"

\* A row that exists is replaced by one that exists.
LEMMA SameRow ==
  ASSUME TypeOK, NEW n, NEW a, attempt' = [attempt EXCEPT ![n] = a],
         n \in Attempts => attempt[n].state # "none" /\ a.state # "none"
  PROVE  SameStates
  BY DEF TypeOK, PgTypeOK, SameStates, RunsStay

\* No row is written.
LEMMA UntouchedRows == ASSUME attempt' = attempt PROVE SameStates
  BY DEF SameStates, RunsStay

\* The claim, or its refusal.
LEMMA ClaimCounts ==
  ASSUME CountInv, NEW w \in Workers, pc[w] \in BeforeClaim,
         ClaimIfOpen(w, job[w].n, attempt), UNCHANGED <<sched, disp, hook>>
  PROVE  (SameRows /\ contact' = contact) \/ Claims(w)
<1> DEFINE n == job[w].n
           row == [attempt[n] EXCEPT !.state = "INITIATED", !.held = FALSE,
                                     !.provErr = FALSE, !.age = 0]
           new == [status |-> "DIALING", count |-> seen[w].count + 1, due |-> FALSE, no |-> 0]
<1>a. /\ n \in Attempts /\ attempt[n] \in AttemptRow /\ ans[w].kind # "held"
      /\ contact \in ContactRow /\ seen[w] \in ContactRow /\ TypeOK
  BY DEF CountInv, FenceInv, NoHold, TypeOK, WorkerTypeOK, PgTypeOK
<1>1. CASE ~OutboundOpen(w) \/ Taken(attempt, n)
  <2>1. attempt' = attempt /\ contact' = contact
    BY <1>a, <1>1 DEF ClaimIfOpen, CommitClaim
  <2> QED BY <2>1, UntouchedRows DEF SameRows
<1>2. CASE OutboundOpen(w) /\ ~Taken(attempt, n)
  <2>1. /\ attempt' = [attempt EXCEPT ![n] = row]
        /\ contact' = Merge(contact, seen[w], new, FALSE)
        /\ Goto(w, "send") /\ UNCHANGED <<job, seen, stream>>
    BY <1>2 DEF ClaimIfOpen, CommitClaim
  <2>2. attempt[n].state = "none" /\ row.state = "INITIATED"
    BY <1>2, <1>a DEF Taken, AttemptRow
  <2>3. seen[w].count = n - 1 /\ n \in Nat
    BY <1>a DEF CountInv, InHand, Attempts
  <2>4. new.count = n /\ new.count # seen[w].count /\ new.no = 0
    BY <2>3
  <2> HIDE DEF row, new, n
  <2>5. \A m \in Attempts : attempt'[m].state # "none" <=> (attempt[m].state # "none" \/ m = n)
    BY <1>a, <2>1, <2>2 DEF TypeOK, PgTypeOK
  <2>7. RunsStay
    BY <1>a, <2>1, <2>2 DEF TypeOK, PgTypeOK, RunsStay
  <2>6. contact'.count = n /\ contact'.no \in {0, contact.no}
    BY <1>a, <2>1, <2>4 DEF Merge, ContactRow
  <2> QED BY <2>1, <2>2, <2>5, <2>6, <2>7 DEF Claims, Goto, n
<1> QED BY <1>1, <1>2

\* A session that changes neither the count nor the number.
LEMMA MergeStatus ==
  ASSUME NEW row \in ContactRow, NEW loaded \in ContactRow, NEW s, s # "PENDING"
  PROVE  /\ Merge(row, loaded, [loaded EXCEPT !.status = s], FALSE).count = row.count
         /\ Merge(row, loaded, [loaded EXCEPT !.status = s], FALSE).no = row.no
         /\ \/ Merge(row, loaded, [loaded EXCEPT !.status = s], FALSE).status # "PENDING"
            \/ Merge(row, loaded, [loaded EXCEPT !.status = s], FALSE).status = row.status
<1> DEFINE new == [loaded EXCEPT !.status = s]
<1>1. new.count = loaded.count /\ new.no = loaded.no /\ new.status = s
  BY DEF ContactRow
<1> HIDE DEF new
<1>2. /\ Merge(row, loaded, new, FALSE).count = row.count
      /\ Merge(row, loaded, new, FALSE).no = row.no
      /\ Merge(row, loaded, new, FALSE).status \in {s, row.status}
  BY <1>1 DEF Merge
<1> QED BY <1>2 DEF new

\* What a worker does to the rows and to the contact's numbers.
LEMMA WorkerRows ==
  ASSUME CountInv, NEW w \in Workers,
         \/ Read(w) \/ Reclaim(w) \/ DeadLetter(w)
         \/ WorkerStep(w) \/ WorkerFault(w) \/ CacheExpires(w)
  PROVE  \/ Claims(w)
         \/ /\ SameRows
            /\ \/ contact'.no \in {0, contact.no}
               \/ contact'.no = job[w].n + 1 /\ pc[w] \in AfterClaim
<1> DEFINE n == job[w].n
<1>a. /\ TypeOK /\ n \in Attempts /\ attempt[n] \in AttemptRow
      /\ contact \in ContactRow /\ seen[w] \in ContactRow
  BY DEF CountInv, FenceInv, TypeOK, WorkerTypeOK, PgTypeOK
<1>1. CASE attempt' = attempt /\ contact' = contact
  BY <1>1, UntouchedRows DEF SameRows
<1>2. CASE DeadLetter(w)
  <2>1. attempt' = attempt /\ (contact' = contact \/ contact' = Parked(contact))
    BY <1>2 DEF DeadLetter
  <2>2. /\ Parked(contact).count = contact.count /\ Parked(contact).no \in {0, contact.no}
        /\ Parked(contact).status # "PENDING"
    BY <1>a DEF Parked, ContactRow
  <2> QED BY <2>1, <2>2, UntouchedRows DEF SameRows
<1>3. CASE Lookup2Down(w)
  <2> DEFINE m == n - 1
  <2>1. /\ \/ contact' = contact
           \/ contact' = Merge(contact, seen[w], [seen[w] EXCEPT !.status = "COMPLETED_PARTIAL"], FALSE)
        /\ attempt' = attempt \/ attempt' = [attempt EXCEPT ![m].deferrals = @ + 1]
    BY <1>3 DEF Lookup2Down
  <2> HIDE DEF m
  <2>2. SameStates
    BY <1>a, <2>1 DEF TypeOK, PgTypeOK, AttemptRow, SameStates, RunsStay
  <2>3. /\ contact'.count = contact.count /\ contact'.no = contact.no
        /\ contact'.status = "PENDING" => contact.status = "PENDING"
    <3>1. CASE contact' = contact
      BY <3>1
    <3>2. CASE contact' = Merge(contact, seen[w],
                                [seen[w] EXCEPT !.status = "COMPLETED_PARTIAL"], FALSE)
      BY <1>a, <3>2, MergeStatus
    <3> QED BY <2>1, <3>1, <3>2
  <2> QED BY <2>2, <2>3 DEF SameRows
<1>4. CASE Gate2(w)
  <2> DEFINE m == n - 1
  <2>1. CASE ClaimIfOpen(w, n, attempt)
    <3>1. pc[w] \in BeforeClaim /\ UNCHANGED <<sched, disp, hook>>
      BY <1>4 DEF Gate2, BeforeClaim, otherVars
    <3> QED BY <2>1, <3>1, ClaimCounts
  <2>2. CASE /\ StillUnresolved(n)
             /\ attempt' = [attempt EXCEPT ![m] = [Reopened(@) EXCEPT !.run = ans[w].run]]
             /\ contact' = Merge(contact, seen[w], [seen[w] EXCEPT !.status = "DIALING"], FALSE)
    <3> DEFINE r == [Reopened(attempt[m]) EXCEPT !.run = ans[w].run]
    <3>1. attempt[m].state = "FAILED_TO_CONNECT"
      BY <2>2 DEF StillUnresolved
    <3>2. m \in Attempts => r.state # "none"
      BY <1>a DEF TypeOK, PgTypeOK, Reopened, AttemptRow
    <3>3. attempt' = [attempt EXCEPT ![m] = r]
      BY <2>2
    <3> HIDE DEF m, r
    <3>4. SameStates
      BY <1>a, <3>1, <3>2, <3>3, SameRow
    <3> QED BY <1>a, <2>2, <3>4, MergeStatus DEF SameRows
  <2>3. CASE attempt' = attempt /\ contact' = contact
    BY <1>1, <2>3
  <2> QED BY <1>4, <2>1, <2>2, <2>3 DEF Gate2
<1>5. CASE Claim(w)
  <2>1. pc[w] \in BeforeClaim /\ UNCHANGED <<sched, disp, hook>> /\ ClaimIfOpen(w, n, attempt)
    BY <1>5 DEF Claim, BeforeClaim, otherVars
  <2> QED BY <2>1, ClaimCounts
<1>6. CASE AnswerOk(w)
  <2> DEFINE r == [attempt[n] EXCEPT !.run = ans[w].run, !.held = FALSE]
  <2>1. attempt' = [attempt EXCEPT ![n] = r] /\ contact' = contact
    BY <1>6 DEF AnswerOk
  <2>2. r.state = attempt[n].state /\ attempt[n].state # "none"
    BY <1>a, <1>6 DEF AttemptRow, AnswerOk, AfterClaim, CountInv, InHand, Exists
  <2> HIDE DEF r, n
  <2>3. SameStates
    BY <1>a, <2>1, <2>2, SameRow
  <2> QED BY <2>1, <2>3 DEF SameRows
<1>7. CASE EngageHalt(w) \/ AnswerConfig(w)
  BY <1>7 DEF EngageHalt, AnswerConfig, CountInv, FenceInv, NoHold
<1>8. ASSUME NEW amb, attempt' = FailedAttempt(n, amb), pc[w] \in AfterClaim
      PROVE  SameStates
  <2> DEFINE r == [attempt[n] EXCEPT !.state = "FAILED_TO_CONNECT", !.provErr = TRUE,
                                     !.amb = attempt[n].amb \/ amb, !.held = FALSE]
  <2>1. attempt' = [attempt EXCEPT ![n] = r]
    BY <1>8 DEF FailedAttempt
  <2>2. r.state # "none"
    BY <1>a DEF AttemptRow
  <2>3. attempt[n].state # "none"
    BY <1>8 DEF CountInv, InHand, Exists
  <2> HIDE DEF r, n
  <2> QED BY <1>a, <2>1, <2>2, <2>3, SameRow
<1>9. ASSUME NEW amb, NEW reason, RecordFailure(w, amb, reason), pc[w] \in AfterClaim
      PROVE  SameRows /\ contact'.no \in {0, contact.no, job[w].n + 1}
  BY <1>a, <1>8, <1>9, RecordNumbers DEF RecordFailure, SameRows
<1>10. CASE AnswerFailed(w)
  BY <1>9, <1>10 DEF AnswerFailed, AfterClaim
<1>11. CASE Resolve1(w)
  <2>0. pc[w] \in AfterClaim
    BY <1>11 DEF Resolve1, AfterClaim
  <2>1. CASE RecordFailure(w, TRUE, "provider")
    BY <1>9, <2>0, <2>1
  <2>2. CASE contact' = contact /\ attempt' = [attempt EXCEPT ![n].run = ans[w].run]
    <3>1. attempt[n].state # "none"
      BY <2>0 DEF CountInv, InHand, Exists
    <3> DEFINE r == [attempt[n] EXCEPT !.run = ans[w].run]
    <3>2. attempt' = [attempt EXCEPT ![n] = r] /\ r.state = attempt[n].state
      BY <1>a, <2>2 DEF AttemptRow
    <3> HIDE DEF n, r
    <3>3. SameStates
      BY <1>a, <3>1, <3>2, SameRow
    <3> QED BY <2>2, <3>3 DEF SameRows
  <2> QED BY <1>1, <1>11, <2>1, <2>2 DEF Resolve1
<1>12. CASE RecoverySwallowed(w)
  <2>1. attempt' = FailedAttempt(n, TRUE) /\ contact' = contact /\ pc[w] \in AfterClaim
    BY <1>12 DEF RecoverySwallowed, AfterClaim
  <2> QED BY <1>8, <2>1 DEF SameRows
<1>13. CASE \/ Read(w) \/ Reclaim(w) \/ CacheExpires(w) \/ Blocked(w) \/ PutAside(w) \/ Admit(w)
            \/ NotAdmitted(w) \/ SettlePaused(w) \/ SettleWindow(w) \/ Unguard(w) \/ Ack(w)
            \/ Load(w) \/ Lookup2(w) \/ Send(w) \/ AnswerAmbiguous(w) \/ Lookup1(w)
            \/ Crash(w) \/ Abandon(w)
  <2>1. attempt' = attempt /\ contact' = contact
    BY <1>13 DEF Read, Reclaim, CacheExpires, Blocked, PutAside, Admit, NotAdmitted, SettlePaused,
                 SettleWindow, Unguard, Ack, Load, Lookup2, Send, AnswerAmbiguous, Lookup1, Crash,
                 Abandon, pgVars
  <2> QED BY <1>1, <2>1
<1> QED BY <1>2, <1>3, <1>4, <1>5, <1>6, <1>7, <1>10, <1>11, <1>12, <1>13
        DEF WorkerStep, WorkerFault

\* What everybody else does to them.
LEMMA OtherRows ==
  ASSUME CountInv,
         \/ LeaseExpires \/ RecoveryStep \/ DispatchAbort \/ Environment
         \/ DograhStep \/ HookStep \/ HookAbort
  PROVE  /\ SameRows
         /\ contact'.no \in {0, contact.no} \/ (hook.on /\ contact'.no = hook.n + 1)
<1>a. TypeOK /\ contact \in ContactRow /\ disp.seen \in ContactRow
  BY DEF CountInv, FenceInv, TypeOK, PgTypeOK, OtherTypeOK
<1>1. CASE attempt' = attempt /\ contact' = contact
  BY <1>1, UntouchedRows DEF SameRows
<1>2. CASE DispatchCommit
  <2> DEFINE m == disp.e.n - 1
             off == [disp.seen EXCEPT !.due = FALSE, !.no = 0]
             on == [disp.seen EXCEPT !.due = TRUE]
  <2>1. /\ \/ contact' = Merge(contact, disp.seen, off, FALSE)
           \/ contact' = Merge(contact, disp.seen, on, TRUE)
        /\ attempt' = attempt \/ attempt' = [attempt EXCEPT ![m].held = FALSE]
    BY <1>2 DEF DispatchCommit, Noted
  <2>2. /\ off.count = disp.seen.count /\ off.no = 0
        /\ on.count = disp.seen.count /\ on.no = disp.seen.no
        /\ off.status = disp.seen.status /\ on.status = disp.seen.status
    BY <1>a DEF ContactRow
  <2> HIDE DEF m, off, on
  <2>3. SameStates
    BY <1>a, <2>1 DEF TypeOK, PgTypeOK, AttemptRow, SameStates, RunsStay
  <2>4. CASE contact' = Merge(contact, disp.seen, off, FALSE)
    <3>1. /\ contact'.count = contact.count /\ contact'.no \in {0, contact.no}
          /\ contact'.status = contact.status
      BY <2>2, <2>4 DEF Merge
    <3> QED BY <2>3, <3>1 DEF SameRows
  <2>5. CASE contact' = Merge(contact, disp.seen, on, TRUE)
    <3>1. /\ contact'.count = contact.count /\ contact'.no \in {0, contact.no}
          /\ contact'.status = contact.status
      BY <2>2, <2>5 DEF Merge
    <3> QED BY <2>3, <3>1 DEF SameRows
  <2> QED BY <2>1, <2>4, <2>5
<1>3. ASSUME NEW n \in Attempts, AttemptAges(n) \/ Sweep(n)
      PROVE  SameRows /\ contact'.no = contact.no
  <2>1. attempt[n] \in AttemptRow /\ attempt[n].state = "INITIATED"
    BY <1>a, <1>3 DEF TypeOK, PgTypeOK, AttemptAges, Sweep, Stuck
  <2>2. \E r : attempt' = [attempt EXCEPT ![n] = r] /\ r.state # "none"
    <3>1. CASE AttemptAges(n)
      <4>1. attempt' = [attempt EXCEPT ![n] = [attempt[n] EXCEPT !.age = @ + 1]]
        BY <3>1 DEF AttemptAges
      <4>2. [attempt[n] EXCEPT !.age = @ + 1].state # "none"
        BY <2>1 DEF AttemptRow
      <4> QED BY <4>1, <4>2
    <3>2. CASE Sweep(n)
      <4>1. attempt' = [attempt EXCEPT ![n] = Reviewed(attempt[n])]
        BY <3>2 DEF Sweep
      <4>2. Reviewed(attempt[n]).state # "none"
        BY <2>1 DEF Reviewed, AttemptRow
      <4> QED BY <4>1, <4>2
    <3> QED BY <1>3, <3>1, <3>2
  <2>3. SameStates
    BY <1>a, <2>1, <2>2, SameRow
  <2>4. /\ contact'.count = contact.count /\ contact'.no = contact.no
        /\ contact'.status \in {"NEEDS_REVIEW", contact.status}
    BY <1>a, <1>3 DEF AttemptAges, Sweep, ContactRow
  <2> QED BY <2>3, <2>4 DEF SameRows
<1>4. CASE Suppress
  <2>1. /\ attempt' = attempt /\ contact'.count = contact.count /\ contact'.no = contact.no
        /\ contact'.status \in {"CLOSED", contact.status}
    BY <1>a, <1>4 DEF Suppress, ContactRow
  <2> QED BY <2>1, UntouchedRows DEF SameRows
<1>5. CASE HookCommit
  <2> DEFINE n == hook.n
             r == HookAttempt(attempt[n], run[n][hook.k])
  <2>1. attempt' = [attempt EXCEPT ![n] = r] /\ hook.on
    BY <1>5 DEF HookCommit
  <2>2. n \in Attempts /\ attempt[n] \in AttemptRow
    BY <1>a DEF TypeOK, OtherTypeOK, PgTypeOK
  <2>3. r.state = FinalState(run[n][hook.k])
    BY <2>2 DEF HookAttempt, AttemptRow
  <2>4. FinalState(run[n][hook.k]) # "none"
    BY DEF FinalState
  <2>5. attempt[n].state # "none"
    BY <2>1 DEF CountInv, InHand, Exists
  <2> HIDE DEF r
  <2>6. SameStates
    BY <1>a, <2>1, <2>3, <2>4, <2>5, SameRow
  <2> QED BY <1>a, <1>5, <2>1, <2>6, HookNumbers DEF SameRows
<1>6. CASE \/ LeaseExpires \/ DispatchAbort \/ DispatchClaim \/ DispatchRetry \/ DispatchDial
           \/ Rebuild \/ Enqueue
           \/ Pause \/ Resume \/ Complete \/ WindowTurns \/ KillSwitch \/ ReleaseStop
           \/ GuardExpires \/ RedisLoss
           \/ DograhStep \/ HookAbort \/ \E n \in Attempts, k \in RunIds : HookLoad(n, k)
  <2>1. attempt' = attempt /\ contact' = contact
    BY <1>6 DEF LeaseExpires, DispatchAbort, DispatchClaim, DispatchRetry, DispatchDial, Rebuild,
                Enqueue, Pause, Resume, Complete, WindowTurns, KillSwitch, ReleaseStop,
                GuardExpires, RedisLoss, DograhStep, Accept, Refuse, TimeOut, RunEnds, HookAbort,
                HookLoad, pgVars
  <2> QED BY <1>1, <2>1
<1> QED BY <1>2, <1>3, <1>4, <1>5, <1>6 DEF RecoveryStep, Environment, HookStep

\* A set of natural numbers has a least element.
LEMMA LeastOf ==
  ASSUME NEW T \in SUBSET Nat, T # {}
  PROVE  \E x \in T : \A y \in T : x <= y
<1>1. PICK x \in T : \A y \in T : ~(<<y, x>> \in OpToRel(<, Nat))
  <2> DEFINE R == OpToRel(<, Nat)
  <2>1. IsWellFoundedOn(R, Nat)
    BY NatLessThanWellFounded
  <2> HIDE DEF R
  <2>2. \E x \in T : \A y \in T : ~(<<y, x>> \in R)
    BY <2>1, WFMin
  <2> QED BY <2>2 DEF R
<1>2. ASSUME NEW y \in T PROVE x <= y
  <2>1. x \in Nat /\ y \in Nat
    OBVIOUS
  <2>2. ~(y < x)
    BY <1>1, <2>1 DEF OpToRel
  <2> QED BY <2>1, <2>2
<1> QED BY <1>2

\* A new entry goes to a free place.
LEMMA FirstFree ==
  ASSUME FreeSlots # {}
  PROVE  (CHOOSE s \in FreeSlots : \A t \in FreeSlots : s <= t) \in FreeSlots
<1>1. FreeSlots \in SUBSET Nat
  BY DialAssumption DEF FreeSlots, Slots
<1>2. \E s \in FreeSlots : \A t \in FreeSlots : s <= t
  BY <1>1, LeastOf
<1> QED BY <1>2

\* What can happen to a place of the stream: its entry is counted or left alone,
Kept(s) ==
  /\ stream'[s].n = stream[s].n /\ stream'[s].retry = stream[s].retry
  /\ stream'[s].st = "empty" <=> stream[s].st = "empty"

\* it is acknowledged, given up or lost,
Gone(s) ==
  /\ stream'[s] = NoMessage
  /\ \/ RedisLoss
     \/ \E w \in Workers : /\ job' = Forget(w, s)
                           /\ DeadLetter(w) \/ (Ack(w) /\ job[w].slot = s)

\* or a first dial or a retry is added.
Added(s) ==
  /\ stream[s].st = "empty" /\ stream'[s].st = "new" /\ UNCHANGED <<pc, job>>
  /\ \/ stream'[s].n = 1 /\ stream'[s].retry = FALSE
     \/ /\ stream'[s].n = disp.e.n /\ stream'[s].retry = TRUE
        /\ disp.pc = "claimed" /\ disp.e.kind # "dial"

\* Nothing else happens to it.
LEMMA StreamStep ==
  ASSUME TypeOK, [Next]_vars, NEW s \in Slots
  PROVE  Kept(s) \/ Gone(s) \/ Added(s)
<1>a. stream \in [Slots -> Message] /\ stream[s] \in Message
  BY DEF TypeOK, RedisTypeOK
<1>1. ASSUME stream' = stream PROVE Kept(s)
  BY <1>1 DEF Kept
<1>2. ASSUME NEW n, NEW retry, EnqueueOnce(n, retry)
      PROVE  \/ Kept(s)
             \/ /\ stream[s].st = "empty" /\ stream'[s].st = "new"
                /\ stream'[s].n = n /\ stream'[s].retry = retry
  <2> DEFINE t == CHOOSE t \in FreeSlots : \A u \in FreeSlots : t <= u
             msg == [st |-> "new", n |-> n, retry |-> retry, del |-> 0]
  <2>1. CASE stream' = stream
    BY <1>1, <2>1
  <2>2. CASE FreeSlots # {} /\ stream' = [stream EXCEPT ![t] = msg]
    <3>1. t \in FreeSlots
      BY <2>2, FirstFree
    <3>2. t \in Slots /\ stream[t].st = "empty"
      BY <3>1 DEF FreeSlots
    <3>3. msg.n = n /\ msg.st = "new" /\ msg.retry = retry
      OBVIOUS
    <3> HIDE DEF t, msg
    <3>4. stream'[s] = IF s = t THEN msg ELSE stream[s]
      BY <1>a, <2>2
    <3> QED BY <3>2, <3>3, <3>4 DEF Kept
  <2> QED BY <1>2, <2>1, <2>2 DEF EnqueueOnce
<1>3. ASSUME NEW t \in Slots, NEW d, stream' = [stream EXCEPT ![t] = d],
             d.n = stream[t].n, d.retry = stream[t].retry,
             d.st = "empty" <=> stream[t].st = "empty"
      PROVE  Kept(s)
  BY <1>a, <1>3 DEF Kept
<1>4. ASSUME NEW w \in Workers, NEW reset, Leave(w, reset) PROVE Kept(s)
  <2> DEFINE t == job[w].slot
             d == [stream[t] EXCEPT !.del = 0]
  <2>1. stream' = stream \/ (t # 0 /\ stream' = [stream EXCEPT ![t] = d])
    BY <1>4 DEF Leave
  <2>2. t # 0 => t \in Slots
    BY DEF TypeOK, WorkerTypeOK
  <2>3. t \in Slots => d.n = stream[t].n /\ d.retry = stream[t].retry /\ d.st = stream[t].st
    BY <1>a DEF Message
  <2> HIDE DEF t, d
  <2> QED BY <1>1, <1>3, <2>1, <2>2, <2>3
<1>5. ASSUME NEW w \in Workers, Read(w) \/ Reclaim(w)
      PROVE  Kept(s)
  <2>1. CASE Read(w)
    <3>1. PICK t \in Slots :
            /\ stream[t].st = "new"
            /\ stream' = [stream EXCEPT ![t] = [stream[t] EXCEPT !.st = "pending", !.del = 1]]
      BY <2>1 DEF Read
    <3> DEFINE d == [stream[t] EXCEPT !.st = "pending", !.del = 1]
    <3>2. d.n = stream[t].n /\ d.retry = stream[t].retry /\ d.st = "pending"
      BY <1>a DEF Message
    <3>3. stream' = [stream EXCEPT ![t] = d]
      BY <3>1
    <3> HIDE DEF d
    <3> QED BY <1>3, <3>1, <3>2, <3>3
  <2>2. CASE Reclaim(w)
    <3>1. PICK t \in Slots :
            stream' = [stream EXCEPT ![t] = [stream[t] EXCEPT !.del = @ + 1]]
      BY <2>2 DEF Reclaim
    <3> DEFINE d == [stream[t] EXCEPT !.del = @ + 1]
    <3>2. d.n = stream[t].n /\ d.retry = stream[t].retry /\ d.st = stream[t].st
      BY <1>a DEF Message
    <3>3. stream' = [stream EXCEPT ![t] = d]
      BY <3>1
    <3> HIDE DEF d
    <3> QED BY <1>3, <3>2, <3>3
  <2> QED BY <1>5, <2>1, <2>2
<1>6. ASSUME NEW w \in Workers, DeadLetter(w) PROVE Kept(s) \/ Gone(s)
  <2>1. PICK t \in Slots : stream' = [stream EXCEPT ![t] = NoMessage] /\ job' = Forget(w, t)
    BY <1>6 DEF DeadLetter
  <2>2. CASE s = t
    BY <1>a, <1>6, <2>1, <2>2 DEF Gone
  <2>3. CASE s # t
    BY <1>a, <2>1, <2>3 DEF Kept
  <2> QED BY <2>2, <2>3
<1>7. ASSUME NEW w \in Workers, Ack(w) PROVE Kept(s) \/ Gone(s)
  <2> DEFINE t == job[w].slot
  <2>1. job' = Forget(w, t) /\ (stream' = stream \/ stream' = [stream EXCEPT ![t] = NoMessage])
    BY <1>7 DEF Ack
  <2>2. CASE stream' = [stream EXCEPT ![t] = NoMessage] /\ s = t
    BY <1>a, <1>7, <2>1, <2>2 DEF Gone
  <2>3. CASE stream' = [stream EXCEPT ![t] = NoMessage] /\ s # t
    BY <1>a, <2>3 DEF Kept
  <2> QED BY <1>1, <2>1, <2>2, <2>3
<1>8. ASSUME NEW w \in Workers, WorkerStep(w) \/ WorkerFault(w) \/ CacheExpires(w)
      PROVE  Kept(s) \/ Gone(s)
  <2>1. CASE \/ Blocked(w) \/ NotAdmitted(w) \/ SettlePaused(w) \/ SettleWindow(w)
             \/ AnswerConfig(w) \/ Abandon(w) \/ Lookup2Down(w)
    BY <1>1, <1>4, <2>1 DEF Blocked, NotAdmitted, SettlePaused, SettleWindow, AnswerConfig, KeepJob,
                            Abandon, Lookup2Down
  <2>2. CASE Load(w)
    BY <1>1, <1>4, <2>2 DEF Load, ResolveClaim, RetryGate, Aside, GoOn
  <2>3. CASE Gate2(w) \/ Claim(w)
    BY <1>1, <1>4, <2>3 DEF Gate2, Claim, ClaimIfOpen, CommitClaim
  <2>4. CASE \/ PutAside(w) \/ Admit(w) \/ Unguard(w) \/ Lookup2(w) \/ Send(w) \/ AnswerOk(w)
             \/ EngageHalt(w) \/ AnswerFailed(w) \/ AnswerAmbiguous(w) \/ Lookup1(w) \/ Resolve1(w)
             \/ Crash(w) \/ RecoverySwallowed(w) \/ CacheExpires(w)
    <3>1. stream' = stream
      BY <2>4 DEF PutAside, Admit, Unguard, Lookup2, Send, AnswerOk, EngageHalt, AnswerFailed,
                  AnswerAmbiguous, Lookup1, Resolve1, RecordFailure, Crash, RecoverySwallowed,
                  CacheExpires, redisVars
    <3> QED BY <1>1, <3>1
  <2> QED BY <1>7, <1>8, <2>1, <2>2, <2>3, <2>4 DEF WorkerStep, WorkerFault
<1>9. CASE DispatchRetry
  <2>1. /\ disp.pc = "claimed" /\ disp.e.kind # "dial" /\ UNCHANGED <<pc, job>>
        /\ stream' = stream \/ EnqueueOnce(disp.e.n, TRUE)
    BY <1>9 DEF DispatchRetry, workerVars
  <2> QED BY <1>1, <1>2, <2>1 DEF Added
<1>10. CASE DispatchDial \/ Enqueue \/ Resume
  <2>1. UNCHANGED <<pc, job>> /\ (stream' = stream \/ EnqueueOnce(1, FALSE))
    BY <1>10 DEF DispatchDial, Enqueue, EnqueueScan, Resume, workerVars
  <2> QED BY <1>1, <1>2, <2>1 DEF Added
<1>11. CASE RedisLoss
  BY <1>11 DEF RedisLoss, Gone
<1>12. CASE \/ LeaseExpires \/ DispatchClaim \/ DispatchCommit \/ DispatchAbort \/ Rebuild
            \/ \E n \in Attempts : AttemptAges(n) \/ Sweep(n)
            \/ Pause \/ Complete \/ WindowTurns \/ KillSwitch \/ ReleaseStop \/ Suppress
            \/ GuardExpires \/ DograhStep \/ HookStep \/ HookAbort \/ UNCHANGED vars
  <2>1. stream' = stream
    BY <1>12 DEF LeaseExpires, DispatchClaim, DispatchCommit, DispatchAbort, Rebuild, AttemptAges,
                 Sweep, Pause, Complete, WindowTurns, KillSwitch, ReleaseStop, Suppress,
                 GuardExpires, DograhStep, Accept, Refuse, TimeOut, RunEnds, HookStep, HookLoad,
                 HookCommit, HookAbort, redisVars, vars
  <2> QED BY <1>1, <2>1
<1> QED BY <1>5, <1>6, <1>8, <1>9, <1>10, <1>11, <1>12 DEF Next, RecoveryStep, Environment

\* Where the numbers in the stream come from.
LEMMA StreamNumbers ==
  ASSUME TypeOK, [Next]_vars, NEW s \in Slots
  PROVE  stream'[s].n \in {1, stream[s].n, disp.e.n}
<1>1. Gone(s) => stream'[s].n = 1
  BY DEF Gone, NoMessage
<1>2. Kept(s) => stream'[s].n = stream[s].n
  BY DEF Kept
<1>3. Added(s) => stream'[s].n \in {1, disp.e.n}
  BY DEF Added
<1> QED BY <1>1, <1>2, <1>3, StreamStep

\* What can happen to the job in a worker's hands.
LEMMA JobStep ==
  ASSUME TypeOK, [Next]_vars, NEW v \in Workers
  PROVE  \/ job'[v] \in {job[v], NoJob, [job[v] EXCEPT !.slot = 0]}
         \/ /\ pc'[v] = "taken"
            /\ \E s \in Slots : /\ stream[s].st # "empty"
                                /\ job'[v] = [slot |-> s, n |-> stream[s].n,
                                              retry |-> stream[s].retry]
<1>a. job \in [Workers -> [slot : Slots \cup {0}, n : Attempts, retry : BOOLEAN]]
  BY DEF TypeOK, WorkerTypeOK
<1>1. CASE job' = job
  BY <1>1
<1>2. ASSUME NEW w \in Workers, job' = [job EXCEPT ![w] = NoJob]
      PROVE  job'[v] \in {job[v], NoJob}
  BY <1>a, <1>2
<1>3. ASSUME NEW w \in Workers, NEW reset, Leave(w, reset)
      PROVE  job'[v] \in {job[v], NoJob}
  BY <1>2, <1>3 DEF Leave
<1>4. ASSUME NEW w \in Workers, NEW s, job' = Forget(w, s)
      PROVE  job'[v] \in {job[v], NoJob, [job[v] EXCEPT !.slot = 0]}
  BY <1>4 DEF Forget
<1>5. ASSUME NEW w \in Workers, Read(w) \/ Reclaim(w)
      PROVE  \/ job'[v] = job[v]
             \/ /\ pc'[v] = "taken"
                /\ \E s \in Slots : /\ stream[s].st # "empty"
                                    /\ job'[v] = [slot |-> s, n |-> stream[s].n,
                                                  retry |-> stream[s].retry]
  <2>1. PICK s \in Slots : /\ stream[s].st # "empty"
                           /\ job' = [job EXCEPT ![w] = [slot |-> s, n |-> stream[s].n,
                                                         retry |-> stream[s].retry]]
    BY <1>5 DEF Read, Reclaim, Idle, TakenTwice
  <2>2. pc'[w] = "taken"
    BY <1>5 DEF Read, Reclaim, Goto, TypeOK, WorkerTypeOK
  <2> DEFINE j == [slot |-> s, n |-> stream[s].n, retry |-> stream[s].retry]
  <2>3. job'[v] = IF v = w THEN j ELSE job[v]
    BY <1>a, <2>1
  <2> QED BY <2>1, <2>2, <2>3
<1>6. ASSUME NEW w \in Workers, DeadLetter(w) \/ Ack(w)
      PROVE  job'[v] \in {job[v], NoJob, [job[v] EXCEPT !.slot = 0]}
  BY <1>4, <1>6 DEF DeadLetter, Ack
<1>7. ASSUME NEW w \in Workers, WorkerStep(w) \/ WorkerFault(w) \/ CacheExpires(w)
      PROVE  job'[v] \in {job[v], NoJob, [job[v] EXCEPT !.slot = 0]}
  <2>1. CASE \/ Blocked(w) \/ NotAdmitted(w) \/ SettlePaused(w) \/ SettleWindow(w)
             \/ AnswerConfig(w) \/ Abandon(w) \/ Lookup2Down(w)
    BY <1>3, <2>1 DEF Blocked, NotAdmitted, SettlePaused, SettleWindow, AnswerConfig, KeepJob, Abandon,
                      Lookup2Down
  <2>2. CASE Load(w)
    BY <1>3, <2>2 DEF Load, ResolveClaim, RetryGate, Aside, GoOn
  <2>3. CASE Gate2(w) \/ Claim(w)
    BY <1>3, <2>3 DEF Gate2, Claim, ClaimIfOpen, CommitClaim
  <2>4. CASE Crash(w)
    BY <1>2, <2>4 DEF Crash
  <2>5. CASE \/ PutAside(w) \/ Admit(w) \/ Unguard(w) \/ Lookup2(w) \/ Send(w) \/ AnswerOk(w)
             \/ EngageHalt(w) \/ AnswerFailed(w) \/ AnswerAmbiguous(w) \/ Lookup1(w) \/ Resolve1(w)
             \/ RecoverySwallowed(w) \/ CacheExpires(w)
    BY <2>5 DEF PutAside, Admit, Unguard, Lookup2, Send, AnswerOk, EngageHalt, AnswerFailed,
                AnswerAmbiguous, Lookup1, Resolve1, RecordFailure, RecoverySwallowed,
                CacheExpires
  <2> QED BY <1>6, <1>7, <2>1, <2>2, <2>3, <2>4, <2>5 DEF WorkerStep, WorkerFault
<1>8. CASE RedisLoss
  BY <1>8 DEF RedisLoss
<1>9. CASE \/ LeaseExpires \/ RecoveryStep \/ DispatchAbort
           \/ Pause \/ Resume \/ Complete \/ WindowTurns \/ KillSwitch \/ ReleaseStop \/ Suppress
           \/ GuardExpires \/ DograhStep \/ HookStep \/ HookAbort \/ UNCHANGED vars
  BY <1>9 DEF LeaseExpires, RecoveryStep, DispatchClaim, DispatchRetry, DispatchDial, DispatchCommit,
              DispatchAbort, Rebuild, Enqueue, AttemptAges,
               Sweep, Pause, Resume, Complete, WindowTurns, KillSwitch, ReleaseStop, Suppress, GuardExpires,
               DograhStep, Accept, Refuse, TimeOut, RunEnds, HookStep, HookLoad, HookCommit,
               HookAbort, workerVars, vars
<1> QED BY <1>5, <1>6, <1>7, <1>8, <1>9 DEF Next, Environment

\* The numbers in the workers' hands.
LEMMA JobNumbers ==
  ASSUME TypeOK, [Next]_vars, NEW v \in Workers
  PROVE  job'[v].n \in {1, job[v].n} \/ \E s \in Slots : job'[v].n = stream[s].n
<1>1. [job[v] EXCEPT !.slot = 0].n = job[v].n /\ NoJob.n = 1
  BY DEF TypeOK, WorkerTypeOK, NoJob
<1>2. CASE job'[v] \in {job[v], NoJob, [job[v] EXCEPT !.slot = 0]}
  BY <1>1, <1>2
<1>3. CASE \E s \in Slots : job'[v] = [slot |-> s, n |-> stream[s].n, retry |-> stream[s].retry]
  BY <1>3
<1> QED BY <1>2, <1>3, JobStep

\* The entry in the dispatcher's hands.
LEMMA DispStep ==
  ASSUME TypeOK, [Next]_vars
  PROVE  \/ disp' = NoDispatch \/ (DispatchClaim /\ disp'.e \in sched)
         \/ disp'.e = disp.e /\ (disp'.pc # "idle" => disp.pc # "idle")
<1>a. disp \in [pc : {"idle", "claimed", "keep", "full", "clear"}, e : Entry, seen : ContactRow]
  BY DEF TypeOK, OtherTypeOK
<1>1. CASE disp' = disp
  BY <1>1
<1>2. CASE disp' = NoDispatch
  BY <1>2
<1>3. CASE DispatchClaim
  BY <1>3 DEF DispatchClaim
<1>4. CASE DispatchRetry
  <2>1. disp.pc = "claimed" /\ \E label : disp' = [disp EXCEPT !.pc = label, !.seen = contact]
    BY <1>4 DEF DispatchRetry
  <2> QED BY <1>a, <2>1
<1>5. CASE DispatchCommit \/ DispatchDial \/ DispatchAbort
  BY <1>2, <1>5 DEF DispatchCommit, DispatchDial, DispatchAbort
<1>6. ASSUME NEW w \in Workers,
             \/ Read(w) \/ Reclaim(w) \/ DeadLetter(w)
             \/ WorkerStep(w) \/ WorkerFault(w) \/ CacheExpires(w)
      PROVE  disp' = disp
  BY <1>6 DEF Read, Reclaim, DeadLetter, WorkerStep, WorkerFault, CacheExpires, Blocked, PutAside,
              Admit, NotAdmitted, SettlePaused, SettleWindow, Unguard, Ack, Load, Lookup2,
              Lookup2Down, Gate2, Claim, Send, AnswerOk, EngageHalt, AnswerConfig, AnswerFailed,
              AnswerAmbiguous, Lookup1, Resolve1, RecordFailure, Crash, Abandon, RecoverySwallowed,
              otherVars
<1>7. CASE \/ LeaseExpires \/ Rebuild \/ Enqueue
           \/ \E n \in Attempts : AttemptAges(n) \/ Sweep(n)
           \/ Environment \/ DograhStep \/ HookStep \/ HookAbort \/ UNCHANGED vars
  BY <1>1, <1>7
     DEF LeaseExpires, Rebuild, Enqueue, AttemptAges, Sweep, Environment, Pause, Resume, Complete,
         WindowTurns, KillSwitch, ReleaseStop, Suppress, GuardExpires, RedisLoss, DograhStep,
         Accept, Refuse, TimeOut, RunEnds, HookStep, HookLoad, HookCommit, HookAbort, otherVars, vars
<1> QED BY <1>1, <1>3, <1>4, <1>5, <1>6, <1>7 DEF Next, RecoveryStep

\* The number in the dispatcher's hands.
LEMMA DispNumber ==
  ASSUME TypeOK, [Next]_vars
  PROVE  disp'.e.n \in {1, disp.e.n} \/ \E e \in sched : disp'.e.n = e.n
<1>1. NoDispatch.e.n = 1
  BY DEF NoDispatch, NoEntry
<1> QED BY <1>1, DispStep

\* Recovery is asked about attempt n, by its worker or its webhook, and the
\* policy allows another.
Retries(n) ==
  /\ n <= MaxRetries
  /\ \/ hook.on /\ hook.n = n /\ HookCommit
     \/ \E w \in Workers :
          /\ job[w].n = n /\ pc[w] \in AfterClaim
          /\ AnswerFailed(w) \/ (Resolve1(w) /\ ans[w].kind \in {"nothing", "down"})

\* Whose retry an entry can be: that of a worker, the webhook or the rebuild.
NewRetry(e) ==
  /\ e.kind = "retry"
  /\ \/ \E n \in Attempts : Retries(n) /\ e.n = n + 1
     \/ HookAbort /\ hook.on /\ e.n = hook.n + 1
     \/ Rebuild /\ e.n = RebuiltNumber

\* Where the schedule's entries come from.
LEMMA SchedStep ==
  ASSUME TypeOK, [Next]_vars, NEW e \in sched'
  PROVE  \/ e \in sched \/ (disp.pc # "idle" /\ e = disp.e)
         \/ e = [n |-> 1, kind |-> "dial"]
         \/ \E w \in Workers : job[w].retry /\ e = [n |-> job[w].n, kind |-> "moved"]
         \/ NewRetry(e)
<1>1. CASE sched' \subseteq sched
  BY <1>1
<1>3. ASSUME NEW w \in Workers, NEW amb, NEW reason, RecordFailure(w, amb, reason),
             pc[w] \in AfterClaim,
             AnswerFailed(w) \/ (Resolve1(w) /\ ans[w].kind \in {"nothing", "down"})
      PROVE  e \in sched \/ NewRetry(e)
  <2>1. job[w].n \in Attempts
    BY DEF TypeOK, WorkerTypeOK
  <2> QED BY <1>3, <2>1, RecordNumbers DEF NewRetry, Retries
<1>4. ASSUME NEW w \in Workers,
             \/ Read(w) \/ Reclaim(w) \/ DeadLetter(w)
             \/ WorkerStep(w) \/ WorkerFault(w) \/ CacheExpires(w)
      PROVE  \/ e \in sched \/ e = [n |-> 1, kind |-> "dial"]
             \/ job[w].retry /\ e = [n |-> job[w].n, kind |-> "moved"]
             \/ NewRetry(e)
  <2>1. CASE SettleWindow(w)
    <3>1. \/ sched' = sched
          \/ sched' = sched \cup {[n |-> 1, kind |-> "dial"]}
          \/ job[w].retry /\ sched' = sched \cup {[n |-> job[w].n, kind |-> "moved"]}
      BY <2>1 DEF SettleWindow
    <3> QED BY <3>1
  <2>2. CASE AnswerFailed(w)
    <3>1. pc[w] \in AfterClaim /\ \E reason : RecordFailure(w, FALSE, reason)
      BY <2>2 DEF AnswerFailed, AfterClaim
    <3> QED BY <1>3, <2>2, <3>1
  <2>3. CASE Resolve1(w)
    <3>1. \/ sched' = sched
          \/ RecordFailure(w, TRUE, "provider") /\ ans[w].kind \in {"nothing", "down"}
      BY <2>3 DEF Resolve1, redisVars
    <3>2. pc[w] \in AfterClaim
      BY <2>3 DEF Resolve1, AfterClaim
    <3> QED BY <1>3, <2>3, <3>1, <3>2
  <2>4. CASE \/ Read(w) \/ Reclaim(w) \/ DeadLetter(w) \/ CacheExpires(w) \/ WorkerFault(w)
             \/ Blocked(w) \/ PutAside(w) \/ Admit(w) \/ NotAdmitted(w) \/ SettlePaused(w)
             \/ Unguard(w) \/ Ack(w) \/ Load(w) \/ Lookup2(w) \/ Lookup2Down(w) \/ Gate2(w)
             \/ Claim(w) \/ Send(w) \/ AnswerOk(w) \/ EngageHalt(w) \/ AnswerConfig(w)
             \/ AnswerAmbiguous(w) \/ Lookup1(w)
    <3>1. sched' = sched
      BY <2>4 DEF Read, Reclaim, DeadLetter, CacheExpires, WorkerFault, Crash, Abandon,
                  RecoverySwallowed, Blocked, PutAside, Admit, NotAdmitted, SettlePaused, Unguard,
                  Ack, Load, Lookup2, Lookup2Down, Gate2, Claim, Send, AnswerOk, EngageHalt,
                  AnswerConfig, AnswerAmbiguous, Lookup1, redisVars
    <3> QED BY <3>1
  <2> QED BY <1>4, <2>1, <2>2, <2>3, <2>4 DEF WorkerStep
<1>5. CASE Rebuild
  <2> DEFINE x == [n |-> RebuiltNumber, kind |-> "retry"]
  <2>1. e \in sched \/ e = x
    BY <1>5 DEF Rebuild
  <2>2. x.n = RebuiltNumber /\ x.kind = "retry"
    OBVIOUS
  <2> HIDE DEF x
  <2> QED BY <1>5, <2>1, <2>2 DEF NewRetry
<1>6. CASE HookCommit
  <2>1. hook.on /\ hook.n \in Attempts
    BY <1>6 DEF HookCommit, TypeOK, OtherTypeOK
  <2> QED BY <1>6, <2>1, HookNumbers DEF NewRetry, Retries
<1>7. CASE HookAbort
  <2> DEFINE n == hook.n
             o == run[n][hook.k]
             c == HookContact(hook.seen, o)
             d == HandleDisconnect(c, attempt, n, Reason(o))
  <2>1. hook.on /\ (sched' = sched \/ sched' = sched \cup d.entries)
    BY <1>7 DEF HookAbort
  <2>2. n \in Attempts /\ hook.seen \in ContactRow
    BY DEF TypeOK, OtherTypeOK
  <2>3. c \in ContactRow
    BY <2>2 DEF HookContact, ContactRow, Statuses
  <2> HIDE DEF c, o, n
  <2>4. \A x \in d.entries : x.n = n + 1 /\ x.kind = "retry"
    BY <2>2, <2>3, DisconnectNumbers
  <2> HIDE DEF d
  <2> QED BY <1>7, <2>1, <2>4 DEF n, NewRetry
<1>8. CASE \/ DispatchClaim \/ DispatchRetry \/ DispatchDial \/ DispatchAbort \/ RedisLoss
  BY <1>8 DEF DispatchClaim, DispatchRetry, DispatchDial, DispatchAbort, RedisLoss
<1>9. CASE \/ LeaseExpires \/ DispatchCommit \/ Enqueue
           \/ \E n \in Attempts : AttemptAges(n) \/ Sweep(n)
           \/ Pause \/ Resume \/ Complete \/ WindowTurns \/ KillSwitch \/ ReleaseStop \/ Suppress
           \/ GuardExpires \/ DograhStep \/ (\E n \in Attempts, k \in RunIds : HookLoad(n, k))
           \/ UNCHANGED vars
  <2>1. sched' = sched
    BY <1>9
     DEF LeaseExpires, DispatchCommit, Enqueue, AttemptAges, Sweep, Pause, Resume, Complete,
         WindowTurns, KillSwitch, ReleaseStop, Suppress, GuardExpires, DograhStep,
         Accept, Refuse, TimeOut, RunEnds, HookLoad, redisVars, vars
  <2> QED BY <2>1
<1> QED BY <1>4, <1>5, <1>6, <1>7, <1>8, <1>9 DEF Next, RecoveryStep, Environment, HookStep

\* The numbers in the schedule.
LEMMA SchedNumbers ==
  ASSUME TypeOK, [Next]_vars, NEW e \in sched'
  PROVE  \/ e \in sched \/ e.n \in {1, disp.e.n}
         \/ hook.on /\ e.n = hook.n + 1
         \/ \E w \in Workers : \/ e.n = job[w].n
                               \/ pc[w] \in AfterClaim /\ e.n = job[w].n + 1
         \/ Rebuild /\ e.n = RebuiltNumber
<1>1. CASE e = [n |-> 1, kind |-> "dial"]
  BY <1>1
<1>2. ASSUME NEW w \in Workers, e = [n |-> job[w].n, kind |-> "moved"] PROVE e.n = job[w].n
  BY <1>2
<1>3. CASE NewRetry(e)
  BY <1>3 DEF NewRetry, Retries
<1> QED BY <1>1, <1>2, <1>3, SchedStep

\* How a worker comes before its claim, and after it.
Hands(v) ==
  /\ pc'[v] \in BeforeClaim =>
       /\ job'[v].n = job[v].n
       /\ \/ pc[v] \in BeforeClaim /\ seen'[v] = seen[v]
          \/ ~Exists(job[v].n) /\ seen'[v] = contact
  /\ pc'[v] \in AfterClaim =>
       /\ job'[v].n = job[v].n
       /\ pc[v] \in AfterClaim \/ Exists(job[v].n) \/ attempt'[job[v].n].state # "none"

\* A worker goes to a label with the job it has.
LEMMA HandsGo ==
  ASSUME TypeOK, NEW w \in Workers, NEW label, Goto(w, label), UNCHANGED job,
         \A v \in Workers : v # w => seen'[v] = seen[v],
         label \in BeforeClaim =>
           \/ pc[w] \in BeforeClaim /\ seen'[w] = seen[w]
           \/ ~Exists(job[w].n) /\ seen'[w] = contact,
         label \in AfterClaim =>
           pc[w] \in AfterClaim \/ Exists(job[w].n) \/ attempt'[job[w].n].state # "none",
         NEW v \in Workers
  PROVE  Hands(v)
<1>1. pc'[v] = IF v = w THEN label ELSE pc[v]
  BY DEF Goto, TypeOK, WorkerTypeOK
<1>2. CASE v = w
  BY <1>1, <1>2 DEF Hands
<1>3. CASE v # w
  BY <1>1, <1>3 DEF Hands
<1> QED BY <1>2, <1>3

\* A worker lets its job go.
LEMMA HandsFree ==
  ASSUME TypeOK, NEW w \in Workers, ToIdle(w),
         \A v \in Workers : v # w => job'[v].n = job[v].n,
         NEW v \in Workers
  PROVE  Hands(v)
<1>1. /\ pc'[v] = IF v = w THEN "idle" ELSE pc[v]
      /\ v # w => seen'[v] = seen[v]
  BY DEF ToIdle, TypeOK, WorkerTypeOK
<1> QED BY <1>1 DEF Hands, BeforeClaim, AfterClaim

\* A worker leaves its job pending.
LEMMA HandsLeave ==
  ASSUME TypeOK, NEW w \in Workers, NEW reset, Leave(w, reset), NEW v \in Workers
  PROVE  Hands(v)
<1>1. \A u \in Workers : u # w => job'[u].n = job[u].n
  BY DEF Leave, TypeOK, WorkerTypeOK
<1>2. ToIdle(w)
  BY DEF Leave
<1> QED BY <1>1, <1>2, HandsFree

\* What the workers' steps do to the jobs in hand.
LEMMA WorkerHands ==
  ASSUME TypeOK, NoHold, NEW w \in Workers,
         \/ Read(w) \/ Reclaim(w) \/ DeadLetter(w)
         \/ WorkerStep(w) \/ WorkerFault(w) \/ CacheExpires(w),
         NEW v \in Workers
  PROVE  Hands(v)
<1>a. /\ pc \in [Workers -> PCs] /\ seen \in [Workers -> ContactRow]
      /\ job \in [Workers -> [slot : Slots \cup {0}, n : Attempts, retry : BOOLEAN]]
  BY DEF TypeOK, WorkerTypeOK
<1>1. ASSUME NEW label \in PCs \ (BeforeClaim \cup AfterClaim), Goto(w, label),
             UNCHANGED job, \A u \in Workers : u # w => seen'[u] = seen[u]
      PROVE  Hands(v)
  BY <1>1, HandsGo
<1>2. ASSUME NEW label \in AfterClaim, Goto(w, label), UNCHANGED job,
             \A u \in Workers : u # w => seen'[u] = seen[u], pc[w] \in AfterClaim
      PROVE  Hands(v)
  <2>1. label \notin BeforeClaim
    BY <1>2 DEF AfterClaim, BeforeClaim
  <2> QED BY <1>2, <2>1, HandsGo
<1>3. ASSUME NEW label, NEW kind, GoOn(w, label, kind)
      PROVE  /\ Goto(w, label) /\ UNCHANGED job
             /\ seen'[w] = contact /\ \A u \in Workers : u # w => seen'[u] = seen[u]
  BY <1>a, <1>3 DEF GoOn
<1>4. CASE Read(w) \/ Reclaim(w)
  <2>1. pc' = [pc EXCEPT ![w] = "taken"] /\ UNCHANGED seen
    BY <1>4 DEF Read, Reclaim, Goto
  <2>2. PICK s \in Slots : job' = [job EXCEPT ![w] = [slot |-> s, n |-> stream[s].n,
                                                     retry |-> stream[s].retry]]
    BY <1>4 DEF Read, Reclaim
  <2> QED BY <1>a, <2>1, <2>2 DEF Hands, BeforeClaim, AfterClaim
<1>5. CASE DeadLetter(w)
  <2>1. UNCHANGED <<pc, seen>> /\ pc[w] = "idle"
    BY <1>5 DEF DeadLetter
  <2>2. PICK s \in Slots : job' = Forget(w, s)
    BY <1>5 DEF DeadLetter
  <2>3. v # w => job'[v].n = job[v].n
    BY <2>2, ForgetKeepsNumber
  <2> QED BY <2>1, <2>3 DEF Hands, BeforeClaim, AfterClaim
<1>6. CASE Ack(w)
  <2>1. ToIdle(w) /\ job' = Forget(w, job[w].slot)
    BY <1>6 DEF Ack
  <2>2. \A u \in Workers : u # w => job'[u].n = job[u].n
    BY <2>1, ForgetKeepsNumber
  <2> QED BY <2>1, <2>2, HandsFree
<1>7. CASE Blocked(w) \/ NotAdmitted(w) \/ AnswerConfig(w) \/ Abandon(w)
  BY <1>7, HandsLeave DEF Blocked, NotAdmitted, AnswerConfig, KeepJob, Abandon
<1>8. CASE Crash(w)
  <2>1. ToIdle(w) /\ \A u \in Workers : u # w => job'[u].n = job[u].n
    BY <1>a, <1>8 DEF Crash
  <2> QED BY <2>1, HandsFree
<1>9. CASE PutAside(w) \/ Admit(w) \/ Unguard(w)
  <2>1. UNCHANGED <<job, seen>>
    BY <1>9 DEF PutAside, Admit, Unguard
  <2>2. \E label \in PCs \ (BeforeClaim \cup AfterClaim) : Goto(w, label)
    BY <1>9 DEF PutAside, Admit, Unguard, PCs, BeforeClaim, AfterClaim
  <2> QED BY <1>1, <2>1, <2>2
<1>b. "ack" \in PCs \ (BeforeClaim \cup AfterClaim)
  BY DEF PCs, BeforeClaim, AfterClaim
<1>10. CASE SettlePaused(w) \/ SettleWindow(w)
  <2>1. \/ Leave(w, TRUE)
        \/ UNCHANGED <<job, seen>> /\ (Goto(w, "ack") \/ Goto(w, "unguard"))
    BY <1>10 DEF SettlePaused, SettleWindow
  <2>2. "unguard" \in PCs \ (BeforeClaim \cup AfterClaim)
    BY DEF PCs, BeforeClaim, AfterClaim
  <2> QED BY <1>1, <1>b, <2>1, <2>2, HandsLeave
<1>11. CASE Load(w)
  <2> DEFINE n == job[w].n
             a == attempt[n]
  <2>1. CASE Leave(w, TRUE)
    BY <2>1, HandsLeave
  <2>2. CASE Aside(w, "paused") \/ Aside(w, "closed")
    <3>1. UNCHANGED <<job, seen>> /\ (Goto(w, "paused") \/ Goto(w, "closed"))
      BY <2>2 DEF Aside
    <3>2. {"paused", "closed"} \subseteq PCs \ (BeforeClaim \cup AfterClaim)
      BY DEF PCs, BeforeClaim, AfterClaim
    <3> QED BY <1>1, <3>1, <3>2
  <2>3. CASE GoOn(w, "ack", "none")
    BY <1>1, <1>3, <1>b, <2>3
  <2>4. CASE GoOn(w, "lookup1", "none") /\ a.state # "none"
    <3>1. "lookup1" \notin BeforeClaim
      BY DEF BeforeClaim
    <3>2. Exists(job[w].n)
      BY <2>4 DEF Exists
    <3> QED BY <1>3, <2>4, <3>1, <3>2, HandsGo
  <2>5. ASSUME NEW label \in BeforeClaim, NEW kind, GoOn(w, label, kind), a.state = "none"
        PROVE  Hands(v)
    <3>1. label \notin AfterClaim
      BY <2>5 DEF BeforeClaim, AfterClaim
    <3>2. ~Exists(job[w].n)
      BY <2>5 DEF Exists
    <3> QED BY <1>3, <2>5, <3>1, <3>2, HandsGo
  <2>6. ASSUME NEW kind, RetryGate(w, n, kind), a.state = "none" PROVE Hands(v)
    <3>1. GoOn(w, "claim", kind) \/ GoOn(w, "lookup2", kind) \/ GoOn(w, "ack", "none")
      BY <2>6 DEF RetryGate
    <3>2. {"claim", "lookup2"} \subseteq BeforeClaim
      BY DEF BeforeClaim
    <3> QED BY <2>3, <2>5, <2>6, <3>1, <3>2
  <2>7. ~Held(a)
    BY <1>a DEF NoHold, Held
  <2>8. CASE ResolveClaim(w, a) /\ a.state # "none"
    BY <2>1, <2>3, <2>4, <2>8 DEF ResolveClaim
  <2> QED BY <1>11, <2>1, <2>2, <2>3, <2>6, <2>7, <2>8 DEF Load
<1>12. CASE Lookup2(w)
  <2>1. Goto(w, "gate2") /\ UNCHANGED <<job, seen>> /\ pc[w] \in BeforeClaim
    BY <1>12 DEF Lookup2, BeforeClaim
  <2>2. "gate2" \notin AfterClaim
    BY DEF AfterClaim
  <2> QED BY <2>1, <2>2, HandsGo
<1>13. CASE Lookup2Down(w)
  <2>1. Leave(w, TRUE) \/ (Goto(w, "ack") /\ UNCHANGED <<job, seen>>)
    BY <1>13 DEF Lookup2Down
  <2> QED BY <1>1, <1>b, <2>1, HandsLeave
<1>14. CASE Gate2(w) \/ Claim(w)
  <2> DEFINE n == job[w].n
             r == [attempt[n] EXCEPT !.state = "INITIATED", !.held = FALSE,
                                     !.provErr = FALSE, !.age = 0]
  <2>1. \/ Leave(w, TRUE)
        \/ Goto(w, "ack") /\ UNCHANGED <<job, seen>>
        \/ Goto(w, "send") /\ UNCHANGED <<job, seen>> /\ attempt' = [attempt EXCEPT ![n] = r]
    BY <1>14 DEF Gate2, Claim, ClaimIfOpen, CommitClaim
  <2>2. CASE Goto(w, "send") /\ UNCHANGED <<job, seen>> /\ attempt' = [attempt EXCEPT ![n] = r]
    <3>1. n \in Attempts /\ attempt \in [Attempts -> AttemptRow]
      BY DEF TypeOK, WorkerTypeOK, PgTypeOK
    <3>2. r.state = "INITIATED"
      BY <3>1 DEF AttemptRow
    <3> HIDE DEF r
    <3>3. attempt'[job[w].n].state # "none"
      BY <2>2, <3>1, <3>2
    <3>4. "send" \notin BeforeClaim
      BY DEF BeforeClaim
    <3> QED BY <2>2, <3>3, <3>4, HandsGo
  <2> QED BY <1>1, <1>b, <2>1, <2>2, HandsLeave
<1>15. CASE \/ Send(w) \/ AnswerAmbiguous(w) \/ Lookup1(w)
  <2>1. /\ UNCHANGED job /\ pc[w] \in AfterClaim
        /\ \A u \in Workers : u # w => seen'[u] = seen[u]
    BY <1>a, <1>15 DEF Send, AnswerAmbiguous, Lookup1, AfterClaim
  <2>2. \E label \in AfterClaim : Goto(w, label)
    BY <1>15 DEF Send, AnswerAmbiguous, Lookup1, AfterClaim
  <2> QED BY <1>2, <2>1, <2>2
<1>16. CASE EngageHalt(w)
  BY <1>16 DEF EngageHalt, NoHold
<1>17. CASE AnswerOk(w) \/ AnswerFailed(w) \/ Resolve1(w) \/ RecoverySwallowed(w)
  <2>1. Goto(w, "ack") /\ UNCHANGED <<job, seen>>
    BY <1>17 DEF AnswerOk, AnswerFailed, Resolve1, RecordFailure, RecoverySwallowed
  <2> QED BY <1>1, <1>b, <2>1
<1>18. CASE CacheExpires(w)
  BY <1>18 DEF CacheExpires, Hands
<1> QED BY <1>4, <1>5, <1>6, <1>7, <1>8, <1>9, <1>10, <1>11, <1>12, <1>13, <1>14, <1>15, <1>16,
           <1>17, <1>18 DEF WorkerStep, WorkerFault

\* What everybody else does to them.
LEMMA OtherHands ==
  ASSUME TypeOK,
         \/ LeaseExpires \/ RecoveryStep \/ DispatchAbort \/ Environment
         \/ DograhStep \/ HookStep \/ HookAbort \/ UNCHANGED vars,
         NEW v \in Workers
  PROVE  Hands(v)
<1>a. /\ pc \in [Workers -> PCs]
      /\ job \in [Workers -> [slot : Slots \cup {0}, n : Attempts, retry : BOOLEAN]]
  BY DEF TypeOK, WorkerTypeOK
<1>1. CASE UNCHANGED <<pc, job, seen>>
  BY <1>1 DEF Hands
<1>2. CASE RedisLoss
  <2>1. UNCHANGED <<pc, seen>> /\ job'[v].n = job[v].n
    BY <1>a, <1>2 DEF RedisLoss
  <2> QED BY <2>1 DEF Hands
<1>3. CASE Accept \/ Refuse \/ \E w \in Workers : TimeOut(w)
  <2>1. UNCHANGED <<job, seen>>
    BY <1>3 DEF Accept, Refuse, TimeOut
  <2>2. pc'[v] = pc[v] \/ (pc[v] = "await" /\ pc'[v] = "answer")
    BY <1>a, <1>3 DEF Accept, Refuse, TimeOut, Answer, Waits
  <2> QED BY <2>1, <2>2 DEF Hands, BeforeClaim, AfterClaim
<1>4. CASE \/ LeaseExpires \/ RecoveryStep \/ DispatchAbort
           \/ Pause \/ Resume \/ Complete \/ WindowTurns \/ KillSwitch \/ ReleaseStop \/ Suppress
           \/ GuardExpires \/ HookStep \/ HookAbort \/ UNCHANGED vars
           \/ \E n \in Attempts, k \in RunIds : RunEnds(n, k)
  <2>1. UNCHANGED <<pc, job, seen>>
    BY <1>4 DEF LeaseExpires, RecoveryStep, DispatchClaim, DispatchRetry, DispatchDial,
              DispatchCommit, DispatchAbort, Rebuild, Enqueue, AttemptAges, Sweep, Pause, Resume,
              Complete, WindowTurns, KillSwitch, ReleaseStop, Suppress, GuardExpires, RunEnds,
              HookStep, HookLoad, HookCommit, HookAbort, workerVars, vars
  <2> QED BY <1>1, <2>1
<1> QED BY <1>2, <1>3, <1>4 DEF Environment, DograhStep

\* A webhook is accepted for an attempt that exists.
LEMMA HookHand ==
  ASSUME TypeOK, [Next]_vars, hook'.on
  PROVE  \/ hook' = hook
         \/ Exists(hook'.n) /\ \E n \in Attempts, k \in RunIds : HookLoad(n, k)
<1>1. CASE \E n \in Attempts, k \in RunIds : HookLoad(n, k)
  <2>1. Exists(hook'.n)
    BY <1>1 DEF HookLoad, Exists
  <2> QED BY <1>1, <2>1
<1>2. CASE HookCommit \/ HookAbort
  <2>1. hook' = NoHook
    BY <1>2 DEF HookCommit, HookAbort
  <2>2. NoHook.on = FALSE
    BY DEF NoHook
  <2> QED BY <2>1, <2>2
<1>3. ASSUME NEW w \in Workers,
             \/ Read(w) \/ Reclaim(w) \/ DeadLetter(w)
             \/ WorkerStep(w) \/ WorkerFault(w) \/ CacheExpires(w)
      PROVE  hook' = hook
  BY <1>3 DEF Read, Reclaim, DeadLetter, WorkerStep, WorkerFault, CacheExpires, Blocked, PutAside,
              Admit, NotAdmitted, SettlePaused, SettleWindow, Unguard, Ack, Load, Lookup2,
              Lookup2Down, Gate2, Claim, Send, AnswerOk, EngageHalt, AnswerConfig, AnswerFailed,
              AnswerAmbiguous, Lookup1, Resolve1, RecordFailure, Crash, Abandon, RecoverySwallowed,
              otherVars
<1>4. CASE \/ LeaseExpires \/ RecoveryStep \/ DispatchAbort \/ Environment \/ DograhStep
           \/ UNCHANGED vars
  BY <1>4
     DEF LeaseExpires, RecoveryStep, DispatchClaim, DispatchRetry, DispatchDial, DispatchCommit,
         DispatchAbort, Rebuild, Enqueue, AttemptAges, Sweep, Environment, Pause, Resume, Complete,
         WindowTurns, KillSwitch, ReleaseStop, Suppress, GuardExpires, RedisLoss, DograhStep,
         Accept, Refuse, TimeOut, RunEnds, otherVars, vars
<1> QED BY <1>1, <1>2, <1>3, <1>4 DEF Next, HookStep

\* The count that goes with a number without a row.
LEMMA CountBefore ==
  ASSUME CountInv, NEW n \in Attempts, Follows(n), ~Exists(n)
  PROVE  contact.count = n - 1
<1>1. contact.count \in Nat /\ n \in Nat /\ n >= 1 /\ (n = 1 \/ n - 1 \in Attempts)
  BY DialAssumption DEF CountInv, FenceInv, TypeOK, PgTypeOK, ContactRow, Attempts
<1>2. n > contact.count
  BY <1>1 DEF CountInv, Counted
<1>3. n = 1 \/ n - 1 <= contact.count
  BY <1>1 DEF CountInv, Counted, Follows
<1> QED BY <1>1, <1>2, <1>3

\* Latest is the number of the last attempt, 0 when there is none.
LEMMA LatestIsCounted ==
  ASSUME CountInv
  PROVE  Latest \in Attempts \cup {0} /\ (Latest = 0 \/ attempt[Latest].state # "none")
<1> DEFINE P(n) == /\ n = 0 \/ attempt[n].state # "none"
                   /\ \A m \in Attempts : attempt[m].state # "none" => m <= n
<1>a. contact \in ContactRow
  BY DEF CountInv, FenceInv, TypeOK, PgTypeOK
<1>1. contact.count \in Attempts \cup {0}
  BY <1>a, DialAssumption DEF CountInv, Counted, ContactRow, Attempts
<1>2. P(contact.count)
  BY <1>a, <1>1 DEF CountInv, Counted, Exists, ContactRow
<1> QED BY <1>1, <1>2 DEF Latest

\* A schedule rebuilt from PostgreSQL keeps the order.
LEMMA RebuiltFollows ==
  ASSUME CountInv PROVE RebuiltNumber \in Attempts => Follows(RebuiltNumber)
<1>a. contact \in ContactRow
  BY DEF CountInv, FenceInv, TypeOK, PgTypeOK
<1>1. CASE contact.no # 0
  BY <1>1 DEF RebuiltNumber, CountInv, InOrder
<1>2. CASE contact.no = 0
  <2>3. Latest \in Attempts \cup {0} /\ (Latest = 0 \/ attempt[Latest].state # "none")
    BY LatestIsCounted
  <2>4. CASE Latest = 0
    BY <1>2, <2>4 DEF RebuiltNumber, Follows
  <2>5. CASE Latest # 0
    <3>1. Latest \in Int /\ attempt[Latest].state # "none" /\ RebuiltNumber = Latest + 1
      BY <1>2, <2>3, <2>5, DialAssumption DEF RebuiltNumber, Attempts
    <3>2. RebuiltNumber - 1 = Latest
      BY <3>1
    <3> QED BY <3>1, <3>2 DEF Follows, Exists
  <2> QED BY <2>4, <2>5
<1> QED BY <1>1, <1>2

\* What a step does to the rows and to the contact's numbers.
LEMMA RowsStep ==
  ASSUME CountInv, [Next]_vars
  PROVE  \/ \E w \in Workers : Claims(w)
         \/ /\ SameRows
            /\ \/ contact'.no \in {0, contact.no}
               \/ \E w \in Workers : contact'.no = job[w].n + 1 /\ pc[w] \in AfterClaim
               \/ hook.on /\ contact'.no = hook.n + 1
<1>1. CASE UNCHANGED vars
  BY <1>1, UntouchedRows DEF vars, pgVars, SameRows
<1>2. ASSUME NEW w \in Workers,
             \/ Read(w) \/ Reclaim(w) \/ DeadLetter(w)
             \/ WorkerStep(w) \/ WorkerFault(w) \/ CacheExpires(w)
      PROVE  \/ Claims(w)
             \/ /\ SameRows
                /\ \/ contact'.no \in {0, contact.no}
                   \/ contact'.no = job[w].n + 1 /\ pc[w] \in AfterClaim
  BY <1>2, WorkerRows
<1>3. CASE \/ LeaseExpires \/ RecoveryStep \/ DispatchAbort \/ Environment
           \/ DograhStep \/ HookStep \/ HookAbort
  BY <1>3, OtherRows
<1> QED BY <1>1, <1>2, <1>3 DEF Next

\* Rows exist for good, so that a number keeps its place in the order.
LEMMA CountStep ==
  ASSUME "config" \notin Env, CountInv, [Next]_vars PROVE CountInv'
<1>a. /\ TypeOK /\ NoHold /\ TypeOK' /\ FenceInv'
      /\ \A w \in Workers : job[w].n \in Attempts
      /\ hook.n \in Attempts
  BY FenceStep DEF CountInv, FenceInv, TypeOK, WorkerTypeOK, OtherTypeOK
<1>1. \/ \E w \in Workers : Claims(w)
      \/ /\ SameRows
         /\ \/ contact'.no \in {0, contact.no}
            \/ \E w \in Workers : contact'.no = job[w].n + 1 /\ pc[w] \in AfterClaim
            \/ hook.on /\ contact'.no = hook.n + 1
  BY RowsStep
<1>2. \A n \in Attempts : Exists(n) => attempt'[n].state # "none"
  BY <1>1 DEF Claims, SameRows, SameStates, Exists
<1>3. ASSUME NEW n \in Attempts, Follows(n) PROVE n = 1 \/ attempt'[n - 1].state # "none"
  <2>1. n = 1 \/ n - 1 \in Attempts
    BY DialAssumption DEF Attempts
  <2> QED BY <1>2, <1>3, <2>1 DEF Follows
<1>4. ASSUME NEW n \in Attempts, Exists(n) PROVE attempt'[(n + 1) - 1].state # "none"
  <2>1. (n + 1) - 1 = n
    BY DialAssumption DEF Attempts
  <2> QED BY <1>2, <1>4, <2>1
<1>5. Counted'
  <2>1. CASE SameRows
    BY <2>1 DEF CountInv, Counted, SameRows, SameStates, Exists
  <2>2. ASSUME NEW w \in Workers, Claims(w) PROVE Counted'
    <3> DEFINE n == job[w].n
    <3>1. contact.count = n - 1
      BY <1>a, <2>2, CountBefore DEF Claims, Exists, CountInv, InOrder
    <3>2. contact'.count = n /\ n \in Attempts
      BY <1>a, <2>2 DEF Claims
    <3>3. \A m \in Attempts : attempt'[m].state # "none" <=> m <= n
      <4>1. \A m \in Attempts : attempt[m].state # "none" <=> m <= n - 1
        BY <3>1 DEF CountInv, Counted, Exists
      <4>2. \A m \in Attempts : attempt'[m].state # "none" <=> (m <= n - 1 \/ m = n)
        BY <2>2, <4>1 DEF Claims
      <4>3. \A m \in Attempts : m \in Int
        BY DialAssumption DEF Attempts
      <4> HIDE DEF n
      <4> QED BY <3>2, <4>2, <4>3
    <3>4. n <= MaxRetries + 2
      BY <3>2, DialAssumption DEF Attempts
    <3> HIDE DEF n
    <3> QED BY <3>2, <3>3, <3>4 DEF Counted, Exists
  <2> QED BY <1>1, <2>1, <2>2
<1>6. contact'.no # 0 => Follows(contact.no)'
  <2>1. contact'.no \in Attempts \cup {0} /\ contact.no \in Attempts \cup {0}
    BY <1>a DEF TypeOK, PgTypeOK, ContactRow
  <2>2. CASE contact'.no \in {0, contact.no}
    BY <1>3, <2>1, <2>2 DEF CountInv, InOrder, Follows, Exists
  <2>3. ASSUME NEW w \in Workers, contact'.no = job[w].n + 1, pc[w] \in AfterClaim
        PROVE  Follows(contact.no)'
    BY <1>a, <1>4, <2>3 DEF CountInv, InHand, Follows, Exists
  <2>4. CASE hook.on /\ contact'.no = hook.n + 1
    BY <1>a, <1>4, <2>4 DEF CountInv, InHand, Follows, Exists
  <2>5. ASSUME NEW w \in Workers, Claims(w) PROVE contact'.no \in {0, contact.no}
    BY <2>5 DEF Claims
  <2> QED BY <1>1, <2>2, <2>3, <2>4, <2>5
<1>7. ASSUME NEW s \in Slots PROVE Follows(stream[s].n)'
  <2>1. stream[s].n \in Attempts /\ disp.e.n \in Attempts
    BY <1>a DEF TypeOK, RedisTypeOK, OtherTypeOK, Message, Entry
  <2>2. Follows(stream[s].n) /\ Follows(disp.e.n)
    BY DEF CountInv, InOrder
  <2>3. stream'[s].n \in {1, stream[s].n, disp.e.n}
    BY <1>a, StreamNumbers
  <2> QED BY <1>3, <2>1, <2>2, <2>3 DEF Follows, Exists
<1>8. ASSUME NEW e \in sched' PROVE Follows(e.n)'
  <2>1. /\ e \in sched => e.n \in Attempts /\ Follows(e.n)
        /\ disp.e.n \in Attempts /\ Follows(disp.e.n)
        /\ \A w \in Workers : Follows(job[w].n)
        /\ e.n \in Attempts
    BY <1>a DEF TypeOK, RedisTypeOK, OtherTypeOK, Entry, CountInv, InOrder
  <2>2. CASE e \in sched \/ e.n \in {1, disp.e.n}
    BY <1>3, <2>1, <2>2 DEF Follows, Exists
  <2>3. CASE hook.on /\ e.n = hook.n + 1
    BY <1>a, <1>4, <2>3 DEF CountInv, InHand, Follows, Exists
  <2>4. ASSUME NEW w \in Workers, e.n = job[w].n PROVE Follows(e.n)'
    BY <1>a, <1>3, <2>1, <2>4 DEF Follows, Exists
  <2>5. ASSUME NEW w \in Workers, e.n = job[w].n + 1, pc[w] \in AfterClaim PROVE Follows(e.n)'
    BY <1>a, <1>4, <2>5 DEF CountInv, InHand, Follows, Exists
  <2>6. CASE Rebuild /\ e.n = RebuiltNumber
    BY <1>3, <2>1, <2>6, RebuiltFollows DEF Follows, Exists
  <2> QED BY <1>a, <2>2, <2>3, <2>4, <2>5, <2>6, SchedNumbers
<1>9. Follows(disp.e.n)'
  <2>1. /\ disp.e.n \in Attempts /\ Follows(disp.e.n)
        /\ \A e \in sched : e.n \in Attempts /\ Follows(e.n)
    BY <1>a DEF TypeOK, RedisTypeOK, OtherTypeOK, Entry, CountInv, InOrder
  <2>2. disp'.e.n \in {1, disp.e.n} \/ \E e \in sched : disp'.e.n = e.n
    BY <1>a, DispNumber
  <2> QED BY <1>3, <2>1, <2>2 DEF Follows, Exists
<1>10. ASSUME NEW v \in Workers PROVE Follows(job[v].n)'
  <2>1. /\ job[v].n \in Attempts /\ Follows(job[v].n)
        /\ \A s \in Slots : stream[s].n \in Attempts /\ Follows(stream[s].n)
    BY <1>a DEF TypeOK, RedisTypeOK, Message, CountInv, InOrder
  <2>2. job'[v].n \in {1, job[v].n} \/ \E s \in Slots : job'[v].n = stream[s].n
    BY <1>a, JobNumbers
  <2> QED BY <1>3, <2>1, <2>2 DEF Follows, Exists
<1>11. hook'.on => Exists(hook.n)'
  <2>1. hook'.n \in Attempts
    BY <1>a DEF TypeOK, OtherTypeOK
  <2>2. hook'.on => Exists(hook'.n)
    BY <1>a, HookHand DEF CountInv, InHand
  <2> QED BY <1>2, <2>1, <2>2 DEF Exists
<1>12. ASSUME NEW v \in Workers
       PROVE  /\ pc'[v] \in BeforeClaim => seen'[v].count = job'[v].n - 1
              /\ pc'[v] \in AfterClaim => Exists(job[v].n)'
  <2>1. Hands(v)
    BY <1>a, WorkerHands, OtherHands DEF Next
  <2>2. job[v].n \in Attempts /\ Follows(job[v].n)
    BY <1>a DEF CountInv, InOrder
  <2>3. ASSUME pc'[v] \in BeforeClaim PROVE seen'[v].count = job'[v].n - 1
    BY <2>1, <2>2, <2>3, CountBefore DEF Hands, CountInv, InHand
  <2>4. ASSUME pc'[v] \in AfterClaim PROVE Exists(job[v].n)'
    BY <1>2, <2>1, <2>2, <2>4 DEF Hands, CountInv, InHand, Exists
  <2> QED BY <2>3, <2>4
<1>13. InOrder'
  BY <1>6, <1>7, <1>8, <1>9, <1>10 DEF InOrder
<1>14. InHand'
  BY <1>11, <1>12 DEF InHand, BeforeClaim, AfterClaim
<1> QED BY <1>a, <1>5, <1>13, <1>14 DEF CountInv

\* The invariant holds from the start.
LEMMA CountInit == ASSUME Init PROVE FenceInv => CountInv
<1>1. Counted
  BY DialAssumption DEF Init, Counted, Exists, NewContact, NoRow, Attempts
<1>2. InOrder
  BY DEF Init, InOrder, Follows, NewContact, NoMessage, NoDispatch, NoEntry, NoJob
<1>3. InHand
  <2>1. ~hook.on
    BY DEF Init, NoHook
  <2>2. \A w \in Workers : pc[w] = "idle"
    BY DEF Init
  <2> QED BY <2>1, <2>2 DEF InHand, BeforeClaim, AfterClaim
<1> QED BY <1>1, <1>2, <1>3 DEF CountInv

\* Attempt numbers are handed out in order, and the sessions that will write the
\* count have read the one that goes with their number.
THEOREM CountInvariant == ASSUME "config" \notin Env PROVE Spec => []CountInv
<1>1. ASSUME Init PROVE CountInv
  <2>1. FenceInv
    BY <1>1, InitFence
  <2> QED BY <1>1, <2>1, CountInit
<1>2. ASSUME CountInv, [Next]_vars PROVE CountInv'
  BY <1>2, CountStep
<1> QED BY <1>1, <1>2, PTL DEF Spec

\* attempt_count is exact although it is written from a value read before other
\* sessions committed: no claim is counted twice and none is lost.
THEOREM CountIsExact ==
  ASSUME "config" \notin Env PROVE Spec => []CountMatchesClaims
<1>1. ASSUME CountInv PROVE CountMatchesClaims
  <2>1. contact.count \in Nat
    BY <1>1 DEF CountInv, FenceInv, TypeOK, PgTypeOK, ContactRow
  <2>2. {n \in Attempts : attempt[n].state # "none" /\ ~attempt[n].held} = 1..contact.count
    <3>1. \A n \in Attempts : attempt[n].state # "none" /\ ~attempt[n].held <=> n <= contact.count
      BY <1>1 DEF CountInv, FenceInv, NoHold, Counted, Exists
    <3>2. contact.count <= MaxRetries + 2
      BY <1>1 DEF CountInv, Counted
    <3>3. {n \in Attempts : n <= contact.count} = 1..contact.count
      BY <2>1, <3>2, DialAssumption DEF Attempts
    <3> QED BY <3>1, <3>3
  <2>3. Cardinality(1..contact.count) = contact.count
    BY <2>1, FS_Interval
  <2> QED BY <2>2, <2>3 DEF CountMatchesClaims
<1> QED BY <1>1, CountInvariant, PTL

-----------------------------------------------------------------------------
(***************************************************************************)
(* The contract, as far as it concerns attempts and requests.  A request is*)
(* on its way or has become a call, not both, and nothing else makes calls.*)
(***************************************************************************)
CallInv ==
  /\ \A r \in wire : triggers[r.n] > 0 /\ \A k \in RunIds : run[r.n][k] = "none"
  /\ \A r, s \in wire : r.n = s.n => r = s
  /\ \A n \in Attempts, k \in RunIds : run[n][k] # "none" => triggers[n] > 0
  /\ \A n \in Attempts, j, k \in RunIds : run[n][j] # "none" /\ run[n][k] # "none" => j = k

\* No attempt has more than one call, and a call was asked for.
OneCallPerAttempt ==
  \A n \in Attempts, j, k \in RunIds :
    run[n][j] # "none" => triggers[n] = 1 /\ (run[n][k] # "none" => j = k)

\* Who sends, who makes and ends calls.
LEMMA CallSteps ==
  ASSUME TypeOK, [Next]_vars
  PROVE  \/ UNCHANGED <<wire, run, triggers>>
         \/ (\E w \in Workers : Send(w))
         \/ /\ UNCHANGED <<attempt, triggers>>
            /\ \/ Accept \/ Refuse \/ \E n \in Attempts, k \in RunIds : RunEnds(n, k)
<1>1. ASSUME NEW w \in Workers,
             \/ Read(w) \/ Reclaim(w) \/ DeadLetter(w)
             \/ WorkerStep(w) \/ WorkerFault(w) \/ CacheExpires(w)
      PROVE  UNCHANGED <<wire, run, triggers>> \/ Send(w)
  BY <1>1 DEF Read, Reclaim, DeadLetter, WorkerStep, WorkerFault, CacheExpires, Blocked, PutAside,
              Admit, NotAdmitted, SettlePaused, SettleWindow, Unguard, Ack, Load, Lookup2,
              Lookup2Down, Gate2, Claim, AnswerOk, EngageHalt, AnswerConfig, AnswerFailed,
              AnswerAmbiguous, Lookup1, Resolve1, RecordFailure, Crash, Abandon, RecoverySwallowed,
              dograhVars, history
<1>2. CASE \/ LeaseExpires \/ RecoveryStep \/ DispatchAbort \/ Environment \/ HookStep
           \/ HookAbort \/ (\E w \in Workers : TimeOut(w)) \/ UNCHANGED vars
  BY <1>2
     DEF LeaseExpires, RecoveryStep, DispatchClaim, DispatchRetry, DispatchDial, DispatchCommit,
         DispatchAbort, Rebuild, Enqueue, AttemptAges, Sweep, Environment, Pause, Resume, Complete,
         WindowTurns, KillSwitch, ReleaseStop, Suppress, GuardExpires, RedisLoss, HookStep,
         HookLoad, HookCommit, HookAbort, TimeOut, dograhVars, history, vars
<1>3. CASE Accept \/ Refuse \/ \E n \in Attempts, k \in RunIds : RunEnds(n, k)
  BY <1>3 DEF Accept, Refuse, RunEnds, pgVars, history
<1> QED BY <1>1, <1>2, <1>3 DEF Next, DograhStep

\* A step neither doubles a call nor makes one that was not asked for.
LEMMA CallStep ==
  ASSUME FenceInv, CallInv, [Next]_vars PROVE CallInv'
<1>a. /\ TypeOK /\ wire \subseteq [n : Attempts, w : Workers]
      /\ run \in [Attempts -> [RunIds -> {"none", "live"} \cup AllOutcomes]]
      /\ triggers \in [Attempts -> Nat]
  BY DEF FenceInv, TypeOK, DograhTypeOK, HistoryTypeOK
<1>1. CASE UNCHANGED <<wire, run, triggers>>
  BY <1>1 DEF CallInv
<1>2. ASSUME NEW w \in Workers, Send(w) PROVE CallInv'
  <2> DEFINE n == job[w].n
             q == [n |-> n, w |-> w]
  <2>1. /\ wire' = wire \cup {q} /\ run' = run
        /\ triggers' = [triggers EXCEPT ![n] = triggers[n] + 1]
    BY <1>2 DEF Send
  <2>2. n \in Attempts /\ triggers[n] = 0
    BY <1>2 DEF Send, FenceInv, Fence, TypeOK, WorkerTypeOK
  <2>3. q.n = n
    OBVIOUS
  <2> HIDE DEF n, q
  <2>4. \A m \in Attempts : triggers[m] > 0 => triggers'[m] > 0
    BY <1>a, <2>1, <2>2
  <2>5. triggers'[n] > 0
    BY <1>a, <2>1, <2>2
  <2>6. \A r \in wire : r.n # n /\ r.n \in Attempts
    BY <1>a, <2>2 DEF CallInv
  <2>7. \A k \in RunIds : run[n][k] = "none"
    BY <2>2 DEF CallInv
  <2>8. \A r \in wire' : triggers'[r.n] > 0 /\ \A k \in RunIds : run'[r.n][k] = "none"
    BY <2>1, <2>3, <2>4, <2>5, <2>6, <2>7 DEF CallInv
  <2>9. \A r, s \in wire' : r.n = s.n => r = s
    BY <2>1, <2>3, <2>6 DEF CallInv
  <2> QED BY <2>1, <2>4, <2>8, <2>9 DEF CallInv
<1>3. CASE Accept /\ UNCHANGED triggers
  <2>1. PICK r \in wire, k \in RunIds :
          /\ run' = [run EXCEPT ![r.n] = [run[r.n] EXCEPT ![k] = "live"]]
          /\ wire' = wire \ {r}
    BY <1>3 DEF Accept
  <2> DEFINE f == [run[r.n] EXCEPT ![k] = "live"]
  <2>2. r.n \in Attempts /\ triggers[r.n] > 0 /\ \A j \in RunIds : run[r.n][j] = "none"
    BY <1>a, <2>1 DEF CallInv
  <2>3. \A j \in RunIds : f[j] # "none" => j = k
    BY <1>a, <2>2
  <2>4. run' = [run EXCEPT ![r.n] = f]
    BY <2>1
  <2> HIDE DEF f
  <2>5. \A m \in Attempts : run'[m] = IF m = r.n THEN f ELSE run[m]
    BY <1>a, <2>2, <2>4
  <2>6. \A s \in wire' : s \in wire /\ s.n # r.n /\ s.n \in Attempts
    BY <1>a, <2>1 DEF CallInv
  <2> QED BY <1>3, <2>2, <2>3, <2>5, <2>6 DEF CallInv
<1>4. CASE Refuse /\ UNCHANGED triggers
  <2>1. wire' \subseteq wire /\ run' = run
    BY <1>4 DEF Refuse
  <2> QED BY <1>4, <2>1 DEF CallInv
<1>5. ASSUME NEW n \in Attempts, NEW k \in RunIds, RunEnds(n, k), UNCHANGED triggers
      PROVE  CallInv'
  <2>1. PICK o \in Outcomes : run' = [run EXCEPT ![n] = [run[n] EXCEPT ![k] = o]]
    BY <1>5 DEF RunEnds
  <2>2. run[n][k] # "none" /\ wire' = wire
    BY <1>5 DEF RunEnds
  <2>3. \A m \in Attempts, j \in RunIds : run'[m][j] = IF m = n /\ j = k THEN o ELSE run[m][j]
    BY <1>a, <2>1
  <2>4. \A m \in Attempts, j \in RunIds : run'[m][j] # "none" => run[m][j] # "none"
    BY <2>2, <2>3
  <2>5. \A r \in wire : r.n \in Attempts
    BY <1>a
  <2> QED BY <1>5, <2>2, <2>4, <2>5 DEF CallInv
<1> QED BY <1>a, <1>1, <1>2, <1>3, <1>4, <1>5, CallSteps

\* One phone call per attempt: also when the answer to its trigger is lost, so
\* that a lookup never has to choose between several runs of one attempt.
THEOREM SingleCall == ASSUME "config" \notin Env PROVE Spec => []OneCallPerAttempt
<1>1. ASSUME Init PROVE CallInv
  BY <1>1 DEF Init, CallInv
<1>2. ASSUME FenceInv, CallInv, [Next]_vars PROVE CallInv'
  BY <1>2, CallStep
<1>3. ASSUME FenceInv, CallInv PROVE OneCallPerAttempt
  <2>1. \A n \in Attempts : triggers[n] \in Nat /\ triggers[n] <= 1
    BY <1>3 DEF FenceInv, Fence, TypeOK, HistoryTypeOK
  <2>2. \A n \in Attempts : triggers[n] > 0 => triggers[n] = 1
    BY <2>1
  <2> QED BY <1>3, <2>2 DEF CallInv, OneCallPerAttempt
<1> QED BY <1>1, <1>2, <1>3, FenceInvariant, PTL DEF Spec

\* What a step does to the attempts opened and to the requests sent: it opens
\* the next attempt, or asks once for one that is open, or does neither.
Opened == {n \in Attempts : attempt[n].state # "none"}
InTurn ==
  \/ UNCHANGED <<Opened, triggers>>
  \/ \E n \in Attempts : /\ n \notin Opened /\ \A m \in Attempts : m < n => m \in Opened
                         /\ Opened' = Opened \cup {n}
                         /\ UNCHANGED <<triggers, run>>
  \/ \E n \in Attempts : /\ n \in Opened /\ triggers[n] = 0
                         /\ triggers' = [triggers EXCEPT ![n] = 1]
                         /\ UNCHANGED <<Opened, run>>

\* Open without the policy's limit, and Ask.
LEMMA InTurnStep == ASSUME CountInv, [Next]_vars PROVE InTurn
<1>a. /\ TypeOK /\ attempt \in [Attempts -> AttemptRow]
      /\ \A w \in Workers : job[w].n \in Attempts
  BY DEF CountInv, FenceInv, TypeOK, WorkerTypeOK, PgTypeOK
<1>1. ASSUME NEW w \in Workers, Send(w) PROVE InTurn
  <2> DEFINE n == job[w].n
  <2>1. UNCHANGED <<attempt, run>> /\ triggers' = [triggers EXCEPT ![n] = triggers[n] + 1]
    BY <1>1 DEF Send, pgVars
  <2>2. n \in Attempts /\ triggers[n] = 0 /\ attempt[n].state # "none"
    BY <1>1, <1>a DEF Send, CountInv, FenceInv, Fence
  <2>3. triggers' = [triggers EXCEPT ![n] = 1]
    BY <2>1, <2>2
  <2>4. UNCHANGED Opened /\ n \in Opened
    BY <2>1, <2>2 DEF Opened
  <2> QED BY <2>1, <2>2, <2>3, <2>4 DEF InTurn
<1>2. CASE UNCHANGED <<attempt, triggers>>
  BY <1>2 DEF InTurn, Opened
<1>3. CASE UNCHANGED <<wire, run, triggers>>
  <2>1. ASSUME NEW w \in Workers, Claims(w) PROVE InTurn
    <3> DEFINE n == job[w].n
    <3>1. n \in Attempts /\ n \notin Opened /\ Follows(n) /\ ~Exists(n)
      BY <1>a, <2>1 DEF Claims, Opened, Exists, CountInv, InOrder
    <3>2. Opened' = Opened \cup {n}
      BY <1>a, <2>1, <3>1 DEF Claims, Opened
    <3>3. \A m \in Attempts : m < n => m \in Opened
      <4>1. contact.count = n - 1
        BY <3>1, CountBefore
      <4>2. \A m \in Attempts : m < n => m <= n - 1
        BY <3>1, DialAssumption DEF Attempts
      <4> QED BY <4>1, <4>2 DEF CountInv, Counted, Exists, Opened
    <3> HIDE DEF n
    <3> QED BY <1>3, <3>1, <3>2, <3>3 DEF InTurn
  <2>2. CASE SameRows
    BY <1>3, <2>2 DEF SameRows, SameStates, InTurn, Opened
  <2> QED BY <2>1, <2>2, RowsStep
<1> QED BY <1>a, <1>1, <1>2, <1>3, CallSteps

\* The part of DialContract that concerns attempts and requests: Open without the
\* policy's limit, and Ask.
THEOREM AttemptsInTurn == ASSUME "config" \notin Env PROVE Spec => [][InTurn]_vars
BY InTurnStep, CountInvariant, PTL DEF Spec

-----------------------------------------------------------------------------
(***************************************************************************)
(* The enqueue guard of the first dial.  While the contact is owed its     *)
(* first dial and the guard is set, an entry for that dial is in the       *)
(* stream, and no worker is about to acknowledge it.  A worker comes to its*)
(* acknowledgement of a first dial only past a claim, past the release of  *)
(* the guard, or when the dial is no longer owed.                          *)
(***************************************************************************)
Owed == Unattempted(contact) /\ ~suppressed /\ campaign # "COMPLETED"

\* An attempt without a row has no run.
Clean == \A n \in Attempts : attempt[n].state = "none" => attempt[n].run = 0

\* A retry is never attempt 1, and what is deferred as a dial is attempt 1.
Kinds ==
  /\ contact.no # 1
  /\ \A e \in sched : e.kind = "dial" <=> e.n = 1
  /\ disp.pc # "idle" => (disp.e.kind = "dial" <=> disp.e.n = 1)
  /\ \A s \in Slots : stream[s].retry => stream[s].n # 1
  /\ \A w \in Workers : job[w].retry => job[w].n # 1
  /\ \A w \in Workers : pc[w] \in {"lookup2", "gate2"} => job[w].n # 1

\* A worker has in hand what the stream says.
Agree ==
  \A w \in Workers : job[w].slot # 0 =>
    stream[job[w].slot].st # "empty" /\ stream[job[w].slot].n = job[w].n

\* The guard's entry.
Sure ==
  1 \in guard /\ Owed =>
    \E s \in Slots : /\ stream[s].st # "empty" /\ stream[s].n = 1
                     /\ \A w \in Workers : pc[w] = "ack" => job[w].slot # s

GuardInv == CountInv /\ Clean /\ Kinds /\ Agree /\ Sure

\* Only its own step takes a worker that has a job anywhere, but to its answer.
LEMMA EntersBySelf ==
  ASSUME TypeOK, [Next]_vars, NEW v \in Workers, pc'[v] # "taken", pc'[v] # pc[v]
  PROVE  WorkerStep(v) \/ WorkerFault(v) \/ (pc[v] = "await" /\ pc'[v] = "answer")
<1>a. pc \in [Workers -> PCs]
  BY DEF TypeOK, WorkerTypeOK
<1>1. ASSUME NEW w \in Workers, NEW label, Goto(w, label) \/ ToIdle(w) PROVE w = v
  BY <1>a, <1>1 DEF Goto, ToIdle
<1>2. ASSUME NEW w \in Workers, WorkerStep(w) \/ WorkerFault(w) PROVE w = v
  <2>1. CASE \/ Blocked(w) \/ PutAside(w) \/ Admit(w) \/ NotAdmitted(w) \/ SettlePaused(w)
             \/ SettleWindow(w) \/ Unguard(w) \/ Ack(w) \/ Lookup2(w) \/ Lookup2Down(w)
             \/ Send(w) \/ AnswerOk(w) \/ EngageHalt(w) \/ AnswerConfig(w) \/ AnswerAmbiguous(w)
             \/ Lookup1(w) \/ Crash(w) \/ Abandon(w) \/ RecoverySwallowed(w)
    BY <1>1, <2>1 DEF Blocked, PutAside, Admit, NotAdmitted, SettlePaused, SettleWindow, Unguard, Ack,
                      Lookup2, Lookup2Down, Send, AnswerOk, EngageHalt, AnswerConfig, KeepJob,
                      AnswerAmbiguous, Lookup1, Crash, Abandon, RecoverySwallowed, Leave
  <2>2. CASE Load(w)
    BY <1>1, <2>2 DEF Load, ResolveClaim, RetryGate, Aside, GoOn, Leave
  <2>3. CASE Gate2(w) \/ Claim(w)
    BY <1>1, <2>3 DEF Gate2, Claim, ClaimIfOpen, CommitClaim, Leave
  <2>4. CASE AnswerFailed(w) \/ Resolve1(w)
    BY <1>1, <2>4 DEF AnswerFailed, Resolve1, RecordFailure
  <2> QED BY <1>2, <2>1, <2>2, <2>3, <2>4 DEF WorkerStep, WorkerFault
<1>3. ASSUME NEW w \in Workers, Read(w) \/ Reclaim(w) \/ DeadLetter(w) \/ CacheExpires(w)
      PROVE  FALSE
  <2>1. CASE Read(w) \/ Reclaim(w)
    BY <1>a, <2>1 DEF Read, Reclaim, Goto
  <2>2. CASE DeadLetter(w) \/ CacheExpires(w)
    BY <2>2 DEF DeadLetter, CacheExpires
  <2> QED BY <1>3, <2>1, <2>2
<1>4. CASE Accept \/ Refuse \/ \E w \in Workers : TimeOut(w)
  BY <1>a, <1>4 DEF Accept, Refuse, TimeOut, Answer, Waits
<1>5. CASE \/ LeaseExpires \/ RecoveryStep \/ DispatchAbort \/ Environment
           \/ HookStep \/ HookAbort \/ UNCHANGED vars
           \/ \E n \in Attempts, k \in RunIds : RunEnds(n, k)
  BY <1>5 DEF LeaseExpires, RecoveryStep, DispatchClaim, DispatchRetry, DispatchDial,
              DispatchCommit, DispatchAbort, Rebuild, Enqueue, AttemptAges, Sweep, Environment,
              Pause, Resume, Complete, WindowTurns, KillSwitch, ReleaseStop, Suppress, GuardExpires,
              RedisLoss, RunEnds, HookStep, HookLoad, HookCommit, HookAbort, workerVars, vars
<1> QED BY <1>2, <1>3, <1>4, <1>5 DEF Next, DograhStep

\* Where a worker that goes somewhere is.
LEMMA GoesThere ==
  ASSUME TypeOK, NEW v \in Workers, NEW label, Goto(v, label) PROVE pc'[v] = label
  BY DEF TypeOK, WorkerTypeOK, Goto

\* A worker that puts its job down is idle.
LEMMA GoesIdle == ASSUME TypeOK, NEW v \in Workers, ToIdle(v) PROVE pc'[v] = "idle"
  BY DEF TypeOK, WorkerTypeOK, ToIdle

\* The second lookup is for a retry.
LEMMA LoadsRetry ==
  ASSUME TypeOK, NEW v \in Workers, Load(v), pc'[v] \in {"lookup2", "gate2"}
  PROVE  job[v].n # 1 /\ job' = job
<1>1. \/ Leave(v, TRUE)
      \/ \E label \in {"paused", "closed"} : Aside(v, label)
      \/ \E label \in {"ack", "lookup1", "claim"} : \E kind : GoOn(v, label, kind)
      \/ job[v].n # 1 /\ \E kind : GoOn(v, "lookup2", kind)
  BY DEF Load, ResolveClaim, RetryGate
<1>2. ~Leave(v, TRUE)
  BY GoesIdle DEF Leave
<1>3. ~\E label \in {"paused", "closed"} : Aside(v, label)
  BY GoesThere DEF Aside
<1>4. ~\E label \in {"ack", "lookup1", "claim"} : \E kind : GoOn(v, label, kind)
  BY GoesThere DEF GoOn
<1> QED BY <1>1, <1>2, <1>3, <1>4 DEF GoOn

\* The two steps that lead to the second lookup.
LEMMA SecondLookupBy ==
  ASSUME TypeOK, NEW v \in Workers, WorkerStep(v) \/ WorkerFault(v),
         pc'[v] \in {"lookup2", "gate2"}
  PROVE  Load(v) \/ Lookup2(v)
<1>1. ASSUME NEW label, Goto(v, label), label \notin {"lookup2", "gate2"} PROVE FALSE
  BY <1>1, GoesThere
<1>2. ASSUME ToIdle(v) PROVE FALSE
  BY <1>2, GoesIdle
<1>3. CASE \/ Blocked(v) \/ PutAside(v) \/ Admit(v) \/ NotAdmitted(v) \/ SettlePaused(v)
           \/ SettleWindow(v) \/ Unguard(v) \/ Ack(v) \/ Lookup2Down(v)
           \/ Send(v) \/ AnswerOk(v) \/ EngageHalt(v) \/ AnswerConfig(v) \/ AnswerAmbiguous(v)
           \/ Lookup1(v) \/ Crash(v) \/ Abandon(v) \/ RecoverySwallowed(v)
  BY <1>1, <1>2, <1>3
     DEF Blocked, PutAside, Admit, NotAdmitted, SettlePaused, SettleWindow, Unguard, Ack,
         Lookup2Down, Send, AnswerOk, EngageHalt, AnswerConfig, KeepJob, AnswerAmbiguous, Lookup1,
         Crash, Abandon, RecoverySwallowed, Leave
<1>4. CASE Gate2(v) \/ Claim(v)
  BY <1>1, <1>2, <1>4 DEF Gate2, Claim, ClaimIfOpen, CommitClaim, Leave
<1>5. CASE AnswerFailed(v) \/ Resolve1(v)
  BY <1>1, <1>5 DEF AnswerFailed, Resolve1, RecordFailure
<1> QED BY <1>3, <1>4, <1>5 DEF WorkerStep, WorkerFault

\* No run without a row.
LEMMA CleanStep == ASSUME CountInv, Clean, [Next]_vars PROVE Clean'
<1>1. RunsStay /\ \A n \in Attempts : attempt'[n].state = "none" => attempt[n].state = "none"
  BY RowsStep DEF Claims, SameRows, SameStates
<1> QED BY <1>1 DEF Clean, RunsStay

\* A new retry is not attempt 1.
LEMMA RetryNumber ==
  ASSUME CountInv, contact.no # 1, NEW e, NewRetry(e) PROVE e.kind # "dial" /\ e.n # 1
<1>a. /\ hook.n \in Attempts /\ contact \in ContactRow
      /\ \A w \in Workers : job[w].n \in Attempts
  BY DEF CountInv, FenceInv, TypeOK, OtherTypeOK, WorkerTypeOK, PgTypeOK
<1>b. \A n \in Attempts : n \in Nat /\ n + 1 # 1
  BY DialAssumption DEF Attempts
<1>1. ASSUME Rebuild PROVE RebuiltNumber # 1
  <2>1. CASE contact.no # 0
    BY <2>1 DEF RebuiltNumber
  <2>2. CASE contact.no = 0
    <3>1. Latest # 0 /\ RebuiltNumber = Latest + 1
      BY <1>1, <2>2 DEF Rebuild, RebuiltNumber
    <3>2. Latest \in Attempts \cup {0}
      BY LatestIsCounted
    <3> QED BY <1>b, <3>1, <3>2
  <2> QED BY <2>1, <2>2
<1> QED BY <1>a, <1>b, <1>1 DEF NewRetry

\* Retries and dials are not confused.
LEMMA KindsStep == ASSUME CountInv, Kinds, [Next]_vars PROVE Kinds'
<1>a. /\ TypeOK /\ NoHold /\ hook.n \in Attempts /\ job \in [Workers -> [slot : Slots \cup {0}, n : Attempts, retry : BOOLEAN]]
  BY DEF CountInv, FenceInv, TypeOK, OtherTypeOK, WorkerTypeOK
<1>b. \A n \in Attempts : n + 1 # 1
  BY DialAssumption DEF Attempts
<1>1. contact'.no # 1
  BY <1>a, <1>b, RowsStep DEF Claims, Kinds
<1>2. ASSUME NEW e \in sched' PROVE e.kind = "dial" <=> e.n = 1
  <2>1. CASE e \in sched \/ (disp.pc # "idle" /\ e = disp.e)
    BY <2>1 DEF Kinds
  <2>2. CASE e = [n |-> 1, kind |-> "dial"]
    BY <2>2
  <2>3. ASSUME NEW w \in Workers, job[w].retry, e = [n |-> job[w].n, kind |-> "moved"]
        PROVE  e.kind = "dial" <=> e.n = 1
    BY <2>3 DEF Kinds
  <2>4. CASE NewRetry(e)
    BY <2>4, RetryNumber DEF Kinds
  <2> QED BY <1>a, <2>1, <2>2, <2>3, <2>4, SchedStep
<1>3. disp'.pc # "idle" => (disp'.e.kind = "dial" <=> disp'.e.n = 1)
  BY <1>a, DispStep DEF Kinds, NoDispatch
<1>4. ASSUME NEW s \in Slots PROVE stream'[s].retry => stream'[s].n # 1
  <2>1. CASE Kept(s)
    BY <2>1 DEF Kept, Kinds
  <2>2. CASE Gone(s)
    BY <2>2 DEF Gone, NoMessage
  <2>3. CASE Added(s)
    BY <2>3 DEF Added, Kinds
  <2> QED BY <1>a, <2>1, <2>2, <2>3, StreamStep
<1>5. ASSUME NEW w \in Workers PROVE job'[w].retry => job'[w].n # 1
  <2>1. CASE job'[w] \in {job[w], NoJob, [job[w] EXCEPT !.slot = 0]}
    <3> DEFINE j == [job[w] EXCEPT !.slot = 0]
    <3>1. j.n = job[w].n /\ j.retry = job[w].retry
      BY <1>a
    <3>2. NoJob.retry = FALSE
      BY DEF NoJob
    <3> HIDE DEF j
    <3>3. job'[w] \in {job[w], NoJob, j}
      BY <2>1 DEF j
    <3> QED BY <3>1, <3>2, <3>3 DEF Kinds
  <2>2. ASSUME NEW s \in Slots,
               job'[w] = [slot |-> s, n |-> stream[s].n, retry |-> stream[s].retry]
        PROVE  job'[w].retry => job'[w].n # 1
    BY <2>2 DEF Kinds
  <2> QED BY <1>a, <2>1, <2>2, JobStep
<1>6. ASSUME NEW v \in Workers, pc'[v] \in {"lookup2", "gate2"} PROVE job'[v].n # 1
  <2>1. Hands(v)
    BY <1>a, WorkerHands, OtherHands DEF Next
  <2>2. job'[v].n = job[v].n
    BY <1>6, <2>1 DEF Hands, BeforeClaim
  <2>3. CASE pc[v] = pc'[v]
    BY <1>6, <2>2, <2>3 DEF Kinds
  <2>4. CASE pc[v] # pc'[v]
    <3>1. WorkerStep(v) \/ WorkerFault(v)
      BY <1>a, <1>6, <2>4, EntersBySelf
    <3>2. Load(v) \/ Lookup2(v)
      BY <1>6, <3>1, SecondLookupBy, <1>a
    <3>3. CASE Load(v)
      BY <1>6, <1>a, <3>3, LoadsRetry
    <3>4. CASE Lookup2(v)
      BY <2>2, <3>4 DEF Lookup2, Kinds
    <3> QED BY <3>2, <3>3, <3>4
  <2> QED BY <2>3, <2>4
<1> QED BY <1>1, <1>2, <1>3, <1>4, <1>5, <1>6 DEF Kinds

\* A suppression and the end of a campaign are final.
LEMMA NeverBack ==
  ASSUME TypeOK, [Next]_vars
  PROVE  (suppressed => suppressed') /\ (campaign = "COMPLETED" => campaign' = "COMPLETED")
<1>2. ASSUME NEW w \in Workers,
             \/ Read(w) \/ Reclaim(w) \/ DeadLetter(w)
             \/ WorkerStep(w) \/ WorkerFault(w) \/ CacheExpires(w)
      PROVE  campaign' = campaign /\ suppressed' = suppressed
  BY <1>2 DEF Read, Reclaim, DeadLetter, WorkerStep, WorkerFault, CacheExpires, Blocked, PutAside,
              Admit, NotAdmitted, SettlePaused, SettleWindow, Unguard, Ack, Load, Lookup2,
              Lookup2Down, Gate2, Claim, Send, AnswerOk, EngageHalt, AnswerConfig, AnswerFailed,
              AnswerAmbiguous, Lookup1, Resolve1, RecordFailure, Crash, Abandon, RecoverySwallowed,
              pgVars
<1>3. CASE Pause \/ Resume \/ Complete \/ Suppress
  BY <1>3 DEF Pause, Resume, Complete, Suppress
<1>5. CASE HookCommit
  <2>1. campaign' = campaign /\ \E o : suppressed' = (suppressed \/ o)
    BY <1>5, Zenon DEF HookCommit
  <2> QED BY <2>1
<1>4. CASE \/ LeaseExpires \/ RecoveryStep \/ DispatchAbort
           \/ WindowTurns \/ KillSwitch \/ ReleaseStop \/ GuardExpires \/ RedisLoss
           \/ DograhStep \/ (\E n \in Attempts, k \in RunIds : HookLoad(n, k)) \/ HookAbort
           \/ UNCHANGED vars
  <2>1. campaign' = campaign /\ suppressed' = suppressed
    BY <1>4 DEF LeaseExpires, RecoveryStep, DispatchClaim, DispatchRetry, DispatchDial,
              DispatchCommit, DispatchAbort, Rebuild, Enqueue, AttemptAges, Sweep, WindowTurns,
              KillSwitch, ReleaseStop, GuardExpires, RedisLoss, DograhStep, Accept, Refuse, TimeOut,
              RunEnds, HookLoad, HookAbort, pgVars, vars
  <2> QED BY <2>1
<1> QED BY <1>2, <1>3, <1>4, <1>5 DEF Next, Environment, HookStep

\* Where an entry leaves the stream, nobody has it in hand.
LEMMA GoneFromHands ==
  ASSUME TypeOK, NEW s \in Slots, Gone(s), NEW v \in Workers
  PROVE  job'[v].slot # s
<1>a. s # 0 /\ job \in [Workers -> [slot : Slots \cup {0}, n : Attempts, retry : BOOLEAN]]
  BY DialAssumption DEF Slots, TypeOK, WorkerTypeOK
<1>1. CASE RedisLoss
  BY <1>a, <1>1 DEF RedisLoss
<1>2. ASSUME NEW w \in Workers, job' = Forget(w, s) PROVE job'[v].slot # s
  BY <1>a, <1>2 DEF Forget, NoJob
<1> QED BY <1>1, <1>2 DEF Gone

\* What a worker has in hand stays as it is in the stream.
LEMMA AgreeStep == ASSUME TypeOK, Agree, [Next]_vars PROVE Agree'
<1> SUFFICES ASSUME NEW v \in Workers, job'[v].slot # 0
             PROVE  /\ stream'[job'[v].slot].st # "empty"
                    /\ stream'[job'[v].slot].n = job'[v].n
  BY DEF Agree
<1>a. job[v] \in [slot : Slots \cup {0}, n : Attempts, retry : BOOLEAN]
  BY DEF TypeOK, WorkerTypeOK
<1>1. PICK s \in Slots : /\ job'[v].slot = s /\ stream[s].st # "empty"
                         /\ stream[s].n = job'[v].n
  <2>1. CASE job'[v] = job[v]
    BY <1>a, <2>1 DEF Agree
  <2>2. job'[v] # NoJob /\ job'[v] # [job[v] EXCEPT !.slot = 0]
    BY <1>a DEF NoJob
  <2>3. ASSUME NEW s \in Slots, stream[s].st # "empty",
               job'[v] = [slot |-> s, n |-> stream[s].n, retry |-> stream[s].retry]
        PROVE  job'[v].slot = s /\ stream[s].n = job'[v].n
    BY <2>3
  <2> QED BY <2>1, <2>2, <2>3, JobStep
<1>2. Kept(s)
  BY <1>1, StreamStep, GoneFromHands DEF Added
<1> QED BY <1>1, <1>2 DEF Kept

\* A contact that owes its first dial owed it before, and has no attempt.
LEMMA OwedStep ==
  ASSUME CountInv, [Next]_vars, Owed' PROVE Owed /\ \A n \in Attempts : ~Exists(n)
<1>1. contact'.status = "PENDING" /\ contact'.count = 0 /\ ~suppressed' /\ campaign' # "COMPLETED"
  BY DEF Owed, Unattempted
<1>2. SameRows
  <2>1. ASSUME NEW w \in Workers, Claims(w) PROVE FALSE
    <3>1. contact'.count = job[w].n /\ job[w].n \in Attempts
      BY <2>1 DEF Claims, CountInv, FenceInv, TypeOK, WorkerTypeOK
    <3> QED BY <1>1, <3>1, DialAssumption DEF Attempts
  <2> QED BY <2>1, RowsStep
<1>3. contact.status = "PENDING" /\ contact.count = 0
  BY <1>1, <1>2 DEF SameRows
<1>4. ~suppressed /\ campaign # "COMPLETED"
  BY <1>1, NeverBack DEF CountInv, FenceInv
<1>5. \A n \in Attempts : ~Exists(n)
  BY <1>3, DialAssumption DEF CountInv, Counted, Attempts
<1> QED BY <1>3, <1>4, <1>5 DEF Owed, Unattempted

\* A guard that is set comes with an entry in a place that was free.
LEMMA GuardIsSet ==
  ASSUME TypeOK, [Next]_vars, 1 \in guard', 1 \notin guard
  PROVE  /\ UNCHANGED <<pc, job>>
         /\ \E s \in Slots : /\ stream[s].st = "empty"
                             /\ stream'[s].st # "empty" /\ stream'[s].n = 1
<1>a. stream \in [Slots -> Message]
  BY DEF TypeOK, RedisTypeOK
<1>1. ASSUME NEW n, NEW retry, EnqueueOnce(n, retry)
      PROVE  \E s \in Slots : /\ stream[s].st = "empty"
                              /\ stream'[s].st # "empty" /\ stream'[s].n = 1
  <2> DEFINE t == CHOOSE t \in FreeSlots : \A u \in FreeSlots : t <= u
             msg == [st |-> "new", n |-> n, retry |-> retry, del |-> 0]
  <2>1. /\ FreeSlots # {} /\ stream' = [stream EXCEPT ![t] = msg]
        /\ guard' = guard \cup {n}
    BY <1>1 DEF EnqueueOnce
  <2>2. t \in Slots /\ stream[t].st = "empty"
    <3>1. t \in FreeSlots
      BY <2>1, FirstFree
    <3> HIDE DEF t
    <3> QED BY <3>1 DEF FreeSlots
  <2>3. n = 1
    BY <2>1
  <2>4. msg.n = 1 /\ msg.st = "new"
    BY <2>3
  <2> HIDE DEF t, msg
  <2> QED BY <1>a, <2>1, <2>2, <2>4
<1>2. CASE DispatchRetry \/ DispatchDial \/ Enqueue \/ Resume
  <2>1. UNCHANGED <<pc, job>>
    BY <1>2 DEF DispatchRetry, DispatchDial, Enqueue, Resume, workerVars
  <2>2. \E n, retry : EnqueueOnce(n, retry)
    BY <1>2 DEF DispatchRetry, DispatchDial, Enqueue, Resume, EnqueueScan
  <2> QED BY <1>1, <2>1, <2>2
<1>3. CASE guard' \subseteq guard
  BY <1>3
<1>4. ASSUME NEW w \in Workers,
             \/ Read(w) \/ Reclaim(w) \/ DeadLetter(w)
             \/ WorkerStep(w) \/ WorkerFault(w) \/ CacheExpires(w)
      PROVE  guard' \subseteq guard
  <2>1. guard' = guard \/ guard' = guard \ {job[w].n}
    BY <1>4 DEF Read, Reclaim, DeadLetter, WorkerStep, WorkerFault, CacheExpires, Blocked, PutAside,
              Admit, NotAdmitted, SettlePaused, SettleWindow, Unguard, Ack, Load, Lookup2,
              Lookup2Down, Gate2, Claim, Send, AnswerOk, EngageHalt, AnswerConfig, AnswerFailed,
              AnswerAmbiguous, Lookup1, Resolve1, RecordFailure, Crash, Abandon, RecoverySwallowed,
              redisVars
  <2> QED BY <2>1
<1>5. CASE GuardExpires \/ RedisLoss
  <2>1. guard' = {} \/ \E n \in guard : guard' = guard \ {n}
    BY <1>5 DEF GuardExpires, RedisLoss
  <2> QED BY <1>3, <2>1
<1>6. CASE \/ LeaseExpires \/ DispatchClaim \/ DispatchCommit \/ DispatchAbort \/ Rebuild
           \/ \E n \in Attempts : AttemptAges(n) \/ Sweep(n)
           \/ Pause \/ Complete \/ WindowTurns \/ KillSwitch \/ ReleaseStop \/ Suppress
           \/ DograhStep \/ HookStep \/ HookAbort \/ UNCHANGED vars
  <2>1. guard' = guard
    BY <1>6 DEF LeaseExpires, DispatchClaim, DispatchCommit, DispatchAbort, Rebuild, AttemptAges,
                Sweep, Pause, Complete, WindowTurns, KillSwitch, ReleaseStop, Suppress,
                DograhStep, Accept, Refuse, TimeOut, RunEnds, HookStep, HookLoad,
                HookCommit, HookAbort, redisVars, vars
  <2> QED BY <1>3, <2>1
<1> QED BY <1>2, <1>3, <1>4, <1>5, <1>6 DEF Next, RecoveryStep, Environment

\* While the first dial is owed and the guard stays, no worker that has it in
\* hand comes to its acknowledgement.
LEMMA NoAckWhileOwed ==
  ASSUME CountInv, Clean, Kinds, Owed, Owed', \A n \in Attempts : ~Exists(n), 1 \in guard',
         NEW v \in Workers, job[v].n = 1, WorkerStep(v) \/ WorkerFault(v), pc'[v] = "ack"
  PROVE  FALSE
<1>a. TypeOK /\ 1 \in Attempts /\ pc[v] \notin AfterClaim
  BY DialAssumption DEF CountInv, FenceInv, InHand, Attempts
<1>b. attempt[1].state = "none" /\ attempt[1].run = 0
  BY <1>a DEF Exists, Clean
<1>c. ~job[v].retry /\ pc[v] \notin {"lookup2", "gate2"}
  BY DEF Kinds
<1>d. Rebuildable(v)
  BY <1>c DEF Rebuildable, Owed
<1>1. ASSUME NEW label, Goto(v, label), label # "ack" PROVE FALSE
  BY <1>a, <1>1, GoesThere
<1>2. ASSUME ToIdle(v) PROVE FALSE
  BY <1>a, <1>2, GoesIdle
<1>3. CASE \/ Blocked(v) \/ PutAside(v) \/ Admit(v) \/ NotAdmitted(v) \/ Ack(v) \/ Crash(v)
           \/ Abandon(v) \/ Lookup2(v)
  BY <1>1, <1>2, <1>3 DEF Blocked, PutAside, Admit, NotAdmitted, Ack, Crash, Abandon, Lookup2, Leave
<1>4. CASE SettlePaused(v) \/ Unguard(v)
  <2>1. guard' = guard \ {1}
    BY <1>4, <1>d DEF SettlePaused, Unguard
  <2> QED BY <2>1
<1>5. CASE SettleWindow(v)
  BY <1>1, <1>5, <1>d DEF SettleWindow
<1>6. CASE Load(v)
  <2>1. Eligible \/ campaign = "PAUSED"
    <3>1. campaign \in {"ACTIVE", "PAUSED"}
      BY <1>a DEF TypeOK, PgTypeOK, Owed
    <3> QED BY <3>1 DEF Eligible, Owed, Unattempted
  <2>2. \/ Aside(v, "paused") \/ Aside(v, "closed")
        \/ \E kind : GoOn(v, "claim", kind)
    BY <1>6, <1>b, <2>1 DEF Load, RetryGate, Held
  <2> QED BY <1>1, <2>2 DEF Aside, GoOn
<1>7. CASE Lookup2Down(v) \/ Gate2(v)
  BY <1>7, <1>c DEF Lookup2Down, Gate2
<1>8. CASE Claim(v)
  <2>1. ~Taken(attempt, job[v].n)
    BY <1>b DEF Taken
  <2> QED BY <1>1, <1>2, <1>8, <2>1 DEF Claim, ClaimIfOpen, CommitClaim, Leave
<1>9. CASE \/ Send(v) \/ AnswerOk(v) \/ EngageHalt(v) \/ AnswerConfig(v) \/ AnswerFailed(v)
           \/ AnswerAmbiguous(v) \/ Lookup1(v) \/ Resolve1(v) \/ RecoverySwallowed(v)
  <2>1. pc[v] \in AfterClaim
    BY <1>9 DEF Send, AnswerOk, EngageHalt, AnswerConfig, AnswerFailed, AnswerAmbiguous, Lookup1,
                Resolve1, RecoverySwallowed, AfterClaim
  <2>2. Exists(1)
    BY <2>1 DEF CountInv, InHand
  <2> QED BY <1>a, <2>2
<1> QED BY <1>3, <1>4, <1>5, <1>6, <1>7, <1>8, <1>9 DEF WorkerStep, WorkerFault

\* The guard keeps its entry.
LEMMA SureStep ==
  ASSUME "unparked" \notin Env, GuardInv, [Next]_vars PROVE Sure'
<1> SUFFICES ASSUME 1 \in guard', Owed'
             PROVE  \E s \in Slots : /\ stream'[s].st # "empty" /\ stream'[s].n = 1
                                     /\ \A w \in Workers : pc'[w] = "ack" => job'[w].slot # s
  BY DEF Sure, Owed, Unattempted
<1>a. TypeOK /\ CountInv /\ Clean /\ Kinds /\ Agree /\ Sure
  BY DEF GuardInv, CountInv, FenceInv
<1>b. Owed /\ \A n \in Attempts : ~Exists(n)
  BY <1>a, OwedStep
<1>1. CASE 1 \in guard
  <2>1. PICK s \in Slots : /\ stream[s].st # "empty" /\ stream[s].n = 1
                           /\ \A w \in Workers : pc[w] = "ack" => job[w].slot # s
    BY <1>a, <1>b, <1>1 DEF Sure
  <2>0. s # 0
    BY DialAssumption DEF Slots
  <2>2. ~Gone(s)
    <3>1. ASSUME RedisLoss PROVE FALSE
      BY <3>1 DEF RedisLoss
    <3>2. ASSUME NEW w \in Workers, DeadLetter(w) PROVE FALSE
      <4>1. contact' = Parked(contact)
        BY <3>2 DEF DeadLetter, May
      <4>2. contact.status = "PENDING" /\ contact \in ContactRow
        BY <1>a, <1>b DEF Owed, Unattempted, TypeOK, PgTypeOK
      <4>3. contact'.status = "NEEDS_REVIEW"
        BY <4>1, <4>2 DEF Parked, ContactRow
      <4> QED BY <4>3 DEF Owed, Unattempted
    <3>3. ASSUME NEW w \in Workers, Ack(w), job[w].slot = s PROVE FALSE
      BY <2>1, <3>3 DEF Ack
    <3> QED BY <3>1, <3>2, <3>3 DEF Gone
  <2>3. Kept(s)
    BY <1>a, <2>1, <2>2, StreamStep DEF Added
  <2>4. ASSUME NEW v \in Workers, pc'[v] = "ack", job'[v].slot = s PROVE FALSE
    <3>1. job'[v] = job[v]
      <4>1. job[v] \in [slot : Slots \cup {0}, n : Attempts, retry : BOOLEAN]
        BY <1>a DEF TypeOK, WorkerTypeOK
      <4>2. job'[v] # NoJob /\ job'[v] # [job[v] EXCEPT !.slot = 0]
        BY <2>0, <2>4, <4>1 DEF NoJob
      <4> QED BY <1>a, <2>4, <4>2, JobStep
    <3>2. job[v].n = 1
      BY <1>a, <2>0, <2>1, <2>4, <3>1 DEF Agree
    <3>3. pc[v] # "ack"
      BY <2>1, <2>4, <3>1
    <3>4. WorkerStep(v) \/ WorkerFault(v)
      BY <1>a, <2>4, <3>3, EntersBySelf
    <3> QED BY <1>a, <1>b, <2>4, <3>2, <3>4, NoAckWhileOwed
  <2> QED BY <2>1, <2>3, <2>4 DEF Kept
<1>2. CASE 1 \notin guard
  <2>1. PICK s \in Slots : /\ stream[s].st = "empty"
                           /\ stream'[s].st # "empty" /\ stream'[s].n = 1
    BY <1>a, <1>2, GuardIsSet
  <2>2. UNCHANGED <<pc, job>>
    BY <1>a, <1>2, GuardIsSet
  <2>3. \A w \in Workers : job[w].slot # s
    BY <1>a, <2>1, DialAssumption DEF Agree, Slots
  <2> QED BY <2>1, <2>2, <2>3
<1> QED BY <1>1, <1>2

\* While Dograh refuses no configuration and a dial that is given up is parked
\* for a person, the enqueue guard refuses a first dial only while that dial is
\* in the stream: a lost Redis, crashes, jobs taken twice, pauses, closed
\* windows and expired guards do not strand the contact.
THEOREM GuardHoldsAJob ==
  ASSUME "config" \notin Env, "unparked" \notin Env PROVE Spec => []GuardHasJob
<1>1. ASSUME Init PROVE GuardInv
  <2>1. CountInv
    BY <1>1, InitFence, CountInit
  <2>2. Clean
    BY <1>1 DEF Init, Clean, NoRow
  <2>3. Kinds
    BY <1>1 DEF Init, Kinds, NewContact, NoDispatch, NoMessage, NoJob
  <2>4. Agree /\ Sure
    BY <1>1 DEF Init, Agree, Sure, NoJob
  <2> QED BY <2>1, <2>2, <2>3, <2>4 DEF GuardInv
<1>2. ASSUME GuardInv, [Next]_vars PROVE GuardInv'
  <2>1. CountInv /\ TypeOK
    BY <1>2 DEF GuardInv, CountInv, FenceInv
  <2>2. CountInv'
    BY <1>2, <2>1, CountStep
  <2>3. Clean' /\ Kinds' /\ Agree'
    BY <1>2, <2>1, CleanStep, KindsStep, AgreeStep DEF GuardInv
  <2>4. Sure'
    BY <1>2, SureStep
  <2> QED BY <2>2, <2>3, <2>4 DEF GuardInv
<1>3. ASSUME GuardInv PROVE GuardHasJob
  BY <1>3 DEF GuardInv, Sure, Owed, GuardHasJob
<1> QED BY <1>1, <1>2, <1>3, PTL DEF Spec
=============================================================================
