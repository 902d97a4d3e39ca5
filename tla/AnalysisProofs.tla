---------------------------- MODULE AnalysisProofs ----------------------------
(***************************************************************************)
(* The analysis pipeline for any number of analyses, workers, attempts,    *)
(* days and faults and any cap: the fence, the request bound and the daily *)
(* ledger.                                                                 *)
(*                                                                         *)
(* The invariant has four parts, each proved from the type invariant and   *)
(* the parts before it: what every row says about its claims, that the     *)
(* ledger is what the rows hold, and that every request was paid by a claim*)
(***************************************************************************)
EXTENDS AnalysisPipeline, FiniteSetTheorems, TLAPS

\* A row in progress names its latest claim and has spent an attempt on it; a
\* claim is an attempt spent or given back; a reservation has a day.
RowGood(r, claimed, refunded) ==
  /\ r.status = "none" => r.tries = 0 /\ r.cost = "null"
  /\ r.status = "PROCESSING" => r.token = claimed /\ r.tries >= 1
  /\ claimed = r.tries + refunded
  /\ r.cost = "held" => r.day \in Days

RowsGood == \A a \in Analyses : RowGood(row[a], claims[a], refunds[a])

LedgerGood ==
  \A d \in Days : ledger[d] = Cardinality(HeldOn(d)) /\ ledger[d] <= Cap

\* Workers that claimed the analysis and have not asked the provider yet.
Working(a) ==
  {w \in Workers : mine[w].a = a /\ pc[w] \in {"load", "renew", "analyze"}}

RequestsCovered ==
  \A a \in Analyses : requests[a] + Cardinality(Working(a)) <= claims[a]

-----------------------------------------------------------------------------
(* Operators *)

JobRecord ==
  [slot : Slots \cup {0}, a : Analyses, token : Nat, tries : 0..MaxAttempts,
   kind : Kinds]

PCs == {"idle", "claim", "unclaimed", "load", "renew", "analyze", "persist",
        "ack"}

\* The empty job, the empty stream entry and the empty row have their types.
LEMMA Empty ==
  /\ SomeAnalysis \in Analyses
  /\ \A a \in Analyses : NoJob(a) \in JobRecord
  /\ \A a \in Analyses : NoEntry(a) \in [st : {"empty", "new", "pending"}, a : Analyses]
  /\ NoRow \in Row
<1>1. SomeAnalysis \in Analyses
  BY AnalysisAssumption DEF SomeAnalysis
<1>2. \A a \in Analyses : NoJob(a) \in JobRecord
  BY AnalysisAssumption DEF NoJob, JobRecord, Kinds
<1>3. \A a \in Analyses : NoEntry(a) \in [st : {"empty", "new", "pending"}, a : Analyses]
  BY DEF NoEntry
<1>4. NoRow \in Row
  BY AnalysisAssumption DEF NoRow, Row
<1> QED BY <1>1, <1>2, <1>3, <1>4

\* Publishing an analysis keeps the stream's type.
LEMMA PublishedType ==
  ASSUME AnalysisTypeOK, NEW a \in Analyses
  PROVE  Published(a) \in [Slots -> [st : {"empty", "new", "pending"}, a : Analyses]]
<1> DEFINE s == CHOOSE s \in FreeSlots : \A t \in FreeSlots : s <= t
           entry == [st |-> "new", a |-> a]
<1>1. entry \in [st : {"empty", "new", "pending"}, a : Analyses]
  OBVIOUS
<1>2. Published(a) = IF FreeSlots = {} THEN stream ELSE [stream EXCEPT ![s] = entry]
  BY DEF Published
<1> HIDE DEF s, entry
<1> QED BY <1>1, <1>2 DEF AnalysisTypeOK

\* Closing a row.
LEMMA ClosedType ==
  ASSUME NEW r \in Row, NEW st \in Unfinished \cup Finished
  PROVE  /\ Closed(r, st) \in Row /\ Closed(r, st).status = st
         /\ Closed(r, st).tries = r.tries
         /\ Closed(r, st).cost = r.cost /\ Closed(r, st).day = r.day
  BY DEF Closed, Row, Unfinished, Finished

\* What an attempt comes to is a status, and only a retry is given back.
LEMMA VerdictType ==
  ASSUME NEW w
  PROVE  /\ Verdict(w) \in Finished \cup {"RETRY_WAIT"}
         /\ Refunded(w) => Verdict(w) = "RETRY_WAIT"
  BY DEF Verdict, Refunded, Finished

\* The row an outcome leaves behind.
LEMMA WrittenRow ==
  ASSUME NEW r \in Row, NEW v \in Finished \cup {"RETRY_WAIT"},
         NEW refund \in BOOLEAN, r.tries >= 1, refund => v = "RETRY_WAIT"
  PROVE  /\ Written(r, v, refund) \in Row
         /\ Written(r, v, refund).status = v
         /\ Written(r, v, refund).tries = IF refund THEN r.tries - 1 ELSE r.tries
         /\ Written(r, v, refund).day = r.day
         /\ Written(r, v, refund).cost =
              IF v = "SKIPPED" /\ r.cost = "held" THEN "zero" ELSE r.cost
<1> DEFINE c == Closed(r, v)
<1>1. /\ c \in Row /\ c.status = v /\ c.tries = r.tries
      /\ c.cost = r.cost /\ c.day = r.day
  BY ClosedType DEF Unfinished, Finished
<1>2. CASE v = "RETRY_WAIT"
  <2> DEFINE k == IF refund THEN c.tries - 1 ELSE c.tries
  <2>1. Written(r, v, refund) = [c EXCEPT !.due = FALSE, !.pub = "old", !.tries = k]
    BY <1>2 DEF Written
  <2>2. k \in 0..MaxAttempts /\ k = IF refund THEN r.tries - 1 ELSE r.tries
    BY <1>1, AnalysisAssumption DEF Row
  <2> HIDE DEF c, k
  <2>3. Written(r, v, refund) \in Row
    BY <1>1, <2>1, <2>2 DEF Row
  <2>4. /\ Written(r, v, refund).status = v /\ Written(r, v, refund).tries = k
        /\ Written(r, v, refund).day = r.day /\ Written(r, v, refund).cost = r.cost
    BY <1>1, <2>1 DEF Row
  <2> QED BY <1>2, <2>2, <2>3, <2>4
<1>3. CASE v = "SKIPPED"
  <2>1. Written(r, v, refund) =
          [c EXCEPT !.cost = IF @ = "held" THEN "zero" ELSE @]
    BY <1>3 DEF Written
  <2> HIDE DEF c
  <2> QED BY <1>1, <1>3, <2>1 DEF Row
<1>4. CASE v \in {"COMPLETED", "FAILED"}
  <2>1. Written(r, v, refund) = c
    BY <1>4 DEF Written
  <2> HIDE DEF c
  <2> QED BY <1>1, <1>4, <2>1
<1> QED BY <1>2, <1>3, <1>4 DEF Finished

-----------------------------------------------------------------------------
(* What several actions have in common *)

\* The ledger fits as long as no row's reservation changes.
LEMMA LedgerKept ==
  ASSUME LedgerGood, ledger' = ledger,
         \A a \in Analyses : /\ row'[a].cost = row[a].cost
                             /\ row[a].cost = "held" => row'[a].day = row[a].day
  PROVE  LedgerGood'
<1>1. \A d : HeldOn(d)' = HeldOn(d)
  BY DEF HeldOn
<1> QED BY <1>1 DEF LedgerGood

\* Requests stay covered while nobody asks and nobody starts to work.
LEMMA RequestsKept ==
  ASSUME AnalysisTypeOK, RequestsCovered, requests' = requests, claims' = claims,
         \A a \in Analyses : Working(a)' \subseteq Working(a)
  PROVE  RequestsCovered'
<1> SUFFICES ASSUME NEW a \in Analyses
             PROVE  requests'[a] + Cardinality(Working(a)') <= claims'[a]
  BY DEF RequestsCovered
<1>1. IsFiniteSet(Working(a))
  BY AnalysisAssumption, FS_Subset DEF Working
<1>2. /\ Cardinality(Working(a)') \in Nat /\ Cardinality(Working(a)) \in Nat
      /\ Cardinality(Working(a)') <= Cardinality(Working(a))
  BY <1>1, FS_Subset, FS_CardinalityType
<1>3. requests[a] + Cardinality(Working(a)) <= claims[a]
  BY DEF RequestsCovered
<1>4. requests[a] \in Nat /\ claims[a] \in Nat
  BY DEF AnalysisTypeOK
<1> QED BY <1>2, <1>3, <1>4

\* A step that writes one row without touching attempts, reservation or owner.
LEMMA RowStep ==
  ASSUME AnalysisTypeOK, RowsGood, LedgerGood,
         NEW a \in Analyses, NEW r \in Row, row' = [row EXCEPT ![a] = r],
         UNCHANGED <<ledger, claims, refunds>>,
         r.tries = row[a].tries, r.cost = row[a].cost,
         r.cost = "held" => r.day = row[a].day,
         r.status = "none" => row[a].status = "none",
         r.status = "PROCESSING" =>
           row[a].status = "PROCESSING" /\ r.token = row[a].token
  PROVE  row' \in [Analyses -> Row] /\ RowsGood' /\ LedgerGood'
<1>1. row' \in [Analyses -> Row]
  BY DEF AnalysisTypeOK
<1>2. \A b \in Analyses : row'[b] = IF b = a THEN r ELSE row[b]
  BY DEF AnalysisTypeOK
<1>3. RowsGood'
  <2> SUFFICES ASSUME NEW b \in Analyses
               PROVE  RowGood(row'[b], claims'[b], refunds'[b])
    BY DEF RowsGood
  <2>1. RowGood(row[b], claims[b], refunds[b])
    BY DEF RowsGood
  <2> QED BY <1>2, <2>1 DEF RowGood
<1>4. LedgerGood'
  BY <1>2, LedgerKept
<1> QED BY <1>1, <1>3, <1>4

\* A step that leaves the rows alone.
LEMMA RowsKept ==
  ASSUME RowsGood, LedgerGood, UNCHANGED <<row, ledger, claims, refunds>>
  PROVE  RowsGood' /\ LedgerGood'
<1>1. RowsGood'
  BY DEF RowsGood, RowGood
<1>2. LedgerGood'
  BY LedgerKept
<1> QED BY <1>1, <1>2

-----------------------------------------------------------------------------
(* The inductive invariant, action by action *)

\* The type, the rows, the ledger and the requests.
IInv == AnalysisTypeOK /\ RowsGood /\ LedgerGood /\ RequestsCovered

\* The empty database satisfies the invariant.
LEMMA InitGood == AnalysisInit => IInv
<1> SUFFICES ASSUME AnalysisInit PROVE IInv
  OBVIOUS
<1>1. AnalysisTypeOK
  <2>1. mine \in [Workers -> JobRecord]
    BY Empty DEF AnalysisInit
  <2>2. stream \in [Slots -> [st : {"empty", "new", "pending"}, a : Analyses]]
    BY Empty DEF AnalysisInit
  <2>3. row \in [Analyses -> Row]
    BY Empty DEF AnalysisInit
  <2>4. today \in Days /\ faults \in 0..MaxFaults
    BY AnalysisAssumption DEF AnalysisInit, Days
  <2> QED BY <2>1, <2>2, <2>3, <2>4 DEF AnalysisInit, AnalysisTypeOK, JobRecord
<1>2. RowsGood
  BY DEF AnalysisInit, RowsGood, RowGood, NoRow
<1>3. LedgerGood
  <2>1. \A d \in Days : HeldOn(d) = {}
    BY DEF AnalysisInit, HeldOn, NoRow
  <2> QED BY <2>1, FS_EmptySet, AnalysisAssumption DEF AnalysisInit, LedgerGood
<1>4. RequestsCovered
  <2>1. \A a \in Analyses : Working(a) = {}
    BY DEF AnalysisInit, Working
  <2> QED BY <2>1, FS_EmptySet DEF AnalysisInit, RequestsCovered
<1> QED BY <1>1, <1>2, <1>3, <1>4 DEF IInv

\* A step of the sweeper, of the call's own transaction or of a clock that
\* writes one row, by the conditions of RowStep, and no worker.
LEMMA OutsideStep ==
  ASSUME IInv, NEW a \in Analyses, NEW r \in Row, row' = [row EXCEPT ![a] = r],
         UNCHANGED <<ledger, clock, pc, mine, history>>,
         faults' \in 0..MaxFaults,
         stream' \in [Slots -> [st : {"empty", "new", "pending"}, a : Analyses]],
         r.tries = row[a].tries, r.cost = row[a].cost,
         r.cost = "held" => r.day = row[a].day,
         r.status = "none" => row[a].status = "none",
         r.status = "PROCESSING" =>
           row[a].status = "PROCESSING" /\ r.token = row[a].token
  PROVE  IInv'
<1>1. row' \in [Analyses -> Row] /\ RowsGood' /\ LedgerGood'
  BY RowStep DEF IInv, history
<1>2. RequestsCovered'
  BY RequestsKept DEF IInv, history, Working
<1>3. AnalysisTypeOK'
  BY <1>1 DEF IInv, AnalysisTypeOK, history, clock
<1> QED BY <1>1, <1>2, <1>3 DEF IInv

\* A step that leaves all rows, the ledger and the workers' jobs alone.
LEMMA IdleStep ==
  ASSUME IInv, UNCHANGED <<row, ledger, history>>, AnalysisTypeOK',
         \A a \in Analyses : Working(a)' \subseteq Working(a)
  PROVE  IInv'
<1>1. RowsGood' /\ LedgerGood'
  BY RowsKept DEF IInv, history
<1>2. RequestsCovered'
  BY RequestsKept DEF IInv, history
<1> QED BY <1>1, <1>2 DEF IInv

\* A fault leaves the counter within its bound.
LEMMA FaultType ==
  ASSUME IInv, Fault
  PROVE  faults' \in 0..MaxFaults
  BY AnalysisAssumption DEF Fault, IInv, AnalysisTypeOK

\* Registration by the call and by the sweeper.
LEMMA RegisterGood ==
  ASSUME IInv, NEW a \in Analyses, Register(a) \/ SweepRegister(a)
  PROVE  IInv'
<1>1. row[a].tries = 0 /\ row[a].cost = "null"
  BY DEF Register, SweepRegister, IInv, RowsGood, RowGood
<1>2. CASE Register(a)
  <2> DEFINE r == [NoRow EXCEPT !.status = "PENDING", !.due = ~InitialDelay,
                             !.pub = IF InitialDelay THEN "old" ELSE "recent"]
  <2>1. r \in Row
    <3> DEFINE p == IF InitialDelay THEN "old" ELSE "recent"
               due == ~InitialDelay
    <3>1. due \in BOOLEAN /\ p \in {"never", "recent", "old"}
      OBVIOUS
    <3>2. r = [NoRow EXCEPT !.status = "PENDING", !.due = due, !.pub = p]
      OBVIOUS
    <3> HIDE DEF due, p, r
    <3> QED BY <3>1, <3>2, Empty DEF Row, Unfinished
  <2>2. /\ row' = [row EXCEPT ![a] = r]
        /\ r.tries = 0 /\ r.cost = "null" /\ r.status = "PENDING"
    BY <1>2 DEF Register, NoRow
  <2>3. stream' \in [Slots -> [st : {"empty", "new", "pending"}, a : Analyses]]
    BY <1>2, PublishedType DEF Register, IInv, AnalysisTypeOK
  <2>4. faults' \in 0..MaxFaults
    BY <1>2, FaultType DEF Register, IInv, AnalysisTypeOK
  <2>5. UNCHANGED <<ledger, clock, pc, mine, history>>
    BY <1>2 DEF Register
  <2> HIDE DEF r
  <2> QED BY <1>1, <2>1, <2>2, <2>3, <2>4, <2>5, OutsideStep
<1>3. CASE SweepRegister(a)
  <2> DEFINE r == [NoRow EXCEPT !.status = "PENDING"]
  <2>1. r \in Row
    BY Empty DEF Row, Unfinished
  <2>2. /\ row' = [row EXCEPT ![a] = r] /\ UNCHANGED <<ledger, clock, pc, mine, history>>
        /\ r.tries = 0 /\ r.cost = "null" /\ r.status = "PENDING"
    BY <1>3 DEF SweepRegister, NoRow
  <2>3. /\ stream' \in [Slots -> [st : {"empty", "new", "pending"}, a : Analyses]]
        /\ faults' \in 0..MaxFaults
    BY <1>3 DEF SweepRegister, IInv, AnalysisTypeOK
  <2> HIDE DEF r
  <2> QED BY <1>1, <2>1, <2>2, <2>3, OutsideStep
<1> QED BY <1>2, <1>3

\* The sweeper publishes and finalises.
LEMMA SweepGood ==
  ASSUME IInv, NEW a \in Analyses, SweepPublish(a) \/ SweepFinalize(a)
  PROVE  IInv'
<1>0. row[a] \in Row
  BY DEF IInv, AnalysisTypeOK
<1>1. CASE SweepPublish(a)
  <2> DEFINE r == [row[a] EXCEPT !.pub = "recent"]
  <2>1. /\ r \in Row /\ r.tries = row[a].tries /\ r.cost = row[a].cost
        /\ r.day = row[a].day /\ r.status = row[a].status /\ r.token = row[a].token
    BY <1>0 DEF Row
  <2>2. /\ stream' \in [Slots -> [st : {"empty", "new", "pending"}, a : Analyses]]
        /\ UNCHANGED <<ledger, clock, pc, mine, history>>
    BY <1>1, PublishedType DEF SweepPublish, IInv
  <2>3. faults' \in 0..MaxFaults
    BY <1>1, FaultType DEF SweepPublish, IInv, AnalysisTypeOK
  <2>4. row' = [row EXCEPT ![a] = r] \/ row' = row
    BY <1>1 DEF SweepPublish
  <2> HIDE DEF r
  <2>5. CASE row' = [row EXCEPT ![a] = r]
    BY <2>1, <2>2, <2>3, <2>5, OutsideStep
  <2>6. CASE row' = row
    <3>1. row' = [row EXCEPT ![a] = row[a]]
      BY <2>6 DEF IInv, AnalysisTypeOK
    <3> QED BY <1>0, <2>2, <2>3, <3>1, OutsideStep
  <2> QED BY <2>4, <2>5, <2>6
<1>2. CASE SweepFinalize(a)
  <2> DEFINE r == Closed(row[a], "FAILED")
  <2>1. /\ r \in Row /\ r.tries = row[a].tries /\ r.cost = row[a].cost
        /\ r.day = row[a].day /\ r.status = "FAILED"
    BY <1>0, ClosedType DEF Finished
  <2>2. /\ row' = [row EXCEPT ![a] = r]
        /\ UNCHANGED <<ledger, clock, stream, pc, mine, history, faults>>
    BY <1>2 DEF SweepFinalize
  <2>3. /\ stream' \in [Slots -> [st : {"empty", "new", "pending"}, a : Analyses]]
        /\ faults' \in 0..MaxFaults
    BY <2>2 DEF IInv, AnalysisTypeOK
  <2> HIDE DEF r
  <2> QED BY <2>1, <2>2, <2>3, OutsideStep
<1> QED BY <1>1, <1>2

\* The clocks.
LEMMA TimeGood ==
  ASSUME IInv, NEW a \in Analyses, Time(a) \/ NewDay
  PROVE  IInv'
<1>0. row[a] \in Row
  BY DEF IInv, AnalysisTypeOK
<1>1. CASE LeaseRunsOut(a) \/ BecomesDue(a) \/ PublicationAges(a)
  <2>1. PICK r \in {[row[a] EXCEPT !.lease = "over"], [row[a] EXCEPT !.due = TRUE],
                    [row[a] EXCEPT !.pub = "old"]} : row' = [row EXCEPT ![a] = r]
    BY <1>1 DEF LeaseRunsOut, BecomesDue, PublicationAges
  <2>2. /\ r \in Row /\ r.tries = row[a].tries /\ r.cost = row[a].cost
        /\ r.day = row[a].day /\ r.status = row[a].status /\ r.token = row[a].token
    BY <1>0, <2>1 DEF Row
  <2>3. UNCHANGED <<ledger, clock, stream, pc, mine, history, faults>>
    BY <1>1 DEF LeaseRunsOut, BecomesDue, PublicationAges
  <2>4. /\ stream' \in [Slots -> [st : {"empty", "new", "pending"}, a : Analyses]]
        /\ faults' \in 0..MaxFaults
    BY <2>3 DEF IInv, AnalysisTypeOK
  <2> QED BY <2>1, <2>2, <2>3, <2>4, OutsideStep
<1>2. CASE DeadlinePasses(a) \/ NewDay
  <2>1. UNCHANGED <<row, ledger, stream, pc, mine, history, faults>>
    BY <1>2 DEF DeadlinePasses, NewDay
  <2>2. late' \in [Analyses -> BOOLEAN] /\ today' \in Days
    <3>0. late \in [Analyses -> BOOLEAN] /\ today \in Days
      BY DEF IInv, AnalysisTypeOK
    <3>1. CASE DeadlinePasses(a)
      BY <3>0, <3>1 DEF DeadlinePasses
    <3>2. CASE NewDay
      BY <3>0, <3>2, AnalysisAssumption DEF NewDay, Days
    <3> QED BY <1>2, <3>1, <3>2
  <2>3. AnalysisTypeOK'
    BY <2>1, <2>2 DEF IInv, AnalysisTypeOK, history
  <2> QED BY <2>1, <2>3, IdleStep DEF Working
<1> QED BY <1>1, <1>2 DEF Time

\* Every field of a job a worker holds has its type.
LEMMA JobType ==
  ASSUME IInv, NEW w \in Workers
  PROVE  /\ mine[w] \in JobRecord /\ mine[w].a \in Analyses
         /\ row[mine[w].a] \in Row
  BY DEF IInv, AnalysisTypeOK, JobRecord

\* Noting an outcome on a job changes nothing else of it.
LEMMA KindSet ==
  ASSUME mine \in [Workers -> JobRecord], NEW w \in Workers, NEW kind \in Kinds
  PROVE  /\ [mine EXCEPT ![w].kind = kind] \in [Workers -> JobRecord]
         /\ \A v \in Workers : [mine EXCEPT ![w].kind = kind][v].a = mine[v].a
<1> DEFINE j == [mine[w] EXCEPT !.kind = kind]
<1>1. j \in JobRecord /\ j.a = mine[w].a
  BY DEF JobRecord
<1>2. [mine EXCEPT ![w].kind = kind] = [mine EXCEPT ![w] = j]
  OBVIOUS
<1> HIDE DEF j
<1> QED BY <1>1, <1>2

\* A worker takes, loses or gives back a delivery.
LEMMA DeliveryGood ==
  ASSUME IInv, NEW w \in Workers, Take(w) \/ Ack(w) \/ Crash(w)
  PROVE  IInv'
<1>0. UNCHANGED <<row, ledger, clock, history>>
  BY DEF Take, Ack, Crash
<1>1. /\ pc' \in [Workers -> PCs]
      /\ \A v \in Workers : v # w => pc'[v] = pc[v]
      /\ pc'[w] \in {"claim", "idle"}
  BY DEF Take, Ack, Crash, IInv, AnalysisTypeOK, PCs
<1>2. /\ mine' \in [Workers -> JobRecord]
      /\ \A v \in Workers : v # w => mine'[v].a = mine[v].a
  <2>0. mine \in [Workers -> JobRecord]
    BY DEF IInv, AnalysisTypeOK, JobRecord
  <2>1. CASE Take(w)
    <3>1. PICK s \in Slots :
            mine' = [mine EXCEPT ![w] = [NoJob(stream[s].a) EXCEPT !.slot = s]]
      BY <2>1 DEF Take
    <3>2. NoJob(stream[s].a) \in JobRecord
      BY Empty DEF IInv, AnalysisTypeOK
    <3>3. [NoJob(stream[s].a) EXCEPT !.slot = s] \in JobRecord
      BY <3>2 DEF JobRecord
    <3> QED BY <2>0, <3>1, <3>3
  <2>2. CASE Ack(w)
    <3>1. \A v \in Workers : [mine[v] EXCEPT !.slot = 0] \in JobRecord
      BY <2>0 DEF JobRecord
    <3>2. \A v \in Workers : [mine[v] EXCEPT !.slot = 0].a = mine[v].a
      BY <2>0 DEF JobRecord
    <3>3. NoJob(SomeAnalysis) \in JobRecord
      BY Empty
    <3> DEFINE s == mine[w].slot
    <3>4. mine' = [v \in Workers |->
                   IF v = w THEN NoJob(SomeAnalysis)
                   ELSE IF mine[v].slot = s THEN [mine[v] EXCEPT !.slot = 0]
                   ELSE mine[v]]
      BY <2>2 DEF Ack
    <3> HIDE DEF s
    <3> QED BY <2>0, <3>1, <3>2, <3>3, <3>4
  <2>3. CASE Crash(w)
    BY <2>0, <2>3, Empty DEF Crash
  <2> QED BY <2>1, <2>2, <2>3
<1>3. stream' \in [Slots -> [st : {"empty", "new", "pending"}, a : Analyses]]
  BY Empty DEF Take, Ack, Crash, IInv, AnalysisTypeOK
<1>4. faults' \in 0..MaxFaults
  BY FaultType DEF Take, Ack, Crash, IInv, AnalysisTypeOK
<1>5. AnalysisTypeOK'
  BY <1>0, <1>1, <1>2, <1>3, <1>4
     DEF IInv, AnalysisTypeOK, clock, history, JobRecord, PCs
<1>6. \A a \in Analyses : Working(a)' \subseteq Working(a)
  BY <1>1, <1>2 DEF Working
<1> QED BY <1>0, <1>5, <1>6, IdleStep

\* Redis comes back empty.
LEMMA RedisLossGood ==
  ASSUME IInv, RedisLoss
  PROVE  IInv'
<1>1. UNCHANGED <<row, ledger, clock, pc, history>> /\ faults' \in 0..MaxFaults
  BY FaultType DEF RedisLoss
<1>2. stream' \in [Slots -> [st : {"empty", "new", "pending"}, a : Analyses]]
  BY Empty DEF RedisLoss
<1>3. /\ mine' \in [Workers -> JobRecord]
      /\ \A w \in Workers : mine'[w].a = mine[w].a
  BY DEF RedisLoss, IInv, AnalysisTypeOK, JobRecord
<1>4. AnalysisTypeOK'
  BY <1>1, <1>2, <1>3 DEF IInv, AnalysisTypeOK, clock, history, JobRecord
<1> QED BY <1>1, <1>3, <1>4, IdleStep DEF Working

\* A worker that found nothing to claim, and one that renews its lease.
LEMMA UnclaimedGood ==
  ASSUME IInv, NEW w \in Workers, HandleUnclaimed(w) \/ RenewLease(w)
  PROVE  IInv'
<1> DEFINE a == mine[w].a
<1>0. a \in Analyses /\ row[a] \in Row
  BY JobType
<1>1. PICK r \in Row :
        /\ row' = [row EXCEPT ![a] = r]
        /\ r.tries = row[a].tries /\ r.cost = row[a].cost /\ r.day = row[a].day
        /\ r.status = "none" => row[a].status = "none"
        /\ r.status = "PROCESSING" =>
             row[a].status = "PROCESSING" /\ r.token = row[a].token
  <2>1. CASE row' = row
    <3>1. row' = [row EXCEPT ![a] = row[a]]
      BY <2>1 DEF IInv, AnalysisTypeOK
    <3> QED BY <1>0, <3>1
  <2>2. CASE row' = [row EXCEPT ![a] = Closed(@, "FAILED")]
    <3>1. row' = [row EXCEPT ![a] = Closed(row[a], "FAILED")]
      BY <2>2
    <3>2. /\ Closed(row[a], "FAILED") \in Row
          /\ Closed(row[a], "FAILED").status = "FAILED"
          /\ Closed(row[a], "FAILED").tries = row[a].tries
          /\ Closed(row[a], "FAILED").cost = row[a].cost
          /\ Closed(row[a], "FAILED").day = row[a].day
      BY <1>0, ClosedType DEF Finished
    <3> QED BY <3>1, <3>2
  <2>3. CASE row' = [row EXCEPT ![a].lease = "live"]
    <3> DEFINE r == [row[a] EXCEPT !.lease = "live"]
    <3>1. row' = [row EXCEPT ![a] = r]
      BY <2>3
    <3>2. /\ r \in Row /\ r.tries = row[a].tries /\ r.cost = row[a].cost
          /\ r.day = row[a].day /\ r.status = row[a].status
          /\ r.token = row[a].token
      BY <1>0 DEF Row
    <3> QED BY <3>1, <3>2
  <2> QED BY <2>1, <2>2, <2>3 DEF HandleUnclaimed, RenewLease
<1>2. UNCHANGED <<ledger, clock, stream, mine, history, faults>>
  BY DEF HandleUnclaimed, RenewLease
<1>3. pc' \in [Workers -> PCs] /\ \A v \in Workers :
        pc'[v] \in {"load", "renew", "analyze"} => pc[v] \in {"load", "renew", "analyze"}
  BY DEF HandleUnclaimed, RenewLease, IInv, AnalysisTypeOK, PCs
<1>4. row' \in [Analyses -> Row] /\ RowsGood' /\ LedgerGood'
  <2> HIDE DEF a
  <2> QED BY <1>0, <1>1, <1>2, RowStep DEF IInv, history
<1>5. AnalysisTypeOK'
  BY <1>2, <1>3, <1>4 DEF IInv, AnalysisTypeOK, clock, history, PCs
<1>6. RequestsCovered'
  BY <1>2, <1>3, RequestsKept DEF IInv, history, Working
<1> QED BY <1>4, <1>5, <1>6 DEF IInv

\* A worker loads its input.
LEMMA LoadGood ==
  ASSUME IInv, NEW w \in Workers, LoadInput(w)
  PROVE  IInv'
<1>1. UNCHANGED <<row, ledger, clock, stream, history, faults>>
  BY DEF LoadInput
<1>2. pc' \in [Workers -> PCs] /\ \A v \in Workers :
        pc'[v] \in {"load", "renew", "analyze"} => pc[v] \in {"load", "renew", "analyze"}
  BY DEF LoadInput, IInv, AnalysisTypeOK, PCs
<1>3. /\ mine' \in [Workers -> JobRecord]
      /\ \A v \in Workers : mine'[v].a = mine[v].a
  <2>0. mine \in [Workers -> JobRecord]
    BY DEF IInv, AnalysisTypeOK, JobRecord
  <2>1. mine' = mine \/ \E kind \in Kinds : mine' = [mine EXCEPT ![w].kind = kind]
    BY DEF LoadInput, Kinds
  <2>2. ASSUME NEW kind \in Kinds, mine' = [mine EXCEPT ![w].kind = kind]
        PROVE  /\ mine' \in [Workers -> JobRecord]
               /\ \A v \in Workers : mine'[v].a = mine[v].a
    BY <2>0, <2>2, KindSet
  <2> QED BY <2>0, <2>1, <2>2
<1>4. AnalysisTypeOK'
  BY <1>1, <1>2, <1>3 DEF IInv, AnalysisTypeOK, clock, history, PCs, JobRecord
<1> QED BY <1>1, <1>2, <1>3, <1>4, IdleStep DEF Working

\* A worker asks the provider: the request was paid by its claim.
LEMMA AnalyzeGood ==
  ASSUME IInv, NEW w \in Workers, Analyze(w)
  PROVE  IInv'
<1> DEFINE a == mine[w].a
<1>0. a \in Analyses
  BY JobType
<1>1. UNCHANGED <<row, ledger, clock, stream, claims, refunds, faults>>
  BY DEF Analyze
<1>2. /\ pc[w] = "analyze" /\ pc' = [pc EXCEPT ![w] = "persist"]
      /\ pc' \in [Workers -> PCs] /\ pc \in [Workers -> PCs]
  BY DEF Analyze, IInv, AnalysisTypeOK, PCs
<1>3. /\ mine' \in [Workers -> JobRecord]
      /\ \A v \in Workers : mine'[v].a = mine[v].a
  <2>0. mine \in [Workers -> JobRecord]
    BY DEF IInv, AnalysisTypeOK, JobRecord
  <2>1. PICK kind \in Kinds : mine' = [mine EXCEPT ![w].kind = kind]
    BY DEF Analyze, Kinds
  <2> QED BY <2>0, <2>1, KindSet
<1>4. /\ requests' = [requests EXCEPT ![a] = @ + 1]
      /\ requests' \in [Analyses -> Nat] /\ requests \in [Analyses -> Nat]
      /\ claims \in [Analyses -> Nat]
  BY <1>0 DEF Analyze, IInv, AnalysisTypeOK
<1>5. AnalysisTypeOK'
  BY <1>1, <1>2, <1>3, <1>4 DEF IInv, AnalysisTypeOK, clock, PCs, JobRecord
<1>6. RequestsCovered'
  <2> SUFFICES ASSUME NEW b \in Analyses
               PROVE  requests'[b] + Cardinality(Working(b)') <= claims'[b]
    BY DEF RequestsCovered
  <2>1. requests[b] + Cardinality(Working(b)) <= claims[b]
    BY DEF IInv, RequestsCovered
  <2>2. CASE b # a
    <3>1. Working(b)' = Working(b)
      BY <1>2, <1>3, <2>2 DEF Working
    <3> QED BY <1>1, <1>4, <2>1, <2>2, <3>1
  <2>3. CASE b = a
    <3>1. Working(b)' = Working(b) \ {w} /\ w \in Working(b)
      BY <1>2, <1>3, <2>3 DEF Working
    <3>2. IsFiniteSet(Working(b))
      BY AnalysisAssumption, FS_Subset DEF Working
    <3>3. /\ Cardinality(Working(b) \ {w}) = Cardinality(Working(b)) - 1
          /\ Cardinality(Working(b)) \in Nat
      BY <3>1, <3>2, FS_RemoveElement, FS_CardinalityType
    <3> QED BY <1>0, <1>1, <1>4, <2>1, <2>3, <3>1, <3>3
  <2> QED BY <2>2, <2>3
<1>7. RowsGood' /\ LedgerGood'
  BY <1>1, RowsKept DEF IInv
<1> QED BY <1>5, <1>6, <1>7 DEF IInv

\* The claim: a fresh token, one attempt and, the first time, one unit of the
\* day's budget.
LEMMA ClaimedGood ==
  ASSUME IInv, NEW w \in Workers, Claim(w), Claimable(row[mine[w].a]),
         Affordable(row[mine[w].a])
  PROVE  IInv'
<1> DEFINE a == mine[w].a
           old == row[a]
           token == claims[a] + 1
           new == [old EXCEPT !.status = "PROCESSING", !.tries = @ + 1,
                          !.token = token, !.lease = "live", !.due = TRUE,
                          !.cost = IF NeedsBudget(old) THEN "held" ELSE @,
                          !.day = IF NeedsBudget(old) THEN today ELSE @]
<1>0. /\ a \in Analyses /\ old \in Row /\ mine[w] \in JobRecord
      /\ RowGood(old, claims[a], refunds[a])
  BY JobType DEF IInv, RowsGood
<1>1. /\ row' = [row EXCEPT ![a] = new]
      /\ ledger' = IF NeedsBudget(old) THEN [ledger EXCEPT ![today] = @ + 1] ELSE ledger
      /\ claims' = [claims EXCEPT ![a] = token]
      /\ mine' = [mine EXCEPT ![w] =
                    [@ EXCEPT !.token = token, !.tries = old.tries + 1]]
      /\ pc' = [pc EXCEPT ![w] = "load"] /\ pc[w] = "claim"
      /\ UNCHANGED <<clock, stream, refunds, requests, faults>>
  BY DEF Claim
<1>2. /\ old.tries \in Nat /\ old.tries < MaxAttempts
      /\ old.tries + 1 \in 0..MaxAttempts /\ token \in Nat
      /\ claims[a] \in Nat /\ today \in Days
      /\ claims \in [Analyses -> Nat] /\ refunds \in [Analyses -> Nat]
      /\ requests \in [Analyses -> Nat] /\ row \in [Analyses -> Row]
      /\ ledger \in [Days -> Nat] /\ mine \in [Workers -> JobRecord]
      /\ pc \in [Workers -> PCs]
  BY <1>0, AnalysisAssumption
     DEF IInv, AnalysisTypeOK, Claimable, Row, JobRecord, PCs
<1>3. /\ new \in Row /\ new.status = "PROCESSING" /\ new.tries = old.tries + 1
      /\ new.token = token
      /\ new.cost = IF NeedsBudget(old) THEN "held" ELSE old.cost
      /\ new.day = IF NeedsBudget(old) THEN today ELSE old.day
  <2> DEFINE cost == IF NeedsBudget(old) THEN "held" ELSE old.cost
             day == IF NeedsBudget(old) THEN today ELSE old.day
  <2>1. cost \in {"null", "held", "zero"} /\ day \in Days \cup {0}
    BY <1>0, <1>2 DEF Row
  <2>2. new = [old EXCEPT !.status = "PROCESSING", !.tries = old.tries + 1,
                     !.token = token, !.lease = "live", !.due = TRUE,
                     !.cost = cost, !.day = day]
    OBVIOUS
  <2> HIDE DEF new, old, token, cost, day
  <2>3. new \in Row /\ new.status = "PROCESSING" /\ new.tries = old.tries + 1
        /\ new.token = token /\ new.cost = cost /\ new.day = day
    BY <1>0, <1>2, <2>1, <2>2 DEF Row, Unfinished
  <2> QED BY <2>3 DEF cost, day
<1> DEFINE job == [mine[w] EXCEPT !.token = token, !.tries = old.tries + 1]
<1>4. job \in JobRecord /\ job.a = a /\ mine' = [mine EXCEPT ![w] = job]
  <2>1. mine' = [mine EXCEPT ![w] = job]
    BY <1>1
  <2> HIDE DEF token, old
  <2> QED BY <1>0, <1>2, <2>1 DEF JobRecord
<1> HIDE DEF new, job, old, token
<1>5. \A b \in Analyses : row'[b] = IF b = a THEN new ELSE row[b]
  BY <1>0, <1>1, <1>2
<1>6. AnalysisTypeOK'
  <2>1. row' \in [Analyses -> Row] /\ claims' \in [Analyses -> Nat]
    BY <1>0, <1>1, <1>2, <1>3
  <2>2. ledger' \in [Days -> Nat]
    BY <1>1, <1>2
  <2>3. mine' \in [Workers -> JobRecord] /\ pc' \in [Workers -> PCs]
    BY <1>1, <1>2, <1>4 DEF PCs
  <2> QED BY <1>1, <2>1, <2>2, <2>3 DEF IInv, AnalysisTypeOK, clock, JobRecord, PCs
<1>7. RowsGood'
  <2> SUFFICES ASSUME NEW b \in Analyses
               PROVE  RowGood(row'[b], claims'[b], refunds'[b])
    BY DEF RowsGood
  <2>1. RowGood(row[b], claims[b], refunds[b])
    BY DEF IInv, RowsGood
  <2>2. CASE b # a
    BY <1>1, <1>2, <1>5, <2>1, <2>2
  <2>3. CASE b = a
    <3>1. claims'[a] = token /\ refunds'[a] = refunds[a] /\ row'[a] = new
      BY <1>0, <1>1, <1>2, <1>5
    <3>2. token = claims[a] + 1 /\ refunds[a] \in Nat
      BY <1>0, <1>2 DEF token
    <3>3. claims[a] = old.tries + refunds[a]
      BY <1>0 DEF RowGood
    <3>4. new.cost = "held" => new.day \in Days
      BY <1>0, <1>2, <1>3 DEF RowGood
    <3> QED BY <1>2, <1>3, <2>3, <3>1, <3>2, <3>3, <3>4 DEF RowGood
  <2> QED BY <2>2, <2>3
<1>8. LedgerGood'
  <2> SUFFICES ASSUME NEW d \in Days
               PROVE  ledger'[d] = Cardinality(HeldOn(d)') /\ ledger'[d] <= Cap
    BY DEF LedgerGood
  <2>1. ledger[d] = Cardinality(HeldOn(d)) /\ ledger[d] <= Cap
    BY DEF IInv, LedgerGood
  <2>2. CASE ~NeedsBudget(old) \/ d # today
    <3>1. HeldOn(d)' = HeldOn(d)
      BY <1>3, <1>5, <2>2 DEF HeldOn, NeedsBudget, old
    <3>2. ledger'[d] = ledger[d]
      BY <1>1, <1>2, <2>2
    <3> QED BY <2>1, <3>1, <3>2
  <2>3. CASE NeedsBudget(old) /\ d = today
    <3>1. HeldOn(d)' = HeldOn(d) \cup {a} /\ a \notin HeldOn(d)
      BY <1>0, <1>3, <1>5, <2>3 DEF HeldOn, NeedsBudget, old
    <3>2. IsFiniteSet(HeldOn(d))
      BY AnalysisAssumption, FS_Subset DEF HeldOn
    <3>3. Cardinality(HeldOn(d) \cup {a}) = Cardinality(HeldOn(d)) + 1
      BY <3>1, <3>2, FS_AddElement
    <3>4. ledger'[d] = ledger[d] + 1 /\ ledger[d] + 1 <= Cap
      BY <1>1, <1>2, <2>3 DEF Affordable, old
    <3> QED BY <2>1, <3>1, <3>3, <3>4
  <2> QED BY <2>2, <2>3
<1>9. RequestsCovered'
  <2> SUFFICES ASSUME NEW b \in Analyses
               PROVE  requests'[b] + Cardinality(Working(b)') <= claims'[b]
    BY DEF RequestsCovered
  <2>1. requests[b] + Cardinality(Working(b)) <= claims[b]
    BY DEF IInv, RequestsCovered
  <2>2. CASE b # a
    <3>1. Working(b)' = Working(b)
      BY <1>1, <1>2, <1>4, <2>2 DEF Working
    <3> QED BY <1>1, <1>2, <2>1, <2>2, <3>1
  <2>3. CASE b = a
    <3>1. Working(b)' = Working(b) \cup {w} /\ w \notin Working(b)
      BY <1>1, <1>2, <1>4, <2>3 DEF Working
    <3>2. IsFiniteSet(Working(b))
      BY AnalysisAssumption, FS_Subset DEF Working
    <3>3. /\ Cardinality(Working(b) \cup {w}) = Cardinality(Working(b)) + 1
          /\ Cardinality(Working(b)) \in Nat
      BY <3>1, <3>2, FS_AddElement, FS_CardinalityType
    <3>4. claims'[b] = claims[b] + 1
      BY <1>0, <1>1, <1>2, <2>3 DEF token
    <3> QED BY <1>1, <1>2, <2>1, <3>1, <3>3, <3>4
  <2> QED BY <2>2, <2>3
<1> QED BY <1>6, <1>7, <1>8, <1>9 DEF IInv

\* The claim in all its cases: granted, denied by the budget, nothing to claim.
LEMMA ClaimGood ==
  ASSUME IInv, NEW w \in Workers, Claim(w)
  PROVE  IInv'
<1> DEFINE a == mine[w].a
<1>0. a \in Analyses /\ row[a] \in Row
  BY JobType
<1>1. CASE Claimable(row[a]) /\ Affordable(row[a])
  BY <1>1, ClaimedGood
<1>2. CASE ~(Claimable(row[a]) /\ Affordable(row[a]))
  <2>1. UNCHANGED <<ledger, clock, stream, mine, history, faults>>
    BY <1>2 DEF Claim, history
  <2> DEFINE new == [row[a] EXCEPT !.due = FALSE, !.pub = "old"]
  <2>2. row' = row \/ row' = [row EXCEPT ![a] = new]
    BY <1>2 DEF Claim
  <2>3. /\ new \in Row /\ new.tries = row[a].tries /\ new.cost = row[a].cost
        /\ new.day = row[a].day /\ new.status = row[a].status
        /\ new.token = row[a].token
    BY <1>0 DEF Row
  <2>4. pc' \in [Workers -> PCs] /\ \A v \in Workers :
          pc'[v] \in {"load", "renew", "analyze"} => pc[v] \in {"load", "renew", "analyze"}
    BY <1>2 DEF Claim, IInv, AnalysisTypeOK, PCs
  <2> HIDE DEF new
  <2>5. row' \in [Analyses -> Row] /\ RowsGood' /\ LedgerGood'
    <3>1. CASE row' = row
      BY <2>1, <3>1, RowsKept DEF IInv, history, AnalysisTypeOK
    <3>2. CASE row' = [row EXCEPT ![a] = new]
      <4> HIDE DEF a
      <4> QED BY <1>0, <2>1, <2>3, <3>2, RowStep DEF IInv, history
    <3> QED BY <2>2, <3>1, <3>2
  <2>6. AnalysisTypeOK'
    BY <2>1, <2>4, <2>5 DEF IInv, AnalysisTypeOK, clock, history, PCs
  <2>7. RequestsCovered'
    BY <2>1, <2>4, RequestsKept DEF IInv, history, Working
  <2> QED BY <2>5, <2>6, <2>7 DEF IInv
<1> QED BY <1>1, <1>2

\* The fenced write of an outcome: a skip returns its reservation, a "not
\* ready" its attempt.
LEMMA PersistGood ==
  ASSUME IInv, NEW w \in Workers, Persist(w)
  PROVE  IInv'
<1> DEFINE a == mine[w].a
           old == row[a]
           v == Verdict(w)
           refund == Refunded(w)
           new == Written(old, v, refund)
           job == [NoJob(a) EXCEPT !.slot = mine[w].slot]
<1>0. /\ a \in Analyses /\ old \in Row /\ mine[w] \in JobRecord
      /\ RowGood(old, claims[a], refunds[a])
  BY JobType DEF IInv, RowsGood
<1>1. /\ pc' = [pc EXCEPT ![w] = "ack"] /\ pc[w] = "persist"
      /\ mine' = [mine EXCEPT ![w] = job]
      /\ UNCHANGED <<clock, stream, claims, requests, faults>>
  BY DEF Persist
<1>2. job \in JobRecord /\ job.a = a
  <2>1. NoJob(a) \in JobRecord /\ NoJob(a).a = a
    BY <1>0, Empty DEF NoJob
  <2>2. mine[w].slot \in Slots \cup {0}
    BY <1>0 DEF JobRecord
  <2> QED BY <2>1, <2>2 DEF JobRecord
<1> HIDE DEF job
<1>3. /\ mine' \in [Workers -> JobRecord] /\ pc' \in [Workers -> PCs]
      /\ \A u \in Workers : mine'[u].a = mine[u].a
      /\ \A u \in Workers :
           pc'[u] \in {"load", "renew", "analyze"} => pc[u] \in {"load", "renew", "analyze"}
  BY <1>1, <1>2 DEF IInv, AnalysisTypeOK, JobRecord, PCs
<1>4. RequestsCovered'
  BY <1>1, <1>3, RequestsKept DEF IInv, Working
<1>5. /\ row' \in [Analyses -> Row] /\ ledger' \in [Days -> Nat]
      /\ refunds' \in [Analyses -> Nat] /\ RowsGood' /\ LedgerGood'
  <2>1. CASE ~Owns(w)
    <3>1. UNCHANGED <<row, ledger, refunds>>
      BY <2>1 DEF Persist
    <3> QED BY <1>1, <3>1, RowsKept DEF IInv, AnalysisTypeOK
  <2>2. CASE Owns(w)
    <3>0. /\ row' = [row EXCEPT ![a] = new]
          /\ ledger' = IF v = "SKIPPED" THEN Returned(old) ELSE ledger
          /\ refunds' = IF refund THEN [refunds EXCEPT ![a] = @ + 1] ELSE refunds
      BY <2>2 DEF Persist
    <3>1. old.status = "PROCESSING" /\ old.tries >= 1
      BY <1>0, <2>2 DEF Owns, RowGood
    <3>2. v \in Finished \cup {"RETRY_WAIT"} /\ refund \in BOOLEAN
          /\ (refund => v = "RETRY_WAIT")
      BY VerdictType DEF Refunded
    <3>3. /\ new \in Row /\ new.status = v
          /\ new.tries = IF refund THEN old.tries - 1 ELSE old.tries
          /\ new.day = old.day
          /\ new.cost = IF v = "SKIPPED" /\ old.cost = "held" THEN "zero" ELSE old.cost
      <4> HIDE DEF old, v, refund
      <4> QED BY <1>0, <3>1, <3>2, WrittenRow
    <3>4. /\ row \in [Analyses -> Row] /\ ledger \in [Days -> Nat]
          /\ claims \in [Analyses -> Nat] /\ refunds \in [Analyses -> Nat]
      BY DEF IInv, AnalysisTypeOK
    <3> HIDE DEF new, v, refund
    <3>5. \A b \in Analyses : row'[b] = IF b = a THEN new ELSE row[b]
      BY <1>0, <3>0, <3>4
    <3>6. row' \in [Analyses -> Row] /\ refunds' \in [Analyses -> Nat]
      BY <1>0, <3>0, <3>3, <3>4
    <3>7. RowsGood'
      <4> SUFFICES ASSUME NEW b \in Analyses
                   PROVE  RowGood(row'[b], claims'[b], refunds'[b])
        BY DEF RowsGood
      <4>1. RowGood(row[b], claims[b], refunds[b])
        BY DEF IInv, RowsGood
      <4>2. CASE b # a
        BY <1>1, <3>0, <3>4, <3>5, <4>1, <4>2
      <4>3. CASE b = a
        <5>1. /\ row'[a] = new /\ claims'[a] = claims[a]
              /\ refunds'[a] = IF refund THEN refunds[a] + 1 ELSE refunds[a]
          BY <1>0, <1>1, <3>0, <3>4, <3>5
        <5>2. /\ claims[a] = old.tries + refunds[a]
              /\ old.cost = "held" => old.day \in Days
          BY <1>0 DEF RowGood
        <5>3. /\ new.status # "none" /\ new.status # "PROCESSING"
              /\ new.cost = "held" => old.cost = "held"
          BY <3>2, <3>3 DEF Finished
        <5>4. old.tries \in Nat /\ refunds[a] \in Nat /\ claims[a] \in Nat
          BY <1>0, <3>4, AnalysisAssumption DEF Row
        <5> HIDE DEF old, a
        <5>5. claims[a] = new.tries + IF refund THEN refunds[a] + 1 ELSE refunds[a]
          BY <3>3, <5>2, <5>4
        <5> QED BY <3>3, <4>3, <5>1, <5>2, <5>3, <5>5 DEF RowGood
      <4> QED BY <4>2, <4>3
    <3>8. CASE ~(v = "SKIPPED" /\ old.cost = "held")
      <4>1. ledger' = ledger
        BY <3>0, <3>8 DEF Returned
      <4>2. \A b \in Analyses : row'[b].cost = row[b].cost /\ row'[b].day = row[b].day
        BY <3>3, <3>5, <3>8
      <4>3. LedgerGood'
        BY <4>1, <4>2, LedgerKept DEF IInv
      <4> QED BY <3>4, <3>6, <3>7, <4>1, <4>3
    <3>9. CASE v = "SKIPPED" /\ old.cost = "held"
      <4>1. old.day \in Days
        BY <1>0, <3>9 DEF RowGood
      <4>2. /\ a \in HeldOn(old.day) /\ IsFiniteSet(HeldOn(old.day))
            /\ Cardinality(HeldOn(old.day)) \in Nat
        BY <1>0, <3>9, AnalysisAssumption, FS_Subset, FS_CardinalityType DEF HeldOn
      <4>3. /\ Cardinality(HeldOn(old.day) \ {a}) = Cardinality(HeldOn(old.day)) - 1
            /\ Cardinality(HeldOn(old.day) \ {a}) \in Nat
        BY <4>2, FS_RemoveElement, FS_CardinalityType
      <4>4. ledger[old.day] = Cardinality(HeldOn(old.day))
        BY <4>1 DEF IInv, LedgerGood
      <4>5. ledger' = [ledger EXCEPT ![old.day] = ledger[old.day] - 1]
        <5>1. ledger' = [ledger EXCEPT ![old.day] = IF @ > 0 THEN @ - 1 ELSE 0]
          BY <3>0, <3>9 DEF Returned
        <5>2. ledger[old.day] > 0
          BY <4>2, <4>3, <4>4
        <5> QED BY <5>1, <5>2
      <4>6. LedgerGood'
        <5> SUFFICES ASSUME NEW d \in Days
                     PROVE  ledger'[d] = Cardinality(HeldOn(d)') /\ ledger'[d] <= Cap
          BY DEF LedgerGood
        <5>1. ledger[d] = Cardinality(HeldOn(d)) /\ ledger[d] <= Cap
          BY DEF IInv, LedgerGood
        <5>2. CASE d # old.day
          <6>1. HeldOn(d)' = HeldOn(d)
            BY <3>3, <3>5, <3>9, <5>2 DEF HeldOn
          <6> QED BY <3>4, <4>5, <5>1, <5>2, <6>1
        <5>3. CASE d = old.day
          <6>1. HeldOn(d)' = HeldOn(d) \ {a}
            BY <3>3, <3>5, <3>9, <5>3 DEF HeldOn
          <6>2. ledger'[d] = ledger[d] - 1 /\ ledger[d] \in Nat
            BY <3>4, <4>5, <5>3
          <6> QED BY <4>3, <5>1, <5>3, <6>1, <6>2, AnalysisAssumption
        <5> QED BY <5>2, <5>3
      <4>7. ledger' \in [Days -> Nat]
        BY <3>4, <4>1, <4>3, <4>4, <4>5
      <4> QED BY <3>6, <3>7, <4>6, <4>7
    <3> QED BY <3>8, <3>9
  <2> QED BY <2>1, <2>2
<1>6. AnalysisTypeOK'
  BY <1>1, <1>3, <1>5 DEF IInv, AnalysisTypeOK, clock, JobRecord, PCs
<1> QED BY <1>4, <1>5, <1>6 DEF IInv

\* Every step keeps the invariant.
LEMMA StepGood == IInv /\ [AnalysisNext]_vars => IInv'
<1> SUFFICES ASSUME IInv, [AnalysisNext]_vars PROVE IInv'
  OBVIOUS
<1>1. CASE UNCHANGED vars
  <2>1. AnalysisTypeOK'
    BY <1>1 DEF vars, clock, history, IInv, AnalysisTypeOK
  <2> QED BY <1>1, <2>1, IdleStep DEF vars, clock, history, Working
<1>2. ASSUME NEW w \in Workers, WorkerStep(w) \/ Crash(w)
      PROVE  IInv'
  BY <1>2, DeliveryGood, ClaimGood, UnclaimedGood, LoadGood, AnalyzeGood, PersistGood
     DEF WorkerStep
<1>3. ASSUME NEW a \in Analyses, Register(a) \/ Sweep(a) \/ Time(a)
      PROVE  IInv'
  BY <1>3, RegisterGood, SweepGood, TimeGood DEF Sweep
<1>4. CASE NewDay
  BY <1>4, TimeGood, Empty
<1>5. CASE RedisLoss
  BY <1>5, RedisLossGood
<1> QED BY <1>1, <1>2, <1>3, <1>4, <1>5 DEF AnalysisNext

-----------------------------------------------------------------------------
(* Theorems *)

\* The four parts hold in every reachable state.
THEOREM AnalysisInvariant == AnalysisSpec => []IInv
  BY InitGood, StepGood, PTL DEF AnalysisSpec

\* Every variable keeps its type; in particular no row is ever claimed more
\* than MaxAttempts times net of the attempts given back, and no attempt is
\* given back that was not spent.
THEOREM AnalysisTypeCorrect == AnalysisSpec => []AnalysisTypeOK
<1>1. IInv => AnalysisTypeOK
  BY DEF IInv
<1> QED BY <1>1, AnalysisInvariant, PTL

\* The ledger of every day is what the rows hold of it (budget.reserve and
\* budget.release in the claim's and the skip's transactions).
THEOREM LedgerExact == AnalysisSpec => []LedgerMatchesRows
<1>1. IInv => LedgerMatchesRows
  BY DEF IInv, LedgerGood, LedgerMatchesRows
<1> QED BY <1>1, AnalysisInvariant, PTL

\* No day's reservations exceed its cap, however many workers claim at once.
THEOREM LedgerCapped == AnalysisSpec => []LedgerWithinCap
<1>1. IInv => LedgerWithinCap
  BY DEF IInv, LedgerGood, LedgerWithinCap
<1> QED BY <1>1, AnalysisInvariant, PTL

\* The provider is asked at most MaxAttempts times per analysis, not counting
\* the "not ready" answers that gave their attempt back.
THEOREM RequestBound == AnalysisSpec => []RequestsBounded
<1>1. IInv => RequestsBounded
  <2> SUFFICES ASSUME IInv, NEW a \in Analyses
               PROVE  requests[a] <= MaxAttempts + refunds[a]
    BY DEF RequestsBounded
  <2>1. requests[a] + Cardinality(Working(a)) <= claims[a]
    BY DEF IInv, RequestsCovered
  <2>2. claims[a] = row[a].tries + refunds[a]
    BY DEF IInv, RowsGood, RowGood
  <2>3. /\ row[a].tries \in 0..MaxAttempts /\ requests[a] \in Nat
        /\ refunds[a] \in Nat /\ claims[a] \in Nat
    BY DEF IInv, AnalysisTypeOK, Row
  <2>4. IsFiniteSet(Working(a))
    BY AnalysisAssumption, FS_Subset DEF Working
  <2>5. Cardinality(Working(a)) \in Nat
    BY <2>4, FS_CardinalityType
  <2> QED BY <2>1, <2>2, <2>3, <2>5, AnalysisAssumption
<1> QED BY <1>1, AnalysisInvariant, PTL

\* Only the latest claim of a row writes its outcome (_fenced): a row in
\* progress carries the token of its latest claim.
THEOREM LatestWriter == AnalysisSpec => LatestClaimWrites
<1> DEFINE OK == \A w \in Workers :
             LET a == mine[w].a
             IN pc[w] = "persist" /\ pc'[w] = "ack" /\ row'[a] # row[a]
                  => mine[w].token = claims[a]
<1>1. IInv /\ [AnalysisNext]_vars => OK
  <2> SUFFICES ASSUME IInv, [AnalysisNext]_vars, NEW w \in Workers,
                      pc[w] = "persist", pc'[w] = "ack",
                      row'[mine[w].a] # row[mine[w].a]
               PROVE  mine[w].token = claims[mine[w].a]
    OBVIOUS
  <2>0. pc \in [Workers -> PCs] /\ pc'[w] # pc[w]
    BY DEF IInv, AnalysisTypeOK, PCs
  <2>1. ASSUME NEW u \in Workers, WorkerStep(u)
        PROVE  Persist(w)
    BY <2>0, <2>1 DEF WorkerStep, Take, Claim, HandleUnclaimed, LoadInput,
                      RenewLease, Analyze, Persist, Ack
  <2>2. ASSUME NEW u \in Workers, Crash(u)
        PROVE  FALSE
    BY <2>0, <2>2 DEF Crash
  <2>3. ASSUME NEW a \in Analyses, Register(a) \/ Sweep(a) \/ Time(a)
        PROVE  FALSE
    BY <2>0, <2>3 DEF Register, Sweep, SweepRegister, SweepFinalize, SweepPublish,
         Time, LeaseRunsOut, BecomesDue, PublicationAges, DeadlinePasses
  <2>4. ~(NewDay \/ RedisLoss \/ UNCHANGED vars)
    BY <2>0 DEF NewDay, RedisLoss, vars
  <2>5. Persist(w)
    BY <2>1, <2>2, <2>3, <2>4 DEF AnalysisNext
  <2>6. Owns(w)
    BY <2>5 DEF Persist
  <2>7. mine[w].a \in Analyses
    BY JobType
  <2> QED BY <2>6, <2>7 DEF Owns, IInv, RowsGood, RowGood
<1> QED BY <1>1, AnalysisInvariant, PTL DEF AnalysisSpec, LatestClaimWrites

\* A finished analysis keeps its outcome.
THEOREM FinalOutcome == AnalysisSpec => FinishedIsFinal
<1> DEFINE OK == \A a \in Analyses :
             row[a].status \in Finished => row'[a].status = row[a].status
<1>1. IInv /\ [AnalysisNext]_vars => OK
  <2> SUFFICES ASSUME IInv, [AnalysisNext]_vars, NEW b \in Analyses,
                      row[b].status \in Finished
               PROVE  row'[b].status = row[b].status
    OBVIOUS
  <2>0. row \in [Analyses -> Row] /\ row[b] \in Row
        /\ row[b].status \notin {"none", "PENDING", "PROCESSING", "RETRY_WAIT"}
    BY DEF IInv, AnalysisTypeOK, Finished
  <2>1. ASSUME NEW w \in Workers, WorkerStep(w) \/ Crash(w)
        PROVE  row'[b].status = row[b].status
    <3>1. CASE mine[w].a # b \/ UNCHANGED row
      BY <2>0, <2>1, <3>1 DEF WorkerStep, Take, Claim, HandleUnclaimed, LoadInput,
           RenewLease, Analyze, Persist, Ack, Crash
    <3>2. CASE mine[w].a = b
      <4>1. ~Claimable(row[b]) /\ ~Exhausted(row[b]) /\ ~Owns(w)
        BY <2>0, <3>2 DEF Claimable, Exhausted, Owns
      <4>2. UNCHANGED row
        BY <2>1, <3>2, <4>1 DEF WorkerStep, Take, Claim, HandleUnclaimed,
             LoadInput, RenewLease, Analyze, Persist, Ack, Crash
      <4> QED BY <4>2
    <3> QED BY <3>1, <3>2
  <2>2. ASSUME NEW a \in Analyses, Register(a) \/ Sweep(a) \/ Time(a)
        PROVE  row'[b].status = row[b].status
    <3>1. CASE Register(a) \/ SweepRegister(a)
      BY <2>0, <3>1 DEF Register, SweepRegister
    <3>2. CASE SweepFinalize(a)
      BY <2>0, <3>2 DEF SweepFinalize, Exhausted
    <3>3. CASE SweepPublish(a) \/ Time(a)
      BY <2>0, <3>3 DEF SweepPublish, Time, LeaseRunsOut, BecomesDue,
           PublicationAges, DeadlinePasses, Row
    <3> QED BY <2>2, <3>1, <3>2, <3>3 DEF Sweep
  <2>3. CASE NewDay \/ RedisLoss \/ UNCHANGED vars
    BY <2>3 DEF NewDay, RedisLoss, vars
  <2> QED BY <2>1, <2>2, <2>3 DEF AnalysisNext
<1> QED BY <1>1, AnalysisInvariant, PTL DEF AnalysisSpec, FinishedIsFinal
=============================================================================
