--------------------------- MODULE RestoreProofs ----------------------------
(***************************************************************************)
(* Theorems about DataRestore, for any contacts, campaigns and numbers,    *)
(* any number of retention processes and erasure requests, and any number  *)
(* of holds, calls, crashes, list changes and restores:                    *)
(*                                                                         *)
(*   LifecycleTypes      types; one retention run; rows owned by an erasure*)
(*   HoldsProtect        a legal hold protects from retention and erasure  *)
(*   ErasureCompletes    who is in the log is erased, restores included    *)
(*   ErasedAreNotCalled  no call on a number erased before the request     *)
(*   OptOutsSurvive      restores lose no opt-out the copies knew          *)
(*                                                                         *)
(* The inductive invariant has five parts: the types, with those of the    *)
(* backup; HoldInv, what a batch or a checked erasure has chosen is free   *)
(* of holds but for the racing ones; RowsInv, an erasure at work holds     *)
(* every contact that still has its number; ErasedInv, an erased contact   *)
(* has no writer that is not accounted for; ListInv, the times of the      *)
(* do-not-call list in the database, in the backup and in the copy.        *)
(***************************************************************************)
EXTENDS DataRestore, TLAPS

Counts == {"crashes", "holds", "erasures", "calls", "restores"}

\* The newest backup, if there is one, holds what the database held.
BackupOK ==
  /\ \A b \in backup :
       /\ b.purged \subseteq Contacts /\ b.live \subseteq Contacts /\ b.analysing \subseteq Contacts
       /\ b.content \in [Contacts -> SUBSET Kinds]
       /\ b.closed \subseteq Campaigns /\ b.held \subseteq Contacts \cup Campaigns
       /\ b.dnc \subseteq Numbers /\ b.log \subseteq Numbers
       /\ b.added \in [Numbers -> Nat] /\ b.removed \in [Numbers -> Nat]
  /\ \A b, d \in backup : b = d

ListTypeOK ==
  /\ count \in [Counts -> Nat]
  /\ clock \in Nat /\ added \in [Numbers -> Nat] /\ removed \in [Numbers -> Nat]
  /\ copy \in [dnc : [Numbers -> Nat], log : SUBSET Numbers]
  /\ owed \in [dnc : SUBSET Numbers, log : SUBSET Numbers]

RestoreTypes == LifecycleTypeOK /\ ListTypeOK /\ BackupOK

\* Rows chosen by a batch, or by an erasure that has passed its check, are not
\* under hold unless the hold came later.
HoldInv ==
  /\ \A r \in Runs : \A c \in run[r].ids : Held(c) => c \in racing
  /\ \A e \in Erasers : era[e].pc = "scrub" => \A c \in era[e].rows : Held(c) => c \in racing

\* An erasure at work holds every contact that still has its number.
RowsInv ==
  \A e \in Erasers : era[e].pc # "idle" =>
    \A c \in Contacts : NumberOf[c] = era[e].number => c \in purged \cup era[e].rows

\* Contact c is erased, and whoever may still write content of it is known.
Erased(c) ==
  /\ c \in purged
  /\ content[c] = {} \/ c \in rest
  /\ dial[c] = "idle" \/ c \in rest
  /\ c \in analysing => c \in rest

ErasedInv ==
  /\ "log" \in todo => "reapply" \in todo
  /\ "reapply" \notin todo => \A c \in Contacts \ skipped : NumberOf[c] \in log => Erased(c)

\* Times of the list: what is on it was added after its newest removal.
Timely(list, add, rem) ==
  \A n \in Numbers : /\ n \in list => add[n] > 0 /\ rem[n] <= add[n]
                     /\ add[n] <= clock /\ rem[n] <= clock

\* What the copies or the backup knew is there, or a script will find it.
OwedInv ==
  /\ \A n \in owed.dnc : n \in dnc \/ ("dnc" \in todo /\ Missing(n))
  /\ \A n \in owed.log : n \in log \/ ("log" \in todo /\ n \in copy.log)

ListInv ==
  /\ Timely(dnc, added, removed)
  /\ \A b \in backup : /\ Timely(b.dnc, b.added, b.removed)
                       /\ \A n \in Numbers : b.removed[n] <= removed[n]
  /\ OwedInv

RestoreInv == RestoreTypes /\ HoldInv /\ RowsInv /\ ErasedInv /\ ListInv

-----------------------------------------------------------------------------
(* Types. *)

\* The steps of DataLifecycle keep the types of the data.
LEMMA DataTypeStep ==
  ASSUME LifecycleTypeOK, LifecycleNext
  PROVE  DataTypeOK'
<1> USE DEF LifecycleTypeOK, DataTypeOK, dataVars
<1>1. ASSUME NEW r \in Runs, StartRun(r) \/ Select(r) \/ StopRun(r)
      PROVE  DataTypeOK'
  BY <1>1 DEF StartRun, Select, StopRun
<1>2. ASSUME NEW r \in Runs, Apply(r)
      PROVE  DataTypeOK'
  <2>1. run[r].ids \subseteq Contacts
    BY DEF RunTypeOK
  <2>2. purged' \subseteq Contacts
    BY <1>2, <2>1 DEF Apply
  <2>3. content' \in [Contacts -> SUBSET Kinds]
    BY <1>2 DEF Apply
  <2> QED BY <1>2, <2>2, <2>3 DEF Apply
<1>3. ASSUME NEW x \in Contacts \cup Campaigns, SetHold(x)
      PROVE  DataTypeOK'
  BY <1>3 DEF SetHold
<1>4. ASSUME NEW e \in Erasers, EraseCheck(e) \/ \E n \in Numbers : EraseLock(e, n)
      PROVE  DataTypeOK'
  BY <1>4 DEF EraseCheck, EraseLock
<1>5. ASSUME NEW e \in Erasers, EraseCommit(e)
      PROVE  DataTypeOK'
  <2>1. era[e].rows \subseteq Contacts /\ era[e].number \in Numbers
    BY <1>5 DEF EraTypeOK, EraseCommit
  <2>2. content' \in [Contacts -> SUBSET Kinds]
    BY <1>5 DEF EraseCommit, Scrub
  <2>3. purged' \subseteq Contacts /\ live' \subseteq Contacts
    BY <1>5, <2>1 DEF EraseCommit, Scrub
  <2>4. dnc' \subseteq Numbers /\ log' \subseteq Numbers /\ rest' \subseteq Contacts
    BY <1>5, <2>1 DEF EraseCommit
  <2> QED BY <1>5, <2>2, <2>3, <2>4 DEF EraseCommit
<1>6. ASSUME NEW c \in Contacts, DialCheck(c) \/ DialClaim(c) \/ DialRequest(c)
      PROVE  DataTypeOK'
  BY <1>6 DEF DialCheck, DialClaim, DialRequest
<1>7. ASSUME NEW c \in Contacts, CallEnds(c) \/ AnalysisEnds(c) \/ \E k \in Kinds : CallWrites(c, k)
      PROVE  DataTypeOK'
  BY <1>7 DEF CallEnds, AnalysisEnds, CallWrites
<1>8. ASSUME NEW g \in Campaigns, CloseCampaign(g)
      PROVE  DataTypeOK'
  BY <1>8 DEF CloseCampaign
<1> QED BY <1>1, <1>2, <1>3, <1>4, <1>5, <1>6, <1>7, <1>8 DEF LifecycleNext

\* The steps of DataLifecycle keep the types of the retention runs, and the
\* advisory lock belongs to the one that is not idle.
LEMMA RunTypeStep ==
  ASSUME LifecycleTypeOK, LifecycleNext
  PROVE  RunTypeOK'
<1>1. \A r \in Runs : r # None
  BY LifecycleAssumption DEF None
<1>2. NoRun \in [pc : {"idle", "select", "apply"}, step : 1 .. Len(Steps), ids : SUBSET Contacts]
  BY DEF NoRun, Steps
<1>3. RunTypeOK
  BY DEF LifecycleTypeOK
<1>4. ASSUME NEW r \in Runs, run[r].pc # "idle", EndRun(r)
      PROVE  RunTypeOK'
  BY <1>1, <1>2, <1>3, <1>4 DEF RunTypeOK, EndRun, NoRun
<1>5. ASSUME NEW r \in Runs, StartRun(r)
      PROVE  RunTypeOK'
  <2>1. run' \in [Runs -> [pc : {"idle", "select", "apply"}, step : 1 .. Len(Steps), ids : SUBSET Contacts]]
    BY <1>3, <1>5 DEF StartRun, RunTypeOK
  <2>2. \A q \in Runs : run'[q].pc = IF q = r THEN "select" ELSE run[q].pc
    BY <1>3, <1>5 DEF StartRun, RunTypeOK
  <2> QED BY <1>1, <1>3, <1>5, <2>1, <2>2 DEF StartRun, RunTypeOK
<1>6. ASSUME NEW r \in Runs, Select(r)
      PROVE  RunTypeOK'
  <2>1. CASE EndRun(r)
    BY <1>4, <1>6, <2>1 DEF Select
  <2>2. CASE ~EndRun(r)
    <3>1. lock' = lock /\ run[r].pc = "select"
      BY <1>6, <2>2 DEF Select
    <3>2. \/ \E ids \in SUBSET Contacts : run' = [run EXCEPT ![r] = [@ EXCEPT !.pc = "apply", !.ids = ids]]
          \/ run[r].step # Len(Steps) /\ run' = [run EXCEPT ![r].step = @ + 1]
      <4>1. \A step : Candidates(step) \subseteq Contacts
        BY DEF Candidates
      <4> QED BY <1>6, <2>2, <4>1 DEF Select
    <3>3. \A q \in Runs : run'[q].pc # "idle" <=> run[q].pc # "idle"
      BY <1>3, <3>1, <3>2 DEF RunTypeOK
    <3>4. run' \in [Runs -> [pc : {"idle", "select", "apply"}, step : 1 .. Len(Steps), ids : SUBSET Contacts]]
      <4>1. CASE \E ids \in SUBSET Contacts : run' = [run EXCEPT ![r] = [@ EXCEPT !.pc = "apply", !.ids = ids]]
        BY <1>3, <4>1 DEF RunTypeOK
      <4>2. CASE run[r].step # Len(Steps) /\ run' = [run EXCEPT ![r].step = @ + 1]
        <5>1. Len(Steps) = 5
          BY DEF Steps
        <5>2. run[r].step + 1 \in 1 .. Len(Steps)
          BY <1>3, <4>2, <5>1 DEF RunTypeOK
        <5> QED BY <1>3, <4>2, <5>2 DEF RunTypeOK
      <4> QED BY <3>2, <4>1, <4>2
    <3> QED BY <1>3, <3>1, <3>3, <3>4 DEF RunTypeOK
  <2> QED BY <2>1, <2>2
<1>7. ASSUME NEW r \in Runs, Apply(r)
      PROVE  RunTypeOK'
  <2>1. lock' = lock /\ run[r].pc = "apply" /\ run' = [run EXCEPT ![r] = [@ EXCEPT !.pc = "select", !.ids = {}]]
    BY <1>7 DEF Apply
  <2>2. run' \in [Runs -> [pc : {"idle", "select", "apply"}, step : 1 .. Len(Steps), ids : SUBSET Contacts]]
    BY <1>3, <2>1 DEF RunTypeOK
  <2>3. \A q \in Runs : run'[q].pc # "idle" <=> run[q].pc # "idle"
    BY <1>3, <2>1 DEF RunTypeOK
  <2> QED BY <1>3, <2>1, <2>2, <2>3 DEF RunTypeOK
<1>8. ASSUME NEW r \in Runs, StopRun(r)
      PROVE  RunTypeOK'
  BY <1>4, <1>8 DEF StopRun
<1>9. CASE UNCHANGED <<run, lock>>
  BY <1>3, <1>9 DEF RunTypeOK
<1> QED BY <1>5, <1>6, <1>7, <1>8, <1>9
        DEF LifecycleNext, SetHold, EraseCheck, EraseLock, EraseCommit, DialCheck, DialClaim,
            DialRequest, CallEnds, AnalysisEnds, CallWrites, CloseCampaign

\* The steps of DataLifecycle keep the types of the erasure requests, and no
\* two of them lock the same row.
LEMMA EraTypeStep ==
  ASSUME LifecycleTypeOK, LifecycleNext
  PROVE  EraTypeOK'
<1>1. EraTypeOK
  BY DEF LifecycleTypeOK
<1>2. NoErasure \in [pc : {"idle", "check", "scrub"}, number : Numbers \cup {None},
                     rows : SUBSET Contacts, suppress : BOOLEAN]
  BY DEF NoErasure
<1>3. ASSUME NEW e \in Erasers, era' = [era EXCEPT ![e] = NoErasure]
      PROVE  EraTypeOK'
  BY <1>1, <1>2, <1>3 DEF EraTypeOK, NoErasure
<1>4. ASSUME NEW e \in Erasers, NEW n \in Numbers, EraseLock(e, n)
      PROVE  EraTypeOK'
  <2>1. PICK s \in BOOLEAN :
          era' = [era EXCEPT ![e] = [pc |-> "check", number |-> n, rows |-> ContactsOf(n), suppress |-> s]]
    BY <1>4 DEF EraseLock
  <2>2. ContactsOf(n) \subseteq Contacts /\ ContactsOf(n) \cap LockedRows = {}
    BY <1>4 DEF EraseLock, ContactsOf
  <2>3. \A f \in Erasers : era[f].rows \subseteq LockedRows
    BY DEF LockedRows
  <2>4. \A f \in Erasers : era'[f].rows = IF f = e THEN ContactsOf(n) ELSE era[f].rows
    BY <1>1, <2>1 DEF EraTypeOK
  <2>5. \A f, h \in Erasers : f # h => era'[f].rows \cap era'[h].rows = {}
    BY <1>1, <2>2, <2>3, <2>4 DEF EraTypeOK
  <2>6. era' \in [Erasers -> [pc : {"idle", "check", "scrub"}, number : Numbers \cup {None},
                              rows : SUBSET Contacts, suppress : BOOLEAN]]
    BY <1>1, <2>1, <2>2 DEF EraTypeOK
  <2>7. \A f \in Erasers : era'[f].pc # "idle" => era'[f].number \in Numbers
    BY <1>1, <2>1 DEF EraTypeOK
  <2> QED BY <2>5, <2>6, <2>7 DEF EraTypeOK
<1>5. ASSUME NEW e \in Erasers, EraseCheck(e)
      PROVE  EraTypeOK'
  <2>1. CASE \E c \in era[e].rows : Held(c)
    BY <1>3, <1>5, <2>1 DEF EraseCheck
  <2>2. CASE ~\E c \in era[e].rows : Held(c)
    <3>1. era' = [era EXCEPT ![e].pc = "scrub"] /\ era[e].pc = "check"
      BY <1>5, <2>2 DEF EraseCheck
    <3> QED BY <1>1, <3>1 DEF EraTypeOK
  <2> QED BY <2>1, <2>2
<1>6. CASE UNCHANGED era
  BY <1>1, <1>6 DEF EraTypeOK
<1> QED BY <1>3, <1>4, <1>5, <1>6
        DEF LifecycleNext, StartRun, Select, Apply, StopRun, SetHold, EraseCommit, DialCheck, DialClaim,
            DialRequest, CallEnds, AnalysisEnds, CallWrites, CloseCampaign

\* Work keeps all types.
LEMMA WorkTypes ==
  ASSUME RestoreTypes, Work
  PROVE  RestoreTypes'
<1>1. LifecycleTypeOK'
  BY DataTypeStep, RunTypeStep, EraTypeStep DEF RestoreTypes, Work, LifecycleTypeOK
<1>2. count' \in [Counts -> Nat]
  <2>1. LifecycleNext /\ count \in [Counts -> Nat]
    BY DEF Work, RestoreTypes, ListTypeOK
  <2>2. ASSUME NEW name \in Counts, NEW bound, Bump(name, bound)
        PROVE  count' \in [Counts -> Nat]
    BY <2>1, <2>2 DEF Bump
  <2>3. "crashes" \in Counts /\ "holds" \in Counts /\ "erasures" \in Counts /\ "calls" \in Counts
    BY DEF Counts
  <2>4. CASE UNCHANGED count
    BY <2>1, <2>4
  <2> QED BY <2>1, <2>2, <2>3, <2>4
          DEF LifecycleNext, StartRun, Select, Apply, StopRun, SetHold, EraseLock, EraseCheck,
              EraseCommit, DialCheck, DialClaim, DialRequest, CallEnds, AnalysisEnds, CallWrites,
              CloseCampaign
<1>3. clock' \in Nat /\ added' \in [Numbers -> Nat]
  BY DEF Work, Stamped, RestoreTypes, ListTypeOK
<1>4. ListTypeOK' /\ BackupOK'
  BY <1>2, <1>3 DEF Work, RestoreTypes, ListTypeOK, BackupOK, restoreVars
<1> QED BY <1>1, <1>4 DEF RestoreTypes

\* The steps of RestoreNext that leave calls, retention and erasure alone.
ListStep ==
  \/ \E numbers \in SUBSET Numbers : AddSuppression(numbers)
  \/ \E n \in Numbers : RemoveSuppression(n)
  \/ TakeBackup \/ \E kind \in {"dnc", "log"} : Export(kind)
  \/ ReconcileDnc \/ ReconcileErasures

\* What the steps on the list, the backup and the copies leave alone.
LEMMA ListStepFrame ==
  ASSUME ListStep
  PROVE  UNCHANGED <<purged, live, content, analysing, closed, held, run, lock, era, dial,
                     racing, rest, count, skipped>>
  BY DEF ListStep, AddSuppression, RemoveSuppression, TakeBackup, Export, ReconcileDnc,
         ReconcileErasures, vars, dataVars, restoreVars

\* They keep all types.
LEMMA ListStepTypes ==
  ASSUME RestoreTypes, ListStep
  PROVE  RestoreTypes'
<1> USE DEF RestoreTypes, ListTypeOK
<1>1. dnc \subseteq Numbers /\ log \subseteq Numbers
  BY DEF LifecycleTypeOK, DataTypeOK
<1>2. ASSUME NEW numbers \in SUBSET Numbers, AddSuppression(numbers)
      PROVE  ListTypeOK' /\ dnc' \subseteq Numbers /\ log' \subseteq Numbers /\ BackupOK'
  BY <1>1, <1>2 DEF AddSuppression, Stamped, restoreVars, BackupOK
<1>3. ASSUME NEW n \in Numbers, RemoveSuppression(n)
      PROVE  ListTypeOK' /\ dnc' \subseteq Numbers /\ log' \subseteq Numbers /\ BackupOK'
  <2>1. owed' \in [dnc : SUBSET Numbers, log : SUBSET Numbers]
    BY <1>3 DEF RemoveSuppression
  <2>2. clock' \in Nat /\ added' \in [Numbers -> Nat] /\ removed' \in [Numbers -> Nat]
    BY <1>3 DEF RemoveSuppression
  <2> QED BY <1>1, <1>3, <2>1, <2>2 DEF RemoveSuppression, BackupOK
<1>4. ASSUME TakeBackup
      PROVE  ListTypeOK' /\ dnc' \subseteq Numbers /\ log' \subseteq Numbers /\ BackupOK'
  BY <1>1, <1>4 DEF TakeBackup, Snapshot, vars, dataVars, BackupOK, LifecycleTypeOK, DataTypeOK
<1>5. ASSUME NEW kind, Export(kind)
      PROVE  ListTypeOK' /\ dnc' \subseteq Numbers /\ log' \subseteq Numbers /\ BackupOK'
  <2>1. copy' \in [dnc : [Numbers -> Nat], log : SUBSET Numbers]
    BY <1>1, <1>5 DEF Export
  <2> QED BY <1>1, <1>5, <2>1 DEF Export, vars, dataVars, BackupOK
<1>6. ASSUME ReconcileDnc
      PROVE  ListTypeOK' /\ dnc' \subseteq Numbers /\ log' \subseteq Numbers /\ BackupOK'
  <2>1. clock' \in Nat /\ added' \in [Numbers -> Nat]
    BY <1>6 DEF ReconcileDnc, Stamped
  <2> QED BY <1>1, <1>6, <2>1 DEF ReconcileDnc, BackupOK
<1>7. ASSUME ReconcileErasures
      PROVE  ListTypeOK' /\ dnc' \subseteq Numbers /\ log' \subseteq Numbers /\ BackupOK'
  BY <1>1, <1>7 DEF ReconcileErasures, listVars, BackupOK
<1>8. ListTypeOK' /\ dnc' \subseteq Numbers /\ log' \subseteq Numbers /\ BackupOK'
  BY <1>2, <1>3, <1>4, <1>5, <1>6, <1>7 DEF ListStep
<1>9. LifecycleTypeOK'
  BY <1>8, ListStepFrame DEF LifecycleTypeOK, DataTypeOK, RunTypeOK, EraTypeOK
<1> QED BY <1>8, <1>9

\* A restore keeps all types, since a backup has them.
LEMMA RestoreStepTypes ==
  ASSUME RestoreTypes, Restore
  PROVE  RestoreTypes'
<1> PICK b \in backup :
      /\ Bump("restores", MaxRestores)
      /\ purged' = b.purged /\ live' = b.live /\ content' = b.content
      /\ analysing' = b.analysing /\ closed' = b.closed /\ held' = b.held
      /\ dnc' = b.dnc /\ log' = b.log
      /\ added' = b.added /\ removed' = b.removed
      /\ run' = [r \in Runs |-> NoRun] /\ lock' = None
      /\ era' = [e \in Erasers |-> NoErasure]
      /\ dial' = [c \in Contacts |-> "idle"]
      /\ racing' = {} /\ skipped' = {}
      /\ todo' = Scripts
      /\ owed' = [dnc |-> {n \in dnc : copy.dnc[n] = added[n] \/ n \in b.dnc},
                  log |-> b.log \cup copy.log]
      /\ UNCHANGED <<rest, clock, backup, copy>>
  BY DEF Restore
<1>1. DataTypeOK'
  BY DEF RestoreTypes, LifecycleTypeOK, DataTypeOK, BackupOK
<1>2. RunTypeOK'
  <2>1. NoRun \in [pc : {"idle", "select", "apply"}, step : 1 .. Len(Steps), ids : SUBSET Contacts]
    BY DEF NoRun, Steps
  <2> QED BY <2>1, LifecycleAssumption DEF RunTypeOK, NoRun, None
<1>3. EraTypeOK'
  BY DEF EraTypeOK, NoErasure
<1>4. count' \in [Counts -> Nat]
  BY DEF Bump, Counts, RestoreTypes, ListTypeOK
<1>5. added' \in [Numbers -> Nat] /\ removed' \in [Numbers -> Nat]
  BY DEF RestoreTypes, BackupOK
<1>6. owed' \in [dnc : SUBSET Numbers, log : SUBSET Numbers]
  BY DEF RestoreTypes, LifecycleTypeOK, DataTypeOK, BackupOK, ListTypeOK
<1>7. ListTypeOK' /\ BackupOK'
  BY <1>4, <1>5, <1>6 DEF RestoreTypes, ListTypeOK, BackupOK
<1> QED BY <1>1, <1>2, <1>3, <1>7 DEF RestoreTypes, LifecycleTypeOK

\* reapply_erasures keeps all types.
LEMMA ReapplyTypes ==
  ASSUME RestoreTypes, Reapply
  PROVE  RestoreTypes'
<1>1. PICK free \in SUBSET Contacts, new \in SUBSET Contacts :
        Scrub(free) /\ rest' = rest \cup new
  BY DEF Reapply, Reapplied
<1>2. UNCHANGED <<analysing, closed, log, held, run, lock, era, dial, racing, count,
                  dnc, clock, added, removed, backup, copy, owed>>
  BY DEF Reapply, listVars
<1>3. content' \in [Contacts -> SUBSET Kinds]
  BY <1>1 DEF Scrub, RestoreTypes, LifecycleTypeOK, DataTypeOK
<1>4. purged' \subseteq Contacts /\ live' \subseteq Contacts /\ rest' \subseteq Contacts
  BY <1>1 DEF Scrub, RestoreTypes, LifecycleTypeOK, DataTypeOK
<1>5. LifecycleTypeOK'
  BY <1>2, <1>3, <1>4 DEF RestoreTypes, LifecycleTypeOK, DataTypeOK, RunTypeOK, EraTypeOK
<1> QED BY <1>2, <1>5 DEF RestoreTypes, ListTypeOK, BackupOK

\* Every step keeps all types.
LEMMA TypesStep ==
  ASSUME RestoreTypes, [RestoreNext]_allVars
  PROVE  RestoreTypes'
<1>1. CASE UNCHANGED allVars
  BY <1>1 DEF allVars, vars, dataVars, restoreVars, RestoreTypes, LifecycleTypeOK, DataTypeOK,
              RunTypeOK, EraTypeOK, ListTypeOK, BackupOK
<1> QED BY <1>1, WorkTypes, ListStepTypes, RestoreStepTypes, ReapplyTypes DEF RestoreNext, ListStep

-----------------------------------------------------------------------------
(* Holds. *)

\* The steps of DataLifecycle preserve HoldInv: candidates are not under
\* hold, a hold set later is racing, an erasure checks the holds.
LEMMA HoldStep ==
  ASSUME RestoreTypes, HoldInv, LifecycleNext
  PROVE  HoldInv'
<1>1. ASSUME NEW r \in Runs, StartRun(r) \/ Select(r) \/ Apply(r) \/ StopRun(r)
      PROVE  HoldInv'
  <2>1. UNCHANGED <<held, era, racing>>
    BY <1>1 DEF StartRun, Select, Apply, StopRun
  <2>2. \A q \in Runs : run'[q].ids \subseteq run[q].ids \/ \A c \in run'[q].ids : ~Held(c)
    <3>1. run \in [Runs -> [pc : {"idle", "select", "apply"}, step : 1 .. Len(Steps), ids : SUBSET Contacts]]
      BY DEF RestoreTypes, LifecycleTypeOK, RunTypeOK
    <3>2. CASE StartRun(r)
      BY <3>1, <3>2 DEF StartRun
    <3>3. CASE Apply(r)
      BY <3>1, <3>3 DEF Apply
    <3>4. CASE EndRun(r)
      BY <3>1, <3>4 DEF EndRun, NoRun
    <3>5. CASE Select(r) /\ ~EndRun(r)
      <4>1. \A step : \A c \in Candidates(step) : ~Held(c)
        BY DEF Candidates
      <4>2. \/ \E ids : /\ \A c \in ids : ~Held(c)
                        /\ run' = [run EXCEPT ![r] = [@ EXCEPT !.pc = "apply", !.ids = ids]]
            \/ run' = [run EXCEPT ![r].step = @ + 1]
        BY <3>5, <4>1 DEF Select
      <4>3. ASSUME NEW ids, \A c \in ids : ~Held(c),
                   run' = [run EXCEPT ![r] = [@ EXCEPT !.pc = "apply", !.ids = ids]]
            PROVE  \A q \in Runs : run'[q].ids = run[q].ids \/ run'[q].ids = ids
        BY <3>1, <4>3
      <4>4. ASSUME run' = [run EXCEPT ![r].step = @ + 1]
            PROVE  \A q \in Runs : run'[q].ids = run[q].ids
        BY <3>1, <4>4
      <4>5. CASE run' = [run EXCEPT ![r].step = @ + 1]
        BY <4>4, <4>5
      <4>6. ASSUME NEW ids, \A c \in ids : ~Held(c),
                   run' = [run EXCEPT ![r] = [@ EXCEPT !.pc = "apply", !.ids = ids]]
            PROVE  \A q \in Runs : run'[q].ids \subseteq run[q].ids \/ \A c \in run'[q].ids : ~Held(c)
        <5>1. \A q \in Runs : run'[q].ids = run[q].ids \/ run'[q].ids = ids
          BY <4>3, <4>6
        <5> QED BY <4>6, <5>1
      <4> QED BY <4>2, <4>5, <4>6
    <3> QED BY <1>1, <3>2, <3>3, <3>4, <3>5 DEF StopRun
  <2> QED BY <2>1, <2>2 DEF HoldInv, Held
<1>2. ASSUME NEW x, SetHold(x)
      PROVE  HoldInv'
  <2>1. UNCHANGED <<run, era>>
    BY <1>2 DEF SetHold
  <2>2. \A c \in Contacts : Held(c)' /\ (Held(c) => c \in racing) /\ c \in Chosen => c \in racing'
    BY <1>2 DEF SetHold, Held
  <2>3. \A r \in Runs : run[r].ids \subseteq Chosen /\ run[r].ids \subseteq Contacts
    BY DEF Chosen, RestoreTypes, LifecycleTypeOK, RunTypeOK
  <2>4. \A e \in Erasers : era[e].rows \subseteq Chosen /\ era[e].rows \subseteq Contacts
    BY DEF Chosen, LockedRows, RestoreTypes, LifecycleTypeOK, EraTypeOK
  <2> QED BY <2>1, <2>2, <2>3, <2>4 DEF HoldInv
<1>3. ASSUME NEW e \in Erasers, EraseCheck(e) \/ EraseCommit(e) \/ \E n \in Numbers : EraseLock(e, n)
      PROVE  HoldInv'
  <2>1. UNCHANGED <<held, run, racing>>
    BY <1>3 DEF EraseCheck, EraseCommit, EraseLock
  <2>2. \A f \in Erasers : \/ era'[f] = era[f]
                           \/ era'[f].pc # "scrub"
                           \/ era'[f].rows = era[f].rows /\ \A c \in era[f].rows : ~Held(c)
    BY <1>3 DEF EraseCheck, EraseCommit, EraseLock, NoErasure, RestoreTypes, LifecycleTypeOK, EraTypeOK
  <2> QED BY <2>1, <2>2 DEF HoldInv, Held
<1>4. CASE UNCHANGED <<held, run, era, racing>>
  BY <1>4 DEF HoldInv, Held
<1> QED BY <1>1, <1>2, <1>3, <1>4
        DEF LifecycleNext, DialCheck, DialClaim, DialRequest, CallEnds, AnalysisEnds, CallWrites,
            CloseCampaign

\* Every step preserves HoldInv.
LEMMA HoldNext ==
  ASSUME RestoreTypes, HoldInv, [RestoreNext]_allVars
  PROVE  HoldInv'
<1>1. CASE Work
  BY <1>1, HoldStep DEF Work
<1>2. CASE Restore
  BY <1>2 DEF Restore, HoldInv, NoRun, NoErasure
<1>3. CASE ListStep \/ Reapply \/ UNCHANGED allVars
  <2>1. UNCHANGED <<held, run, era, racing>>
    BY <1>3, ListStepFrame DEF Reapply, allVars, vars
  <2> QED BY <2>1 DEF HoldInv, Held
<1> QED BY <1>1, <1>2, <1>3 DEF RestoreNext, ListStep

\* Data a step destroys is that of a batch, of an erasure or of reapply_erasures,
\* or a backup takes the place of the database.
LEMMA DestroyedOnPurpose ==
  ASSUME RestoreTypes, HoldInv, RestoreNext, NEW c \in Contacts, Destroys(c), Held(c), ~Restoring
  PROVE  c \in racing
<1>1. ASSUME NEW r \in Runs, Apply(r)
      PROVE  c \in run[r].ids
  BY <1>1 DEF Apply, Destroys
<1>2. ASSUME NEW e \in Erasers, EraseCommit(e)
      PROVE  c \in era[e].rows /\ era[e].pc = "scrub"
  BY <1>2 DEF EraseCommit, Scrub, Destroys
<1>3. ~Reapply
  <2> SUFFICES ASSUME Reapply PROVE FALSE
    OBVIOUS
  <2>1. PICK free : Scrub(free) /\ \A d \in free : ~Held(d)
    BY DEF Reapply, Reapplied
  <2> QED BY <2>1 DEF Scrub, Destroys
<1>4. ~Restore
  BY DEF Restore, Restoring, Bump, RestoreTypes, ListTypeOK, Counts
<1>5. ~UNCHANGED <<purged, content>>
  BY DEF Destroys
<1>6. ~ListStep
  BY <1>5, ListStepFrame
<1>7. ASSUME NEW d \in Contacts, NEW k, CallWrites(d, k) \/ AnalysisEnds(d)
      PROVE  FALSE
  BY <1>7 DEF CallWrites, AnalysisEnds, Destroys, RestoreTypes, LifecycleTypeOK, DataTypeOK
<1>8. LifecycleNext
  BY <1>3, <1>4, <1>6 DEF RestoreNext, ListStep, Work
<1>9. \/ \E r \in Runs : Apply(r)
      \/ \E e \in Erasers : EraseCommit(e)
  BY <1>5, <1>7, <1>8
     DEF LifecycleNext, StartRun, Select, StopRun, SetHold, EraseCheck, EraseLock, DialCheck,
         DialClaim, DialRequest, CallEnds, CloseCampaign, dataVars
<1> QED BY <1>1, <1>2, <1>9 DEF HoldInv

-----------------------------------------------------------------------------
(* Erasure. *)

\* Every step preserves RowsInv: only a restore takes from the purged.
LEMMA RowsStep ==
  ASSUME RestoreTypes, RowsInv, [RestoreNext]_allVars
  PROVE  RowsInv'
<1>1. CASE Restore
  BY <1>1 DEF Restore, RowsInv, NoErasure
<1>2. ASSUME UNCHANGED era, purged \subseteq purged'
      PROVE  RowsInv'
  BY <1>2 DEF RowsInv
<1>3. CASE ListStep \/ UNCHANGED allVars
  BY <1>2, <1>3, ListStepFrame DEF allVars, vars, dataVars
<1>4. CASE Reapply
  BY <1>2, <1>4 DEF Reapply, Scrub
<1>5. ASSUME NEW e \in Erasers, EraseCheck(e) \/ EraseCommit(e)
      PROVE  RowsInv'
  <2>1. \A f \in Erasers : \/ era'[f].pc = "idle"
                           \/ /\ era[f].pc # "idle"
                              /\ era'[f].rows = era[f].rows /\ era'[f].number = era[f].number
    BY <1>5 DEF EraseCheck, EraseCommit, NoErasure, RestoreTypes, LifecycleTypeOK, EraTypeOK
  <2>2. purged \subseteq purged'
    BY <1>5 DEF EraseCheck, EraseCommit, Scrub, dataVars
  <2> QED BY <2>1, <2>2 DEF RowsInv
<1>6. ASSUME NEW e \in Erasers, NEW n \in Numbers, EraseLock(e, n)
      PROVE  RowsInv'
  <2>1. \A f \in Erasers : \/ era'[f] = era[f]
                           \/ era'[f].rows = ContactsOf(n) /\ era'[f].number = n
    BY <1>6 DEF EraseLock, RestoreTypes, LifecycleTypeOK, EraTypeOK
  <2>2. purged' = purged
    BY <1>6 DEF EraseLock, dataVars
  <2> QED BY <2>1, <2>2 DEF RowsInv, ContactsOf
<1>7. CASE Work
  <2>1. ASSUME NEW r \in Runs, Apply(r)
        PROVE  UNCHANGED era /\ purged \subseteq purged'
    BY <2>1 DEF Apply
  <2> QED BY <1>2, <1>5, <1>6, <1>7, <2>1
          DEF Work, LifecycleNext, StartRun, Select, StopRun, SetHold, DialCheck, DialClaim,
              DialRequest, CallEnds, AnalysisEnds, CallWrites, CloseCampaign, dataVars
<1> QED BY <1>1, <1>3, <1>4, <1>7 DEF RestoreNext, ListStep

\* An erased contact stays erased while the system works, and an erasure that
\* commits erases every contact of its number.
LEMMA ErasedStays ==
  ASSUME RestoreTypes, RowsInv, LifecycleNext, NEW c \in Contacts,
         Erased(c) \/ NumberOf[c] \in log' \ log
  PROVE  Erased(c)'
<1> USE DEF RestoreTypes, LifecycleTypeOK, DataTypeOK
<1>1. ASSUME NEW e \in Erasers, EraseCommit(e)
      PROVE  Erased(c)'
  <2>1. Erased(c) \/ NumberOf[c] = era[e].number
    BY <1>1 DEF EraseCommit
  <2>2. UNCHANGED <<dial, analysing>> /\ rest \subseteq rest'
    BY <1>1 DEF EraseCommit
  <2>3. purged' = purged \cup era[e].rows /\ content'[c] = IF c \in era[e].rows THEN {} ELSE content[c]
    BY <1>1 DEF EraseCommit, Scrub
  <2>4. CASE Erased(c)
    BY <2>2, <2>3, <2>4 DEF Erased
  <2>5. CASE NumberOf[c] = era[e].number
    <3>1. c \in purged'
      BY <1>1, <2>3, <2>5 DEF EraseCommit, RowsInv
    <3>2. Leftover(c, era[e].rows) => c \in rest'
      BY <1>1, <2>5 DEF EraseCommit
    <3> QED BY <2>2, <2>3, <3>1, <3>2 DEF Erased, Leftover
  <2> QED BY <2>1, <2>4, <2>5
<1>2. ASSUME NEW r \in Runs, Apply(r)
      PROVE  Erased(c)'
  <2>1. purged \subseteq purged' /\ content'[c] \subseteq content[c]
    BY <1>2 DEF Apply
  <2> QED BY <1>2, <2>1 DEF Erased, Apply
<1>3. ASSUME NEW d \in Contacts, DialCheck(d) \/ DialClaim(d) \/ DialRequest(d)
      PROVE  Erased(c)'
  <2>1. dial[c] = "idle" /\ c \in purged => dial'[c] = "idle"
    BY <1>3 DEF DialCheck, DialClaim, DialRequest
  <2>2. UNCHANGED <<purged, content, analysing, rest, log>>
    BY <1>3 DEF DialCheck, DialClaim, DialRequest, dataVars
  <2> QED BY <2>1, <2>2 DEF Erased
<1>4. ASSUME NEW d \in Contacts, CallEnds(d)
      PROVE  Erased(c)'
  <2>1. \/ dial'[c] = dial[c] /\ (c \in analysing' => c \in analysing)
        \/ dial[c] = "calling" /\ dial'[c] = "idle"
    <3>1. CASE c = d
      BY <1>4, <3>1 DEF CallEnds
    <3>2. CASE c # d
      BY <1>4, <3>2 DEF CallEnds
    <3> QED BY <3>1, <3>2
  <2> QED BY <1>4, <2>1 DEF CallEnds, Erased
<1>5. ASSUME NEW d \in Contacts, NEW k, CallWrites(d, k)
      PROVE  Erased(c)'
  <2>1. content'[c] = content[c] \/ dial[c] # "idle"
    BY <1>5 DEF CallWrites
  <2> QED BY <1>5, <2>1 DEF CallWrites, Erased
<1>6. ASSUME NEW d \in Contacts, AnalysisEnds(d)
      PROVE  Erased(c)'
  <2>1. content'[c] = content[c] \/ c \in analysing
    BY <1>6 DEF AnalysisEnds
  <2> QED BY <1>6, <2>1 DEF AnalysisEnds, Erased
<1>7. CASE UNCHANGED <<purged, content, analysing, rest, dial, log>>
  BY <1>7 DEF Erased
<1> QED BY <1>1, <1>2, <1>3, <1>4, <1>5, <1>6, <1>7
        DEF LifecycleNext, StartRun, Select, StopRun, SetHold, EraseCheck, EraseLock, CloseCampaign,
            dataVars

\* Every step preserves ErasedInv.
LEMMA ErasedStep ==
  ASSUME RestoreTypes, RowsInv, ErasedInv, [RestoreNext]_allVars
  PROVE  ErasedInv'
<1>1. CASE Work
  <2>1. UNCHANGED <<todo, skipped>>
    BY <1>1 DEF Work, restoreVars
  <2>2. ASSUME "reapply" \notin todo, NEW c \in Contacts \ skipped, NumberOf[c] \in log'
        PROVE  Erased(c)'
    BY <1>1, <2>2, ErasedStays DEF Work, ErasedInv
  <2> QED BY <2>1, <2>2 DEF ErasedInv
<1>2. CASE Restore
  BY <1>2 DEF Restore, Scripts, ErasedInv
<1>3. CASE Reapply
  <2> DEFINE matched == {c \in Contacts \ purged : NumberOf[c] \in log}
             free == Reapplied(matched)
  <2>1. /\ "log" \notin todo' /\ skipped' = matched \ free /\ Scrub(free)
        /\ rest' = rest \cup {c \in Contacts : NumberOf[c] \in log /\ Leftover(c, free)}
        /\ UNCHANGED <<log, dial, analysing>>
    BY <1>3 DEF Reapply
  <2>2. ASSUME NEW c \in Contacts \ skipped', NumberOf[c] \in log
        PROVE  Erased(c)'
    <3>1. c \in purged \/ c \in free
      BY <2>1, <2>2
    <3>2. c \in purged' /\ content'[c] = IF c \in free THEN {} ELSE content[c]
      BY <2>1, <3>1 DEF Scrub
    <3>3. Leftover(c, free) => c \in rest'
      BY <2>1, <2>2
    <3> QED BY <2>1, <3>2, <3>3 DEF Erased, Leftover
  <2> QED BY <2>1, <2>2 DEF ErasedInv
<1>4. CASE ReconcileErasures
  BY <1>4 DEF ReconcileErasures, ErasedInv
<1>5. CASE (ListStep /\ ~ReconcileErasures) \/ UNCHANGED allVars
  <2>1. UNCHANGED <<log, skipped, purged, content, dial, analysing, rest>>
    BY <1>5, ListStepFrame
    DEF ListStep, AddSuppression, RemoveSuppression, TakeBackup, Export, ReconcileDnc,
        allVars, vars, dataVars, restoreVars
  <2>2. ("reapply" \in todo' <=> "reapply" \in todo) /\ ("log" \in todo' <=> "log" \in todo)
    BY <1>5 DEF ListStep, AddSuppression, RemoveSuppression, TakeBackup, Export, ReconcileDnc,
                allVars, restoreVars
  <2> QED BY <2>1, <2>2 DEF ErasedInv, Erased
<1> QED BY <1>1, <1>2, <1>3, <1>4, <1>5 DEF RestoreNext, ListStep

-----------------------------------------------------------------------------
(* The do-not-call list. *)

\* Numbers that enter the list now keep the times in order.
LEMMA StampedInTime ==
  ASSUME RestoreTypes, ListInv, NEW new \in SUBSET Numbers,
         dnc' = dnc \cup new, Stamped(new), UNCHANGED <<removed, backup>>
  PROVE  /\ Timely(dnc, added, removed)'
         /\ (\A b \in backup : /\ Timely(b.dnc, b.added, b.removed)
                               /\ \A n \in Numbers : b.removed[n] <= removed[n])'
<1>1. clock \in Nat /\ added \in [Numbers -> Nat] /\ removed \in [Numbers -> Nat]
  BY DEF RestoreTypes, ListTypeOK
<1>2. clock' \in Nat /\ clock <= clock' /\ (new # {} => clock' = clock + 1)
  BY <1>1 DEF Stamped
<1>3. ASSUME NEW n \in Numbers
      PROVE  /\ n \in dnc' => added'[n] > 0 /\ removed[n] <= added'[n]
             /\ added'[n] <= clock' /\ removed[n] <= clock'
  <2>1. /\ n \in dnc => added[n] > 0 /\ removed[n] <= added[n]
        /\ added[n] <= clock /\ removed[n] <= clock /\ added[n] \in Nat /\ removed[n] \in Nat
    BY <1>1 DEF ListInv, Timely
  <2>2. CASE n \in new
    <3>1. added'[n] = clock' /\ clock' = clock + 1
      BY <1>2, <2>2 DEF Stamped
    <3> QED BY <1>1, <2>1, <3>1
  <2>3. CASE n \notin new
    <3>1. added'[n] = added[n] /\ (n \in dnc' <=> n \in dnc)
      BY <2>3 DEF Stamped
    <3> QED BY <1>1, <1>2, <2>1, <3>1
  <2> QED BY <2>2, <2>3
<1>4. ASSUME NEW b \in backup, NEW n \in Numbers
      PROVE  /\ n \in b.dnc => b.added[n] > 0 /\ b.removed[n] <= b.added[n]
             /\ b.added[n] <= clock' /\ b.removed[n] <= clock' /\ b.removed[n] <= removed[n]
  <2>1. /\ n \in b.dnc => b.added[n] > 0 /\ b.removed[n] <= b.added[n]
        /\ b.added[n] <= clock /\ b.removed[n] <= clock /\ b.removed[n] <= removed[n]
        /\ b.added[n] \in Nat /\ b.removed[n] \in Nat
    BY DEF ListInv, Timely, RestoreTypes, BackupOK
  <2> QED BY <1>1, <1>2, <2>1
<1> QED BY <1>3, <1>4 DEF Timely

\* The steps of DataLifecycle only add to the list and to the log.
LEMMA ListsGrow ==
  ASSUME LifecycleNext
  PROVE  dnc \subseteq dnc' /\ log \subseteq log'
  BY DEF LifecycleNext, StartRun, Select, Apply, StopRun, SetHold, EraseLock, EraseCheck, EraseCommit,
         DialCheck, DialClaim, DialRequest, CallEnds, AnalysisEnds, CallWrites, CloseCampaign, dataVars

\* Steps that keep what the copies knew, and lose nothing.
LEMMA OwedKept ==
  ASSUME OwedInv, UNCHANGED <<owed, todo, removed>>, todo = {} \/ UNCHANGED copy,
         dnc \subseteq dnc', log \subseteq log'
  PROVE  OwedInv'
  BY DEF OwedInv, Missing

\* Every step preserves ListInv.
LEMMA ListStepInv ==
  ASSUME RestoreTypes, ListInv, [RestoreNext]_allVars
  PROVE  ListInv'
<1>1. OwedInv
  BY DEF ListInv, OwedInv
<1>2. ASSUME NEW new \in SUBSET Numbers, dnc' = dnc \cup new, Stamped(new),
             UNCHANGED <<removed, backup>>, OwedInv'
      PROVE  ListInv'
  BY <1>2, StampedInTime DEF ListInv, OwedInv
<1>3. CASE Work
  <2>1. dnc \subseteq dnc' /\ log \subseteq log'
    BY <1>3, ListsGrow DEF Work
  <2>2. dnc' \ dnc \in SUBSET Numbers /\ dnc' = dnc \cup (dnc' \ dnc)
    BY <1>3, <2>1, DataTypeStep DEF Work, RestoreTypes, DataTypeOK
  <2>3. UNCHANGED <<removed, backup, owed, todo, copy>> /\ Stamped(dnc' \ dnc)
    BY <1>3 DEF Work, restoreVars
  <2>4. OwedInv'
    BY <1>1, <2>1, <2>3, OwedKept
  <2> QED BY <1>2, <2>2, <2>3, <2>4
<1>4. ASSUME NEW numbers \in SUBSET Numbers, AddSuppression(numbers)
      PROVE  ListInv'
  <2>1. OwedInv'
    BY <1>1, <1>4, OwedKept DEF AddSuppression, restoreVars
  <2> QED BY <1>2, <1>4, <2>1 DEF AddSuppression, restoreVars
<1>5. ASSUME NEW m \in Numbers, RemoveSuppression(m)
      PROVE  ListInv'
  <2>1. clock \in Nat /\ added \in [Numbers -> Nat] /\ removed \in [Numbers -> Nat]
    BY DEF RestoreTypes, ListTypeOK
  <2>2. /\ dnc' = dnc \ {m} /\ clock' = clock + 1 /\ UNCHANGED <<backup, copy, todo, log>>
        /\ added' = [added EXCEPT ![m] = 0] /\ removed' = [removed EXCEPT ![m] = clock + 1]
        /\ owed' = [owed EXCEPT !.dnc = @ \ {m}]
    BY <1>5 DEF RemoveSuppression
  <2>3. ASSUME NEW n \in Numbers
        PROVE  /\ n \in dnc' => added'[n] > 0 /\ removed'[n] <= added'[n]
               /\ added'[n] <= clock' /\ removed'[n] <= clock' /\ removed[n] <= removed'[n]
               /\ removed'[n] \in Nat
    <3>1. /\ n \in dnc => added[n] > 0 /\ removed[n] <= added[n]
          /\ added[n] <= clock /\ removed[n] <= clock /\ added[n] \in Nat /\ removed[n] \in Nat
      BY <2>1 DEF ListInv, Timely
    <3>2. IF n = m THEN added'[n] = 0 /\ removed'[n] = clock + 1
          ELSE added'[n] = added[n] /\ removed'[n] = removed[n]
      BY <2>1, <2>2
    <3> QED BY <2>1, <2>2, <3>1, <3>2
  <2>4. ASSUME NEW b \in backup, NEW n \in Numbers
        PROVE  /\ n \in b.dnc => b.added[n] > 0 /\ b.removed[n] <= b.added[n]
               /\ b.added[n] <= clock' /\ b.removed[n] <= clock' /\ b.removed[n] <= removed'[n]
    <3>1. /\ n \in b.dnc => b.added[n] > 0 /\ b.removed[n] <= b.added[n]
          /\ b.added[n] <= clock /\ b.removed[n] <= clock /\ b.removed[n] <= removed[n]
          /\ b.added[n] \in Nat /\ b.removed[n] \in Nat /\ removed[n] \in Nat
      BY <2>1 DEF ListInv, Timely, RestoreTypes, BackupOK
    <3> QED BY <2>1, <2>2, <2>3, <3>1
  <2>5. OwedInv'
    <3>1. owed'.dnc = owed.dnc \ {m} /\ owed'.log = owed.log
      BY <2>2 DEF RestoreTypes, ListTypeOK
    <3>2. \A n \in Numbers \ {m} : removed'[n] = removed[n]
      BY <2>1, <2>2
    <3>3. owed.dnc \subseteq Numbers
      BY DEF RestoreTypes, ListTypeOK
    <3> QED BY <1>1, <2>2, <3>1, <3>2, <3>3 DEF OwedInv, Missing
  <2> QED BY <2>2, <2>3, <2>4, <2>5 DEF ListInv, OwedInv, Timely
<1>6. CASE TakeBackup
  <2>1. UNCHANGED <<dnc, log, added, removed, clock, copy, todo, owed>>
    BY <1>6 DEF TakeBackup, vars, dataVars
  <2>2. \A b \in backup' : b.dnc = dnc /\ b.added = added /\ b.removed = removed
    BY <1>6 DEF TakeBackup, Snapshot
  <2>3. \A n \in Numbers : removed[n] \in Nat
    BY DEF RestoreTypes, ListTypeOK
  <2>4. Timely(dnc, added, removed)'
    BY <2>1 DEF ListInv, Timely
  <2>5. (\A b \in backup : /\ Timely(b.dnc, b.added, b.removed)
                           /\ \A n \in Numbers : b.removed[n] <= removed[n])'
    BY <2>1, <2>2, <2>3 DEF ListInv, Timely
  <2>6. OwedInv'
    BY <1>1, <2>1, OwedKept
  <2> QED BY <2>4, <2>5, <2>6 DEF ListInv, OwedInv
<1>7. ASSUME NEW kind, Export(kind)
      PROVE  ListInv'
  <2>1. UNCHANGED <<dnc, log, added, removed, clock, backup, todo, owed>> /\ todo = {}
    BY <1>7 DEF Export, vars, dataVars
  <2>2. OwedInv'
    BY <1>1, <2>1, OwedKept
  <2> QED BY <2>1, <2>2 DEF ListInv, OwedInv, Timely
<1>8. CASE ReconcileDnc
  <2> DEFINE back == {n \in Numbers : Missing(n)}
  <2>1. /\ dnc' = dnc \cup back /\ Stamped(back) /\ todo' = todo \ {"dnc"}
        /\ UNCHANGED <<removed, backup, log, copy, owed>>
    BY <1>8 DEF ReconcileDnc
  <2>2. owed.dnc \subseteq Numbers
    BY DEF RestoreTypes, ListTypeOK
  <2>3. OwedInv'
    BY <1>1, <2>1, <2>2 DEF OwedInv
  <2> HIDE DEF back
  <2>4. back \in SUBSET Numbers
    BY DEF back
  <2> QED BY <1>2, <2>1, <2>3, <2>4
<1>9. CASE ReconcileErasures
  <2>1. /\ UNCHANGED <<dnc, added, removed, clock, backup, copy, owed>>
        /\ log' = log \cup copy.log /\ todo' = todo \ {"log"}
    BY <1>9 DEF ReconcileErasures, listVars
  <2>2. OwedInv'
    BY <1>1, <2>1 DEF OwedInv, Missing
  <2> QED BY <2>1, <2>2 DEF ListInv, OwedInv, Timely
<1>10. CASE Reapply
  <2>1. UNCHANGED <<dnc, log, added, removed, clock, backup, copy, owed>> /\ todo' = todo \ {"reapply"}
    BY <1>10 DEF Reapply, listVars
  <2>2. OwedInv'
    BY <1>1, <2>1 DEF OwedInv, Missing
  <2> QED BY <2>1, <2>2 DEF ListInv, OwedInv, Timely
<1>11. CASE Restore
  <2>1. PICK b \in backup :
          /\ dnc' = b.dnc /\ log' = b.log /\ added' = b.added /\ removed' = b.removed
          /\ todo' = Scripts
          /\ owed' = [dnc |-> {n \in dnc : copy.dnc[n] = added[n] \/ n \in b.dnc},
                      log |-> b.log \cup copy.log]
          /\ UNCHANGED <<clock, backup, copy>>
    BY <1>11 DEF Restore
  <2>2. Timely(dnc, added, removed)'
    BY <2>1 DEF ListInv, Timely
  <2>3. \A a \in backup : a = b
    BY DEF RestoreTypes, BackupOK
  <2>4. (\A a \in backup : /\ Timely(a.dnc, a.added, a.removed)
                           /\ \A n \in Numbers : a.removed[n] <= removed[n])'
    BY <2>1, <2>3 DEF ListInv, Timely, RestoreTypes, BackupOK
  <2>5. OwedInv'
    <3>1. ASSUME NEW n \in owed'.dnc, n \notin dnc'
          PROVE  Missing(n)'
      <4>1. n \in dnc /\ n \in Numbers /\ copy.dnc[n] = added[n]
        BY <2>1, <3>1 DEF RestoreTypes, LifecycleTypeOK, DataTypeOK
      <4>2. added[n] > 0 /\ removed[n] <= added[n] /\ b.removed[n] <= removed[n]
        BY <4>1 DEF ListInv, Timely
      <4>3. added[n] \in Nat /\ removed[n] \in Nat /\ b.removed[n] \in Nat
        BY <4>1 DEF RestoreTypes, ListTypeOK, BackupOK
      <4> QED BY <2>1, <3>1, <4>1, <4>2, <4>3 DEF Missing
    <3> QED BY <2>1, <3>1 DEF OwedInv, Scripts
  <2> QED BY <2>2, <2>4, <2>5 DEF ListInv, OwedInv
<1>12. CASE UNCHANGED allVars
  <2>1. UNCHANGED <<dnc, log, added, removed, clock, backup, copy, owed, todo>>
    BY <1>12 DEF allVars, vars, dataVars, restoreVars
  <2> QED BY <2>1 DEF ListInv, OwedInv, Timely, Missing
<1> QED BY <1>3, <1>4, <1>5, <1>6, <1>7, <1>8, <1>9, <1>10, <1>11, <1>12 DEF RestoreNext

-----------------------------------------------------------------------------
(* The theorems. *)

\* The invariant holds initially.
LEMMA RestoreInitially == RestoreInit => RestoreInv
<1> SUFFICES ASSUME RestoreInit PROVE RestoreInv
  OBVIOUS
<1> USE DEF RestoreInit, LifecycleInit
<1>1. DataTypeOK
  BY DEF DataTypeOK
<1>2. RunTypeOK
  <2>1. NoRun \in [pc : {"idle", "select", "apply"}, step : 1 .. Len(Steps), ids : SUBSET Contacts]
    BY DEF NoRun, Steps
  <2> QED BY <2>1, LifecycleAssumption DEF RunTypeOK, NoRun, None
<1>3. EraTypeOK
  BY DEF EraTypeOK, NoErasure
<1>4. ListTypeOK /\ BackupOK
  BY DEF ListTypeOK, BackupOK, Counts
<1>5. HoldInv /\ RowsInv /\ ErasedInv /\ ListInv
  BY DEF HoldInv, RowsInv, ErasedInv, ListInv, OwedInv, Timely, NoRun, NoErasure
<1> QED BY <1>1, <1>2, <1>3, <1>4, <1>5 DEF RestoreInv, RestoreTypes, LifecycleTypeOK

\* The inductive invariant holds in every reachable state.
THEOREM RestoreInvariant == RestoreSpec => []RestoreInv
<1>1. RestoreInv /\ [RestoreNext]_allVars => RestoreInv'
  BY TypesStep, HoldNext, RowsStep, ErasedStep, ListStepInv DEF RestoreInv
<1> QED BY <1>1, RestoreInitially, PTL DEF RestoreSpec

\* The type invariant: the advisory lock keeps retention runs apart, the row
\* locks keep erasures apart (retention.py, run_retention; erasure.py, erase).
THEOREM LifecycleTypes == RestoreSpec => []LifecycleTypeOK
<1>1. RestoreInv => LifecycleTypeOK
  BY DEF RestoreInv, RestoreTypes
<1> QED BY <1>1, RestoreInvariant, PTL

\* A legal hold keeps retention, erasure and reapply_erasures away from the
\* contact, except the one batch or erasure that had already chosen it.
THEOREM HoldsProtect == RestoreSpec => HoldProtects
<1>1. RestoreInv /\ [RestoreNext]_allVars =>
        [\A c \in Contacts : Destroys(c) /\ Held(c) /\ ~Restoring => c \in racing]_allVars
  BY DestroyedOnPurpose DEF RestoreInv
<1> QED BY <1>1, RestoreInvariant, PTL DEF RestoreSpec, HoldProtects

\* Whoever is in the erasure log is scrubbed in every campaign, also after
\* any number of restores and their scripts.
THEOREM ErasureCompletes == RestoreSpec => []ErasureIsComplete
<1>1. RestoreInv => ErasureIsComplete
  BY DEF RestoreInv, ErasedInv, Erased, ErasureIsComplete
<1> QED BY <1>1, RestoreInvariant, PTL

\* Nobody is called on a number that an erasure had removed before the
\* provider was asked.
THEOREM ErasedAreNotCalled == RestoreSpec => NoCallAfterErasure
<1>1. RestoreInv /\ [RestoreNext]_allVars =>
        [\A c \in Contacts \ skipped :
           dial[c] # "calling" /\ dial'[c] = "calling" => NumberOf[c] \notin log]_allVars
  <2> SUFFICES ASSUME RestoreInv, RestoreNext, NEW c \in Contacts \ skipped,
                      dial[c] # "calling", dial'[c] = "calling"
               PROVE  NumberOf[c] \notin log
    OBVIOUS
  <2>1. dial' # dial /\ ~ListStep
    BY ListStepFrame
  <2>2. ~Restore /\ ~Reapply
    BY <2>1 DEF Restore, Reapply
  <2>3. Work
    BY <2>1, <2>2 DEF RestoreNext, ListStep
  <2>4. todo = {} /\ LifecycleNext
    BY <2>1, <2>3 DEF Work
  <2>5. PICK d \in Contacts : DialCheck(d) \/ DialClaim(d) \/ DialRequest(d) \/ CallEnds(d)
    BY <2>1, <2>4
       DEF LifecycleNext, StartRun, Select, Apply, StopRun, SetHold, EraseLock, EraseCheck,
           EraseCommit, AnalysisEnds, CallWrites, CloseCampaign
  <2>6. dial \in [Contacts -> {"idle", "checked", "claimed", "calling"}]
    BY DEF RestoreInv, RestoreTypes, LifecycleTypeOK, DataTypeOK
  <2>7. DialRequest(c)
    BY <2>5, <2>6 DEF DialCheck, DialClaim, DialRequest, CallEnds
  <2>8. c \notin purged
    BY <2>6, <2>7 DEF DialRequest
  <2> QED BY <2>4, <2>8 DEF RestoreInv, ErasedInv, Erased
<1> QED BY <1>1, RestoreInvariant, PTL DEF RestoreSpec, NoCallAfterErasure

\* After the scripts, an opt-out or erasure that the copies or the backup
\* knew is there again, however often the database is restored.
THEOREM OptOutsSurvive == RestoreSpec => []OptOutSurvives
<1>1. RestoreInv => OptOutSurvives
  BY DEF RestoreInv, ListInv, OwedInv, OptOutSurvives
<1> QED BY <1>1, RestoreInvariant, PTL
=============================================================================
