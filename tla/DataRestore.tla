---------------------------- MODULE DataRestore -----------------------------
(***************************************************************************)
(* The data life cycle with a restore of the database.                     *)
(*                                                                         *)
(* A restore brings back people who were erased since the backup and loses *)
(* newer do-not-call entries and erasure log rows.  Secondary copies of    *)
(* the list and of the log are exported separately.  After a restore three *)
(* scripts run, with dialing blocked: reconcile_suppressions for the list  *)
(* and for the log, and reapply_erasures.                                  *)
(***************************************************************************)
EXTENDS DataLifecycle

CONSTANTS MaxEdits, MaxRestores   \* bounds: changes of the do-not-call list, restores

VARIABLES
  clock,           \* time, as far as the do-not-call list tells it: its changes
  added, removed,  \* per number: requested_at of its row (0: none); its newest
                   \* removal in the audit log (0: none)
  backup,          \* the newest database backup, in a set: empty before the first
  copy,            \* the secondary copies: the list with its times, and the log
  todo,            \* scripts still to run after a restore
  owed,            \* history: list and log entries that the copies or the
                   \* backup held when the database was restored
  skipped          \* history: contacts reapply_erasures left for their hold

listVars    == <<dnc, clock, added, removed>>
restoreVars == <<backup, copy, todo, owed, skipped>>
allVars     == <<vars, clock, added, removed, restoreVars>>

Scripts == {"dnc", "log", "reapply"}

-----------------------------------------------------------------------------
(* The do-not-call list. *)

\* Numbers enter the list, now.
Stamped(numbers) ==
  /\ clock' = IF numbers = {} THEN clock ELSE clock + 1
  /\ added' = [n \in Numbers |-> IF n \in numbers THEN clock' ELSE added[n]]

\* insert_if_absent, for one number or the rows of an imported file.
AddSuppression(numbers) ==
  /\ clock < MaxEdits /\ numbers # {} /\ numbers \cap dnc = {}
  /\ dnc' = dnc \cup numbers
  /\ Stamped(numbers)
  /\ UNCHANGED <<purged, live, content, analysing, closed, log, held, run, lock, era, dial,
                 racing, rest, count, removed, restoreVars>>

\* Row deleted, and the removal audited with the number's fingerprint.
RemoveSuppression(n) ==
  /\ clock < MaxEdits /\ n \in dnc
  /\ dnc' = dnc \ {n}
  /\ clock' = clock + 1
  /\ added' = [added EXCEPT ![n] = 0]
  /\ removed' = [removed EXCEPT ![n] = clock']
  /\ owed' = [owed EXCEPT !.dnc = @ \ {n}]
  /\ UNCHANGED <<purged, live, content, analysing, closed, log, held, run, lock, era, dial,
                 racing, rest, count, backup, copy, todo, skipped>>

-----------------------------------------------------------------------------
(* Backup, copies and restore. *)

Snapshot ==
  [purged |-> purged, live |-> live, content |-> content, analysing |-> analysing,
   closed |-> closed, held |-> held, dnc |-> dnc, log |-> log,
   added |-> added, removed |-> removed]

TakeBackup ==
  /\ todo = {} /\ count["restores"] < MaxRestores
  /\ backup' = {Snapshot}
  /\ UNCHANGED <<vars, clock, added, removed, copy, todo, owed, skipped>>

\* export_copy; the two kinds are exported one after the other.
Export(kind) ==
  /\ todo = {} /\ count["restores"] < MaxRestores
  /\ copy' = IF kind = "dnc" THEN [copy EXCEPT !.dnc = added] ELSE [copy EXCEPT !.log = log]
  /\ UNCHANGED <<vars, clock, added, removed, backup, todo, owed, skipped>>

\* Every process stops; nobody is on the phone when the database is back.
Restore == \E b \in backup :
  /\ Bump("restores", MaxRestores)
  /\ purged' = b.purged /\ live' = b.live /\ content' = b.content
  /\ analysing' = b.analysing /\ closed' = b.closed /\ held' = b.held
  /\ dnc' = b.dnc /\ log' = b.log
  /\ added' = b.added /\ removed' = b.removed
  /\ run' = [r \in Runs |-> NoRun] /\ lock' = None
  /\ era' = [e \in Erasers |-> NoErasure]
  /\ dial' = [c \in Contacts |-> "idle"]
  /\ racing' = {} /\ skipped' = {}
  /\ todo' = Scripts
  /\ owed' = [dnc |-> {n \in dnc : copy.dnc[n] = added[n] \/ n \in b.dnc},
              log |-> b.log \cup copy.log]
  /\ UNCHANGED <<rest, clock, backup, copy>>

Bug_Missing(n) == copy.dnc[n] > 0 /\ n \notin dnc /\ removed[n] = 0   \* mutant: any removal counts

\* In the copy and not in the list, unless the audit log has a newer removal.
Missing(n) == copy.dnc[n] > 0 /\ n \notin dnc /\ removed[n] <= copy.dnc[n]

ReconcileDnc ==
  LET back == {n \in Numbers : Missing(n)} IN
  /\ "dnc" \in todo
  /\ dnc' = dnc \cup back
  /\ Stamped(back)
  /\ todo' = todo \ {"dnc"}
  /\ UNCHANGED <<purged, live, content, analysing, closed, log, held, run, lock, era, dial,
                 racing, rest, count, removed, backup, copy, owed, skipped>>

ReconcileErasures ==
  /\ "log" \in todo
  /\ log' = log \cup copy.log
  /\ todo' = todo \ {"log"}
  /\ UNCHANGED <<purged, live, content, analysing, closed, held, run, lock, era, dial,
                 racing, rest, count, listVars, backup, copy, owed, skipped>>

Reapplied(matched) == {c \in matched : ~Held(c)}

\* Every contact that still has its number and is in the log; held ones are
\* left for a human.  Waits for an erasure that has locked one of the rows.
Reapply ==
  LET matched == {c \in Contacts \ purged : NumberOf[c] \in log}
      free    == Reapplied(matched)
  IN
  /\ "reapply" \in todo /\ "log" \notin todo
  /\ free \cap LockedRows = {}
  /\ Scrub(free)
  /\ skipped' = matched \ free
  /\ rest' = rest \cup {c \in Contacts : NumberOf[c] \in log /\ Leftover(c, free)}
  /\ todo' = todo \ {"reapply"}
  /\ UNCHANGED <<analysing, closed, log, held, run, lock, era, dial, racing, count,
                 listVars, backup, copy, owed>>

\* The steps of DataLifecycle go on; until the scripts have run the kill
\* switch is on and no call begins.
Work ==
  /\ LifecycleNext
  /\ todo # {} => dial' = dial
  /\ Stamped(dnc' \ dnc)
  /\ UNCHANGED <<removed, restoreVars>>

-----------------------------------------------------------------------------
RestoreInit ==
  /\ LifecycleInit
  /\ clock = 0 /\ added = [n \in Numbers |-> 0] /\ removed = [n \in Numbers |-> 0]
  /\ backup = {}
  /\ copy = [dnc |-> [n \in Numbers |-> 0], log |-> {}]
  /\ todo = {} /\ skipped = {}
  /\ owed = [dnc |-> {}, log |-> {}]

RestoreNext ==
  \/ Work
  \/ \E numbers \in SUBSET Numbers : AddSuppression(numbers)
  \/ \E n \in Numbers : RemoveSuppression(n)
  \/ TakeBackup \/ Restore
  \/ \E kind \in {"dnc", "log"} : Export(kind)
  \/ ReconcileDnc \/ ReconcileErasures \/ Reapply

RestoreSpec == RestoreInit /\ [][RestoreNext]_allVars

-----------------------------------------------------------------------------
(* Properties. *)

\* The step puts a backup in place of the database.
Restoring == count'["restores"] # count["restores"]

\* Data of contact c that a step destroys.
Destroys(c) == c \in purged' \ purged \/ ~(content[c] \subseteq content'[c])

\* A legal hold keeps retention, erasure and reapply_erasures away from the
\* contact, except the one batch or erasure that had already chosen it when the
\* hold was set (holds.py; retention.py, run_retention; erasure.py, erase).
HoldProtects ==
  [][\A c \in Contacts : Destroys(c) /\ Held(c) /\ ~Restoring => c \in racing]_allVars

\* Whoever is in the erasure log is scrubbed in every campaign, also after a
\* restore has brought them back and the scripts have run, and no content of
\* theirs is left but what a call or an analysis in flight wrote afterwards, or
\* what had lost its number to retention before; contacts under hold at
\* reapply_erasures stay as they are (erasure.py, erase and reapply_erasures).
ErasureIsComplete ==
  todo = {} =>
    \A c \in Contacts \ skipped : NumberOf[c] \in log =>
      c \in purged /\ (content[c] = {} \/ c \in rest)

\* Nobody is called on a number that an erasure had removed before the provider
\* was asked, although eligibility was checked earlier.
NoCallAfterErasure ==
  [][\A c \in Contacts \ skipped :
       dial[c] # "calling" /\ dial'[c] = "calling" => NumberOf[c] \notin log]_allVars

\* After the scripts, an opt-out or an erasure that the copies or the backup
\* knew is on the list or in the log again, unless an administrator removed the
\* number since (reconcile_suppressions.py, reconcile and reconcile_erasures).
OptOutSurvives ==
  /\ "dnc" \notin todo => owed.dnc \subseteq dnc
  /\ "log" \notin todo => owed.log \subseteq log

=============================================================================
