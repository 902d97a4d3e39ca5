--------------------------- MODULE DataLifecycle ----------------------------
(***************************************************************************)
(* What happens to a person's data: retention runs, erasure requests and   *)
(* legal holds, while calls are placed and write content.                  *)
(*                                                                         *)
(* Retention works in batches: it reads the ids of rows that need the      *)
(* action, then applies the action to those ids and commits; a hold can be *)
(* committed in between.  An erasure locks the contact rows of the number, *)
(* checks the holds, scrubs and commits.  DataRestore adds the do-not-call *)
(* list's administration and what a restore of the database does to all    *)
(* this; the specification and the safety properties are there.            *)
(***************************************************************************)
EXTENDS Integers, Sequences, FiniteSets

CONSTANTS
  Contacts, Campaigns, Numbers,
  CampaignOf, NumberOf,   \* of each contact
  Kinds,       \* content classes that occur: "messages", "links", "snapshots", "analysis"
  Enabled,     \* retention steps whose RETENTION_*_DAYS is set
  Batch,       \* retention batch size
  Runs,        \* retention processes
  Erasers,     \* erasure requests served concurrently
  MaxHolds, MaxErasures, MaxCalls, MaxCrashes   \* bounds

ASSUME LifecycleAssumption ==
  /\ CampaignOf \in [Contacts -> Campaigns] /\ NumberOf \in [Contacts -> Numbers]
  /\ Kinds \subseteq {"messages", "links", "snapshots", "analysis"}
  /\ Batch \in Nat \ {0}
  /\ "none" \notin Runs

VARIABLES
  purged, live,  \* contacts: number replaced by a placeholder; status not final
  content,       \* per contact: content classes present
  analysing,     \* contacts with an unfinished analysis
  closed,        \* campaigns completed
  held,          \* contacts and campaigns under legal hold
  dnc, log,      \* numbers on the do-not-call list; in the erasure log
  run, lock,     \* per retention process: its step and batch; the advisory lock
  era,           \* per erasure request: number, locked rows, does it suppress
  dial,          \* per contact: where a worker stands with its next call
  racing,        \* history: contacts put on hold after a batch or an erasure
                 \* had chosen them
  rest,          \* history: contacts erased with a writer in flight, or whose
                 \* number retention had removed while content remained
  count          \* bounded counters

dataVars == <<purged, live, content, analysing, closed, dnc, log>>
vars == <<dataVars, held, run, lock, era, dial, racing, rest, count>>

None  == "none"
Steps == <<"messages", "links", "snapshots", "analysis", "contacts">>

\* A hold on the contact or on its campaign.
HeldBy(holds, c) == c \in holds \/ CampaignOf[c] \in holds
Held(c) == HeldBy(held, c)

\* Mutant: an erasure only looks at campaigns still running.
Bug_ContactsOf(n) == {c \in Contacts : NumberOf[c] = n /\ c \notin purged /\ CampaignOf[c] \notin closed}

ContactsOf(n) == {c \in Contacts : NumberOf[c] = n /\ c \notin purged}

LockedRows == UNION {era[e].rows : e \in Erasers}

Chosen == LockedRows \cup UNION {run[r].ids : r \in Runs}

Bump(name, bound) == count[name] < bound /\ count' = [count EXCEPT ![name] = @ + 1]

-----------------------------------------------------------------------------
(* Retention. *)

Bug_Candidates(step) ==   \* mutant: a contact's own hold is not looked at
  IF step = "contacts"
  THEN {c \in Contacts : CampaignOf[c] \in closed /\ CampaignOf[c] \notin held /\ c \notin purged}
  ELSE {c \in Contacts : /\ step \in content[c] /\ ~Held(c)
                         /\ step \in {"messages", "analysis"} => c \notin analysing}

\* Contacts whose rows of a class may be past retention and still need the
\* action.  Messages that feed an unfinished analysis are kept, and so is the
\* free text of an unfinished analysis.
Candidates(step) ==
  IF step = "contacts"
  THEN {c \in Contacts : CampaignOf[c] \in closed /\ ~Held(c) /\ c \notin purged}
  ELSE {c \in Contacts : /\ step \in content[c] /\ ~Held(c)
                         /\ step \in {"messages", "analysis"} => c \notin analysing}

NoRun == [pc |-> "idle", step |-> 1, ids |-> {}]

EndRun(r) ==
  /\ run' = [run EXCEPT ![r] = NoRun]
  /\ lock' = None

Bug_StartRun(r) ==   \* mutant: the answer of pg_try_advisory_lock is ignored
  /\ run[r].pc = "idle"
  /\ lock' = r
  /\ run' = [run EXCEPT ![r].pc = "select"]
  /\ UNCHANGED <<dataVars, held, era, dial, racing, rest, count>>

\* A run that does not get the lock records itself as failed and does nothing.
StartRun(r) ==
  /\ run[r].pc = "idle" /\ lock = None
  /\ lock' = r
  /\ run' = [run EXCEPT ![r].pc = "select"]
  /\ UNCHANGED <<dataVars, held, era, dial, racing, rest, count>>

\* A batch of the ids past the cut-off.  With none left, or with the class
\* disabled, the run goes on to the next class or ends.
Select(r) ==
  LET step == Steps[run[r].step] IN
  /\ run[r].pc = "select"
  /\ \/ /\ step \in Enabled
        /\ \E ids \in SUBSET Candidates(step) :
             /\ ids # {} /\ Cardinality(ids) <= Batch
             /\ run' = [run EXCEPT ![r] = [@ EXCEPT !.pc = "apply", !.ids = ids]]
             /\ UNCHANGED lock
     \/ IF run[r].step = Len(Steps) THEN EndRun(r)
        ELSE run' = [run EXCEPT ![r].step = @ + 1] /\ UNCHANGED lock
  /\ UNCHANGED <<dataVars, held, era, dial, racing, rest, count>>

\* Rows are named by id: the action does not look at the holds again.  The
\* update of contact rows waits for an erasure that has locked them.
Apply(r) ==
  LET step == Steps[run[r].step]
      ids  == run[r].ids
  IN
  /\ run[r].pc = "apply"
  /\ \/ /\ step = "contacts" /\ ids \cap LockedRows = {}
        /\ purged' = purged \cup ids
        /\ UNCHANGED content
     \/ /\ step # "contacts"
        /\ content' = [c \in Contacts |-> content[c] \ (IF c \in ids THEN {step} ELSE {})]
        /\ UNCHANGED purged
  /\ run' = [run EXCEPT ![r] = [@ EXCEPT !.pc = "select", !.ids = {}]]
  /\ UNCHANGED <<live, analysing, closed, dnc, log, held, lock, era, dial, racing, rest, count>>

\* The runtime budget is spent, a statement fails, or the process dies: what is
\* committed stays, the batch in hand is not applied, the lock is free.
StopRun(r) ==
  /\ run[r].pc # "idle"
  /\ Bump("crashes", MaxCrashes)
  /\ EndRun(r)
  /\ UNCHANGED <<dataVars, held, era, dial, racing, rest>>

-----------------------------------------------------------------------------
(* Holds and erasure. *)

\* The row is locked while its hold changes; an erasure locks contact rows but
\* no campaign row.
SetHold(x) ==
  /\ x \notin LockedRows
  /\ Bump("holds", MaxHolds)
  /\ held' = IF x \in held THEN held \ {x} ELSE held \cup {x}
  /\ racing' = {c \in Contacts : HeldBy(held', c) /\
                  (c \in racing \/ (~Held(c) /\ c \in Chosen))}
  /\ UNCHANGED <<dataVars, run, lock, era, dial, rest>>

NoErasure == [pc |-> "idle", number |-> None, rows |-> {}, suppress |-> FALSE]

\* SELECT ... FOR UPDATE of the contacts with this number, in all campaigns.
EraseLock(e, n) ==
  /\ era[e].pc = "idle"
  /\ Bump("erasures", MaxErasures)
  /\ ContactsOf(n) \cap LockedRows = {}
  /\ \E s \in BOOLEAN :
       era' = [era EXCEPT ![e] = [pc |-> "check", number |-> n, rows |-> ContactsOf(n),
                                  suppress |-> s]]
  /\ UNCHANGED <<dataVars, held, run, lock, dial, racing, rest>>

\* A hold on any covered record refuses the whole request.
EraseCheck(e) ==
  /\ era[e].pc = "check"
  /\ era' = [era EXCEPT ![e] =
       IF \E c \in era[e].rows : Held(c) THEN NoErasure ELSE [@ EXCEPT !.pc = "scrub"]]
  /\ UNCHANGED <<dataVars, held, run, lock, dial, racing, rest, count>>

\* _scrub_content and _scrub_contact_rows: content of every class goes, the
\* number becomes a placeholder, a status that is not final becomes CLOSED.
Scrub(rows) ==
  /\ content' = [c \in Contacts |-> IF c \in rows THEN {} ELSE content[c]]
  /\ purged' = purged \cup rows
  /\ live' = live \ rows

\* Content of the number that this erasure does not reach: it will be written
\* later, or retention has taken the number from its contact before.
Leftover(c, rows) ==
  dial[c] # "idle" \/ c \in analysing \/ (c \notin rows /\ content[c] # {})

\* Scrub, do-not-call entry, erasure log: one transaction.
EraseCommit(e) ==
  LET n == era[e].number
      rows == era[e].rows
  IN
  /\ era[e].pc = "scrub"
  /\ Scrub(rows)
  /\ dnc' = IF era[e].suppress THEN dnc \cup {n} ELSE dnc
  /\ log' = log \cup {n}
  /\ rest' = rest \cup {c \in Contacts : NumberOf[c] = n /\ Leftover(c, rows)}
  /\ era' = [era EXCEPT ![e] = NoErasure]
  /\ UNCHANGED <<analysing, closed, held, run, lock, dial, racing, count>>

-----------------------------------------------------------------------------
(* Calls and what they write. *)

\* Eligibility, then the claim (which writes the contact row, so it waits for
\* an erasure that has locked it), then the request, for which the contact is
\* read again: an erased one sends its placeholder and is refused.
DialCheck(c) ==
  /\ dial[c] = "idle"
  /\ CampaignOf[c] \notin closed
  /\ c \notin purged /\ c \in live /\ NumberOf[c] \notin dnc
  /\ Bump("calls", MaxCalls)
  /\ dial' = [dial EXCEPT ![c] = "checked"]
  /\ UNCHANGED <<dataVars, held, run, lock, era, racing, rest>>

DialClaim(c) ==
  /\ dial[c] = "checked" /\ c \notin LockedRows
  /\ live' = live \cup {c}
  /\ dial' = [dial EXCEPT ![c] = "claimed"]
  /\ UNCHANGED <<purged, content, analysing, closed, dnc, log, held, run, lock, era, racing, rest, count>>

Bug_DialRequest(c) ==   \* mutant: the number read before the claim is used
  /\ dial[c] = "claimed"
  /\ dial' = [dial EXCEPT ![c] = "calling"]
  /\ UNCHANGED <<dataVars, held, run, lock, era, racing, rest, count>>

DialRequest(c) ==
  /\ dial[c] = "claimed"
  /\ dial' = [dial EXCEPT ![c] = IF c \in purged THEN "idle" ELSE "calling"]
  /\ UNCHANGED <<dataVars, held, run, lock, era, racing, rest, count>>

CallWrites(c, k) ==
  /\ dial[c] = "calling" /\ k # "analysis"
  /\ content' = [content EXCEPT ![c] = @ \cup {k}]
  /\ UNCHANGED <<purged, live, analysing, closed, dnc, log, held, run, lock, era, dial, racing, rest, count>>

\* The outcome is final or leads to a retry, and may be queued for analysis.
CallEnds(c) ==
  /\ dial[c] = "calling" /\ c \notin LockedRows
  /\ dial' = [dial EXCEPT ![c] = "idle"]
  /\ live' \in {live \ {c}, live \cup {c}}
  /\ analysing' \in {analysing, analysing \cup {c}}
  /\ UNCHANGED <<purged, content, closed, dnc, log, held, run, lock, era, racing, rest, count>>

AnalysisEnds(c) ==
  /\ c \in analysing
  /\ analysing' = analysing \ {c}
  /\ content' = [content EXCEPT ![c] = @ \cup ({"analysis"} \cap Kinds)]
  /\ UNCHANGED <<purged, live, closed, dnc, log, held, run, lock, era, dial, racing, rest, count>>

CloseCampaign(g) ==
  /\ closed' = closed \cup {g}
  /\ UNCHANGED <<purged, live, content, analysing, dnc, log, held, run, lock, era, dial, racing, rest, count>>

-----------------------------------------------------------------------------
LifecycleInit ==
  /\ purged = {} /\ live = Contacts /\ analysing = {} /\ closed = {} /\ held = {}
  /\ content = [c \in Contacts |-> {}]
  /\ dnc = {} /\ log = {}
  /\ run = [r \in Runs |-> NoRun] /\ lock = None
  /\ era = [e \in Erasers |-> NoErasure]
  /\ dial = [c \in Contacts |-> "idle"]
  /\ racing = {} /\ rest = {}
  /\ count = [x \in {"crashes", "holds", "erasures", "calls", "restores"} |-> 0]

LifecycleNext ==
  \/ \E r \in Runs : StartRun(r) \/ Select(r) \/ Apply(r) \/ StopRun(r)
  \/ \E x \in Contacts \cup Campaigns : SetHold(x)
  \/ \E e \in Erasers : EraseCheck(e) \/ EraseCommit(e) \/ \E n \in Numbers : EraseLock(e, n)
  \/ \E c \in Contacts :
       \/ DialCheck(c) \/ DialClaim(c) \/ DialRequest(c) \/ CallEnds(c) \/ AnalysisEnds(c)
       \/ \E k \in Kinds : CallWrites(c, k)
  \/ \E g \in Campaigns : CloseCampaign(g)

-----------------------------------------------------------------------------
DataTypeOK ==
  /\ purged \subseteq Contacts /\ live \subseteq Contacts /\ analysing \subseteq Contacts
  /\ content \in [Contacts -> SUBSET Kinds]
  /\ closed \subseteq Campaigns /\ held \subseteq Contacts \cup Campaigns
  /\ dnc \subseteq Numbers /\ log \subseteq Numbers
  /\ dial \in [Contacts -> {"idle", "checked", "claimed", "calling"}]
  /\ racing \subseteq Contacts /\ rest \subseteq Contacts

RunTypeOK ==
  /\ run \in [Runs -> [pc : {"idle", "select", "apply"}, step : 1 .. Len(Steps), ids : SUBSET Contacts]]
  /\ lock \in Runs \cup {None}
  /\ \A r \in Runs : run[r].pc # "idle" <=> lock = r

EraTypeOK ==
  /\ era \in [Erasers -> [pc : {"idle", "check", "scrub"}, number : Numbers \cup {None},
                          rows : SUBSET Contacts, suppress : BOOLEAN]]
  /\ \A e \in Erasers : era[e].pc # "idle" => era[e].number \in Numbers
  /\ \A e, f \in Erasers : e # f => era[e].rows \cap era[f].rows = {}

\* Types; one retention run at a time; an erasure owns the rows it works on.
LifecycleTypeOK == DataTypeOK /\ RunTypeOK /\ EraTypeOK

=============================================================================
