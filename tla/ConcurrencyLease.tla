-------------------------- MODULE ConcurrencyLease --------------------------
(***************************************************************************)
(* The concurrency-lease store: three Lua scripts (acquire, renew,         *)
(* release) over one sorted set per scope and one holder key per logical   *)
(* attempt.  Redis runs a script atomically, so each script is one action. *)
(* What interleaves is the scripts of different workers, the clock, and    *)
(* workers that die or lose Redis while they hold a lease.                 *)
(*                                                                         *)
(* A lease id is a fresh random token; here it is the next unused number.  *)
(* A sorted-set score is an expiry time, and 0 stands for "not a member".  *)
(* In an operator name such as OffByOne_Name the first part says which bug *)
(* the second, Name, would then have; the specification never uses it.     *)
(***************************************************************************)
EXTENDS Integers, FiniteSets

CONSTANTS
  Workers,    \* dialer processes that acquire and release
  Holders,    \* logical attempts: idempotency keys of jobs
  Scopes,     \* the sorted sets: global, one per campaign, one per provider
  ScopesOf,   \* the scope sets that an attempt's lease occupies
  Limit,      \* capacity of each scope
  Ttl,        \* lease lifetime, in clock ticks
  MaxLeases,  \* bound: lease ids a behaviour may draw
  MaxTime     \* bound: no renewal may reach beyond this time

ASSUME LeaseAssumption ==
  /\ ScopesOf \in [Holders -> SUBSET Scopes]
  /\ \A h \in Holders : ScopesOf[h] # {}
  /\ Limit \in [Scopes -> Nat]
  /\ Ttl \in Nat \ {0}
  /\ MaxLeases \in Nat
  /\ MaxTime \in Nat

Leases == 1..MaxLeases

VARIABLES
  now,        \* Redis TIME
  score,      \* score[s][l]: expiry of lease l in scope set s, 0 when absent
  keyExpiry,  \* PEXPIRE deadline of each scope set's key
  marker,     \* holder key: the lease it names and when it expires
  next,       \* the next fresh lease id
  holderOf,   \* the holder a drawn lease id was acquired for
  handle      \* the lease each worker holds a ConcurrencyLease for, 0 if none

leaseVars == <<now, score, keyExpiry, marker, next, holderOf, handle>>

NoMarker == [lease |-> 0, until |-> 0]

LeaseTypeOK ==
  /\ now \in Nat
  /\ score \in [Scopes -> [Leases -> Nat]]
  /\ keyExpiry \in [Scopes -> Nat]
  /\ marker \in [Holders -> [lease : Leases \cup {0}, until : Nat]]
  /\ next \in 1..(MaxLeases + 1)
  /\ holderOf \in [Leases -> Holders]
  /\ handle \in [Workers -> Leases \cup {0}]

LeaseInit ==
  /\ now = 0
  /\ score = [s \in Scopes |-> [l \in Leases |-> 0]]
  /\ keyExpiry = [s \in Scopes |-> 0]
  /\ marker = [h \in Holders |-> NoMarker]
  /\ next = 1
  /\ holderOf \in {[l \in Leases |-> h] : h \in Holders}
  /\ handle = [w \in Workers |-> 0]

-----------------------------------------------------------------------------
(* The scripts *)

\* Members of a scope set that ZREMRANGEBYSCORE -inf now leaves behind.
LiveIn(s) == {l \in Leases : score[s][l] > now}

Reclaimed(s) == [l \in Leases |-> IF l \in LiveIn(s) THEN score[s][l] ELSE 0]

Duplicate(h) == marker[h].until > now

OffByOne_AtLimit(s) == Cardinality(LiveIn(s)) > Limit[s]
AtLimit(s) == Cardinality(LiveIn(s)) >= Limit[s]

Full(h) == \E s \in ScopesOf[h] : AtLimit(s)

\* The holder key of attempt h names lease l (prefix match on "<lease id>|").
AnyLease_Names(h, l) == marker[h].lease # 0
Names(h, l) == marker[h].lease = l

\* The scope keys whose PEXPIRE a renewal pushes out.
NotTouched_ExpiryTouched(h) == {}
ExpiryTouched(h) == ScopesOf[h]

\* The scope sets in which a renewal moves the lease's score.
FirstScope_Renewed(h) == {CHOOSE s \in ScopesOf[h] : TRUE}
Renewed(h) == ScopesOf[h]

Backwards_Expires == now - Ttl
Expires == now + Ttl

\* ACQUIRE for a fresh worker: every scope takes the lease, or none does.
Acquire(w, h) ==
  /\ handle[w] = 0 /\ next <= MaxLeases
  /\ ~Duplicate(h) /\ ~Full(h)
  /\ score' = [s \in Scopes |->
                 IF s \in ScopesOf[h]
                 THEN [Reclaimed(s) EXCEPT ![next] = Expires]
                 ELSE score[s]]
  /\ keyExpiry' = [s \in Scopes |->
                     IF s \in ScopesOf[h] THEN Expires ELSE keyExpiry[s]]
  /\ marker' = [marker EXCEPT ![h] = [lease |-> next, until |-> Expires]]
  /\ holderOf' = [holderOf EXCEPT ![next] = h]
  /\ handle' = [handle EXCEPT ![w] = next]
  /\ next' = next + 1
  /\ UNCHANGED now

\* A rejected ACQUIRE still reclaims the expired members of its scopes.
AcquireRejected(w, h) ==
  /\ handle[w] = 0
  /\ Duplicate(h) \/ Full(h)
  /\ score' = [s \in Scopes |->
                 IF s \in ScopesOf[h] THEN Reclaimed(s) ELSE score[s]]
  /\ UNCHANGED <<now, keyExpiry, marker, next, holderOf, handle>>

\* RENEW: extends a lease that every scope still holds unexpired.  A renewal
\* that finds the lease gone returns 0 and changes nothing.
Renew(w) ==
  LET l == handle[w]
      h == holderOf[l]
  IN /\ l # 0
     /\ Expires <= MaxTime
     /\ \A s \in ScopesOf[h] : score[s][l] > now
     /\ score' = [s \in Scopes |->
                    IF s \in Renewed(h)
                    THEN [score[s] EXCEPT ![l] = Expires]
                    ELSE score[s]]
     /\ keyExpiry' = [s \in Scopes |->
                        IF s \in ExpiryTouched(h) THEN Expires ELSE keyExpiry[s]]
     /\ marker' = IF Names(h, l)
                  THEN [marker EXCEPT ![h].until = Expires]
                  ELSE marker
     /\ UNCHANGED <<now, next, holderOf, handle>>

\* RELEASE: idempotent, and deletes the holder key only if it names this lease.
Release(w) ==
  LET l == handle[w]
      h == holderOf[l]
  IN /\ l # 0
     /\ score' = [s \in Scopes |->
                    IF s \in ScopesOf[h]
                    THEN [score[s] EXCEPT ![l] = 0]
                    ELSE score[s]]
     /\ marker' = IF Names(h, l)
                  THEN [marker EXCEPT ![h] = NoMarker]
                  ELSE marker
     /\ handle' = [handle EXCEPT ![w] = 0]
     /\ UNCHANGED <<now, keyExpiry, next, holderOf>>

\* The worker dies, or its release cannot reach Redis: the handle is gone and
\* only the expiry can return the slot.
Abandon(w) ==
  /\ handle[w] # 0
  /\ handle' = [handle EXCEPT ![w] = 0]
  /\ UNCHANGED <<now, score, keyExpiry, marker, next, holderOf>>

\* One tick of Redis's clock.  A scope set whose PEXPIRE is due disappears with
\* all its members; so does a holder key.  Time matters only while one exists.
Tick ==
  /\ \/ \E s \in Scopes, l \in Leases : score[s][l] # 0
     \/ \E h \in Holders : marker[h] # NoMarker
  /\ now' = now + 1
  /\ score' = [s \in Scopes |->
                 IF keyExpiry[s] <= now'
                 THEN [l \in Leases |-> 0]
                 ELSE score[s]]
  /\ marker' = [h \in Holders |->
                  IF marker[h].until <= now' THEN NoMarker ELSE marker[h]]
  /\ UNCHANGED <<keyExpiry, next, holderOf, handle>>

LeaseNext ==
  \/ \E w \in Workers, h \in Holders : Acquire(w, h) \/ AcquireRejected(w, h)
  \/ \E w \in Workers : Renew(w) \/ Release(w) \/ Abandon(w)
  \/ Tick

LeaseSpec == LeaseInit /\ [][LeaseNext]_leaseVars

-----------------------------------------------------------------------------
(* What the store promises *)

Live(l) == \E s \in Scopes : l \in LiveIn(s)

\* No scope ever has more unexpired leases than its limit, whatever the
\* interleaving of acquires, renewals, lost workers and late releases.
ScopeWithinLimit == \A s \in Scopes : Cardinality(LiveIn(s)) <= Limit[s]

\* "Atomically take one slot in every scope, or none": a lease that is live
\* anywhere is live in each scope of its attempt, with one expiry.
AllScopesOrNone ==
  \A l \in Leases : Live(l) =>
    /\ \A s \in Scopes : l \in LiveIn(s) => s \in ScopesOf[holderOf[l]]
    /\ \A s, t \in ScopesOf[holderOf[l]] :
         l \in LiveIn(s) /\ score[s][l] = score[t][l]

\* A duplicate delivery of a job cannot occupy a second slot: one attempt has
\* at most one live lease, although holder key and scope sets expire and are
\* deleted separately.
OneLiveLeasePerHolder ==
  \A l, m \in Leases :
    Live(l) /\ Live(m) /\ holderOf[l] = holderOf[m] => l = m

\* Nobody but its own holder can end a lease early: an unexpired lease leaves
\* a scope only in the step in which the worker holding it lets it go.  (Stale
\* releases, reclaims and key expiry never free another worker's slot.)
OnlyOwnerFrees ==
  [][\A l \in Leases, s \in Scopes :
       score[s][l] > now' /\ score'[s][l] = 0 =>
         \E w \in Workers : handle[w] = l /\ handle'[w] = 0]_leaseVars
=============================================================================
