----------------------- MODULE ConcurrencyLeaseProofs -----------------------
(***************************************************************************)
(* Proofs about the lease store, for any number of workers, attempts and   *)
(* scopes, any limits and any lease lifetime.                              *)
(*                                                                         *)
(* None of the store's promises is inductive by itself.  What carries them *)
(* is the agreement between the two kinds of keys the scripts write: as    *)
(* long as a lease is live in some scope set, the holder key of its attempt*)
(* names that lease and carries the very expiry that each scope set has.   *)
(***************************************************************************)
EXTENDS ConcurrencyLease, FiniteSetTheorems, TLAPS

\* Ids that were not drawn yet appear nowhere.
FreshIds ==
  /\ \A l \in Leases : l >= next => \A s \in Scopes : score[s][l] = 0
  /\ \A w \in Workers : handle[w] < next

\* Scores lie within one lifetime, and the key of a scope set outlives them.
KeyOutlivesMembers ==
  \A s \in Scopes, l \in Leases :
    score[s][l] <= now + Ttl /\ score[s][l] <= keyExpiry[s]

\* A live lease is where it belongs, and its attempt's holder key agrees with
\* every one of its scope sets.
MarkerAgrees ==
  \A l \in Leases, s \in Scopes :
    score[s][l] > now =>
      /\ s \in ScopesOf[holderOf[l]]
      /\ marker[holderOf[l]].lease = l
      /\ \A t \in ScopesOf[holderOf[l]] : score[t][l] = marker[holderOf[l]].until

LeaseInv == LeaseTypeOK /\ FreshIds /\ KeyOutlivesMembers /\ MarkerAgrees

\* The initial state satisfies the inductive invariant.
LEMMA InitLeaseInv == LeaseInit => LeaseInv
  BY LeaseAssumption
  DEF LeaseInit, LeaseInv, LeaseTypeOK, FreshIds, KeyOutlivesMembers,
      MarkerAgrees, NoMarker, Leases



\* The type invariant, conjunct by conjunct, in the form the proofs use it.
LEMMA LeaseTypes ==
  ASSUME LeaseTypeOK
  PROVE  /\ now \in Nat /\ next \in Nat
         /\ \A s \in Scopes, l \in Leases : score[s][l] \in Nat
         /\ \A s \in Scopes : keyExpiry[s] \in Nat
         /\ \A h \in Holders : marker[h].until \in Nat
         /\ \A l \in Leases : holderOf[l] \in Holders
         /\ \A w \in Workers : handle[w] \in Leases \cup {0} /\ handle[w] \in Nat
  BY LeaseAssumption DEF LeaseTypeOK, Leases

\* Acquiring a lease preserves the invariant: the fresh id has one expiry in
\* all its scope sets, and an attempt with a live lease cannot get this far.
LEMMA AcquirePreserves ==
  ASSUME LeaseInv, NEW w \in Workers, NEW h \in Holders, Acquire(w, h)
  PROVE  LeaseInv'
<1> USE LeaseAssumption
<1>a. LeaseTypeOK /\ FreshIds /\ KeyOutlivesMembers /\ MarkerAgrees
  BY DEF LeaseInv
<1>0. next \in Leases /\ now + Ttl \in Nat
  BY <1>a DEF Acquire, LeaseTypeOK, Leases
<1>1. \A s \in Scopes : Reclaimed(s) \in [Leases -> Nat]
  BY <1>a DEF Reclaimed, LiveIn, LeaseTypeOK
<1>2. score' \in [Scopes -> [Leases -> Nat]]
  BY <1>a, <1>0, <1>1 DEF Acquire, Expires, LeaseTypeOK
<1>3. \A s \in Scopes, l \in Leases :
        score'[s][l] = IF s \in ScopesOf[h]
                       THEN IF l = next THEN now + Ttl
                            ELSE IF score[s][l] > now THEN score[s][l] ELSE 0
                       ELSE score[s][l]
  BY <1>a, <1>0, <1>1 DEF Acquire, Expires, Reclaimed, LiveIn, LeaseTypeOK
<1>4. LeaseTypeOK'
  <2>1. next' \in 1..(MaxLeases + 1)
    BY <1>a DEF Acquire, LeaseTypeOK
  <2>2. now' \in Nat /\ keyExpiry' \in [Scopes -> Nat]
    BY <1>a, <1>0 DEF Acquire, Expires, LeaseTypeOK
  <2>3. marker' \in [Holders -> [lease : Leases \cup {0}, until : Nat]]
    BY <1>a, <1>0 DEF Acquire, Expires, LeaseTypeOK
  <2>4. holderOf' \in [Leases -> Holders] /\ handle' \in [Workers -> Leases \cup {0}]
    BY <1>a, <1>0 DEF Acquire, LeaseTypeOK
  <2> QED BY <1>2, <2>1, <2>2, <2>3, <2>4 DEF LeaseTypeOK
<1>5. /\ now' = now /\ next' = next + 1
      /\ \A v \in Workers : handle'[v] = IF v = w THEN next ELSE handle[v]
      /\ \A l \in Leases : holderOf'[l] = IF l = next THEN h ELSE holderOf[l]
      /\ \A g \in Holders :
           marker'[g] = IF g = h THEN [lease |-> next, until |-> now + Ttl]
                                 ELSE marker[g]
      /\ \A s \in Scopes :
           keyExpiry'[s] = IF s \in ScopesOf[h] THEN now + Ttl ELSE keyExpiry[s]
      /\ ~(marker[h].until > now)
  BY <1>a, <1>0 DEF Acquire, Expires, Duplicate, LeaseTypeOK
<1>6. FreshIds'
  <2>1. ASSUME NEW l \in Leases, l >= next', NEW s \in Scopes
        PROVE  score'[s][l] = 0
    <3>1. l >= next /\ l # next
      BY <1>a, <1>5, <2>1 DEF LeaseTypeOK, Leases
    <3>2. score[s][l] = 0
      BY <1>a, <3>1 DEF FreshIds
    <3> QED BY <1>a, <3>1, <3>2, <1>3, LeaseTypes
  <2>2. ASSUME NEW v \in Workers PROVE handle'[v] < next'
    <3>1. handle[v] < next
      BY <1>a DEF FreshIds
    <3> QED BY <1>a, <3>1, <1>5, LeaseTypes
  <2> QED BY <2>1, <2>2 DEF FreshIds
<1>7. KeyOutlivesMembers'
  <2> SUFFICES ASSUME NEW s \in Scopes, NEW l \in Leases
               PROVE  score'[s][l] <= now' + Ttl /\ score'[s][l] <= keyExpiry'[s]
    BY DEF KeyOutlivesMembers
  <2>1. score[s][l] <= now + Ttl /\ score[s][l] <= keyExpiry[s]
    BY <1>a DEF KeyOutlivesMembers
  <2>2. score[s][l] \in Nat /\ keyExpiry[s] \in Nat /\ now \in Nat
    BY <1>a, LeaseTypes
  <2> QED BY <2>1, <2>2, <1>0, <1>3, <1>5
<1>8. MarkerAgrees'
  <2> SUFFICES ASSUME NEW l \in Leases, NEW s \in Scopes, score'[s][l] > now'
               PROVE  /\ s \in ScopesOf[holderOf'[l]]
                      /\ marker'[holderOf'[l]].lease = l
                      /\ \A t \in ScopesOf[holderOf'[l]] :
                           score'[t][l] = marker'[holderOf'[l]].until
    BY DEF MarkerAgrees
  <2>0. score[s][l] \in Nat /\ now \in Nat /\ holderOf[l] \in Holders
    BY <1>a, LeaseTypes
  <2>1. CASE l = next
    <3>1. holderOf'[l] = h /\ marker'[h].lease = next /\ marker'[h].until = now + Ttl
      BY <2>1, <1>5
    <3>2. score[s][l] = 0
      BY <1>a, <2>1, <2>0, LeaseTypes DEF FreshIds
    <3>3. s \in ScopesOf[h]
      BY <3>2, <2>0, <1>3, <1>5
    <3>4. \A t \in ScopesOf[h] : score'[t][l] = now + Ttl
      BY <2>1, <1>3
    <3> QED BY <3>1, <3>3, <3>4, <2>1
  <2>2. CASE l # next
    <3>1. score[s][l] > now /\ score'[s][l] = score[s][l]
      BY <2>0, <2>2, <1>3, <1>5
    <3>2. /\ s \in ScopesOf[holderOf[l]]
          /\ marker[holderOf[l]].lease = l
          /\ \A t \in ScopesOf[holderOf[l]] :
               score[t][l] = marker[holderOf[l]].until
      BY <1>a, <3>1 DEF MarkerAgrees
    <3>3. holderOf[l] # h
      BY <3>1, <3>2, <1>5
    <3>4. holderOf'[l] = holderOf[l] /\ marker'[holderOf[l]] = marker[holderOf[l]]
      BY <2>0, <2>2, <3>3, <1>5
    <3>5. \A t \in ScopesOf[holderOf[l]] : score[t][l] > now /\ t \in Scopes
      BY <3>1, <3>2, <2>0
    <3>6. \A t \in ScopesOf[holderOf[l]] : score'[t][l] = score[t][l]
      BY <3>5, <2>2, <1>3
    <3> QED BY <3>2, <3>4, <3>6
  <2> QED BY <2>1, <2>2
<1> QED BY <1>4, <1>6, <1>7, <1>8 DEF LeaseInv

\* A refused acquire only removes members that have expired.
LEMMA AcquireRejectedPreserves ==
  ASSUME LeaseInv, NEW w \in Workers, NEW h \in Holders, AcquireRejected(w, h)
  PROVE  LeaseInv'
<1> USE LeaseAssumption
<1>a. LeaseTypeOK /\ FreshIds /\ KeyOutlivesMembers /\ MarkerAgrees
  BY DEF LeaseInv
<1>1. \A s \in Scopes : Reclaimed(s) \in [Leases -> Nat]
  BY <1>a DEF Reclaimed, LiveIn, LeaseTypeOK
<1>2. score' \in [Scopes -> [Leases -> Nat]]
  BY <1>a, <1>1 DEF AcquireRejected, LeaseTypeOK
<1>3. \A s \in Scopes, l \in Leases :
        \/ score'[s][l] = score[s][l]
        \/ score'[s][l] = 0 /\ ~(score[s][l] > now)
  BY <1>a, <1>1 DEF AcquireRejected, Reclaimed, LiveIn, LeaseTypeOK
<1>4. UNCHANGED <<now, keyExpiry, marker, next, holderOf, handle>>
  BY DEF AcquireRejected
<1>5. LeaseTypeOK'
  BY <1>a, <1>2, <1>4 DEF LeaseTypeOK, Leases
<1>6. FreshIds'
  BY <1>a, <1>3, <1>4 DEF FreshIds
<1>7. KeyOutlivesMembers'
  <2> SUFFICES ASSUME NEW s \in Scopes, NEW l \in Leases
               PROVE  score'[s][l] <= now + Ttl /\ score'[s][l] <= keyExpiry[s]
    BY <1>4 DEF KeyOutlivesMembers
  <2>1. score[s][l] <= now + Ttl /\ score[s][l] <= keyExpiry[s]
    BY <1>a DEF KeyOutlivesMembers
  <2>2. score[s][l] \in Nat /\ keyExpiry[s] \in Nat /\ now \in Nat
    BY <1>a, LeaseTypes
  <2> QED BY <2>1, <2>2, <1>3
<1>8. MarkerAgrees'
  <2> SUFFICES ASSUME NEW l \in Leases, NEW s \in Scopes, score'[s][l] > now
               PROVE  /\ s \in ScopesOf[holderOf[l]]
                      /\ marker[holderOf[l]].lease = l
                      /\ \A t \in ScopesOf[holderOf[l]] :
                           score'[t][l] = marker[holderOf[l]].until
    BY <1>4 DEF MarkerAgrees
  <2>0. score[s][l] \in Nat /\ now \in Nat /\ holderOf[l] \in Holders
    BY <1>a, LeaseTypes
  <2>1. score[s][l] > now
    BY <2>0, <1>3
  <2>2. /\ s \in ScopesOf[holderOf[l]]
        /\ marker[holderOf[l]].lease = l
        /\ \A t \in ScopesOf[holderOf[l]] :
             score[t][l] = marker[holderOf[l]].until
    BY <1>a, <2>1 DEF MarkerAgrees
  <2>3. \A t \in ScopesOf[holderOf[l]] : score[t][l] > now /\ t \in Scopes
    BY <2>0, <2>1, <2>2
  <2> QED BY <2>2, <2>3, <1>3
<1> QED BY <1>5, <1>6, <1>7, <1>8 DEF LeaseInv

\* Renewing pushes the expiry out in every scope set of the lease and in the
\* holder key, which names the lease because the lease is still live.
LEMMA RenewPreserves ==
  ASSUME LeaseInv, NEW w \in Workers, Renew(w)
  PROVE  LeaseInv'
<1> DEFINE l == handle[w]
           h == holderOf[l]
<1> USE LeaseAssumption
<1>a. LeaseTypeOK /\ FreshIds /\ KeyOutlivesMembers /\ MarkerAgrees
  BY DEF LeaseInv
<1>0. l \in Leases /\ h \in Holders /\ now \in Nat /\ now + Ttl \in Nat
  BY <1>a DEF Renew, LeaseTypeOK
<1>1. PICK r \in ScopesOf[h] : r \in Scopes /\ score[r][l] > now
  BY <1>0 DEF Renew
<1>2. marker[h].lease = l
  BY <1>a, <1>0, <1>1 DEF MarkerAgrees
<1>3. /\ now' = now /\ next' = next /\ holderOf' = holderOf /\ handle' = handle
      /\ marker' = [marker EXCEPT ![h].until = now + Ttl]
      /\ keyExpiry' = [s \in Scopes |->
                         IF s \in ScopesOf[h] THEN now + Ttl ELSE keyExpiry[s]]
      /\ score' = [s \in Scopes |->
                     IF s \in ScopesOf[h]
                     THEN [score[s] EXCEPT ![l] = now + Ttl]
                     ELSE score[s]]
  BY <1>2 DEF Renew, Renewed, ExpiryTouched, Expires, Names
<1>b. now' = now /\ holderOf' = holderOf
  BY <1>3
<1> HIDE DEF l, h
<1>4. LeaseTypeOK'
  BY <1>a, <1>0, <1>3 DEF LeaseTypeOK
<1>5. \A s \in Scopes, k \in Leases :
        score'[s][k] = IF s \in ScopesOf[h] /\ k = l THEN now + Ttl ELSE score[s][k]
  BY <1>a, <1>0, <1>3 DEF LeaseTypeOK
<1>6. /\ \A s \in Scopes :
           keyExpiry'[s] = IF s \in ScopesOf[h] THEN now + Ttl ELSE keyExpiry[s]
      /\ \A g \in Holders : marker'[g].lease = marker[g].lease
      /\ \A g \in Holders :
           marker'[g].until = IF g = h THEN now + Ttl ELSE marker[g].until
  BY <1>a, <1>0, <1>3 DEF LeaseTypeOK
<1>7. FreshIds'
  <2>1. l < next
    BY <1>a DEF FreshIds, l
  <2>2. ASSUME NEW k \in Leases, k >= next, NEW s \in Scopes
        PROVE  score'[s][k] = 0
    <3>1. k # l
      BY <1>a, <1>0, <2>1, <2>2 DEF LeaseTypeOK, Leases
    <3> QED BY <1>a, <2>2, <3>1, <1>5 DEF FreshIds
  <2> QED BY <1>a, <1>3, <2>2 DEF FreshIds
<1>8. KeyOutlivesMembers'
  <2> SUFFICES ASSUME NEW s \in Scopes, NEW k \in Leases
               PROVE  score'[s][k] <= now + Ttl /\ score'[s][k] <= keyExpiry'[s]
    BY <1>3 DEF KeyOutlivesMembers
  <2>1. score[s][k] <= now + Ttl /\ score[s][k] <= keyExpiry[s]
    BY <1>a DEF KeyOutlivesMembers
  <2>2. score[s][k] \in Nat /\ keyExpiry[s] \in Nat
    BY <1>a, LeaseTypes
  <2> QED BY <2>1, <2>2, <1>0, <1>5, <1>6
<1>9. MarkerAgrees'
  <2> SUFFICES ASSUME NEW k \in Leases, NEW s \in Scopes, score'[s][k] > now
               PROVE  /\ s \in ScopesOf[holderOf[k]]
                      /\ marker'[holderOf[k]].lease = k
                      /\ \A t \in ScopesOf[holderOf[k]] :
                           score'[t][k] = marker'[holderOf[k]].until
    BY <1>b DEF MarkerAgrees
  <2>0. score[s][k] \in Nat /\ holderOf[k] \in Holders
    BY <1>a, LeaseTypes
  <2>1. CASE k = l
    <3>1. s \in ScopesOf[h]
      BY <1>a, <1>5, <2>1 DEF MarkerAgrees, h
    <3>2. holderOf[k] = h
      BY <2>1 DEF h
    <3> QED BY <3>1, <3>2, <2>1, <1>0, <1>2, <1>5, <1>6
  <2>2. CASE k # l
    <3>1. score[s][k] > now
      BY <2>2, <1>5
    <3>2. /\ s \in ScopesOf[holderOf[k]]
          /\ marker[holderOf[k]].lease = k
          /\ \A t \in ScopesOf[holderOf[k]] :
               score[t][k] = marker[holderOf[k]].until
      BY <1>a, <3>1 DEF MarkerAgrees
    <3>3. holderOf[k] # h
      BY <2>2, <3>2, <1>2
    <3> QED BY <2>0, <2>2, <3>2, <3>3, <1>5, <1>6
  <2> QED BY <2>1, <2>2
<1> QED BY <1>4, <1>7, <1>8, <1>9 DEF LeaseInv

\* Releasing removes the lease from every scope set it could be live in, so
\* dropping the holder key it names leaves nothing behind.
LEMMA ReleasePreserves ==
  ASSUME LeaseInv, NEW w \in Workers, Release(w)
  PROVE  LeaseInv'
<1> DEFINE l == handle[w]
           h == holderOf[l]
<1> USE LeaseAssumption
<1>a. LeaseTypeOK /\ FreshIds /\ KeyOutlivesMembers /\ MarkerAgrees
  BY DEF LeaseInv
<1>0. l \in Leases /\ h \in Holders /\ now \in Nat
  BY <1>a DEF Release, LeaseTypeOK
<1>3. /\ now' = now /\ next' = next /\ holderOf' = holderOf
      /\ keyExpiry' = keyExpiry
      /\ handle' = [handle EXCEPT ![w] = 0]
      /\ marker' = IF marker[h].lease = l
                   THEN [marker EXCEPT ![h] = NoMarker] ELSE marker
      /\ score' = [s \in Scopes |->
                     IF s \in ScopesOf[h]
                     THEN [score[s] EXCEPT ![l] = 0]
                     ELSE score[s]]
  BY DEF Release, Names
<1>b. now' = now /\ holderOf' = holderOf
  BY <1>3
<1> HIDE DEF l, h
<1>4. LeaseTypeOK'
  BY <1>a, <1>0, <1>3 DEF LeaseTypeOK, NoMarker
<1>5. \A s \in Scopes, k \in Leases :
        score'[s][k] = IF s \in ScopesOf[h] /\ k = l THEN 0 ELSE score[s][k]
  BY <1>a, <1>0, <1>3 DEF LeaseTypeOK
<1>6. \A g \in Holders : g # h \/ marker[h].lease # l => marker'[g] = marker[g]
  BY <1>a, <1>0, <1>3 DEF LeaseTypeOK
<1>7. FreshIds'
  <2>1. \A k \in Leases : k >= next => \A s \in Scopes : score'[s][k] = 0
    BY <1>a, <1>5 DEF FreshIds
  <2>2. ASSUME NEW v \in Workers PROVE handle'[v] < next
    <3>1. handle[v] < next /\ next > 0
      BY <1>a DEF FreshIds, LeaseTypeOK
    <3>2. handle'[v] = handle[v] \/ handle'[v] = 0
      BY <1>a, <1>3 DEF LeaseTypeOK
    <3> QED BY <3>1, <3>2
  <2> QED BY <1>3, <2>1, <2>2 DEF FreshIds
<1>8. KeyOutlivesMembers'
  <2> SUFFICES ASSUME NEW s \in Scopes, NEW k \in Leases
               PROVE  score'[s][k] <= now + Ttl /\ score'[s][k] <= keyExpiry[s]
    BY <1>3 DEF KeyOutlivesMembers
  <2>1. score[s][k] <= now + Ttl /\ score[s][k] <= keyExpiry[s]
    BY <1>a DEF KeyOutlivesMembers
  <2>2. score[s][k] \in Nat /\ keyExpiry[s] \in Nat
    BY <1>a, LeaseTypes
  <2> QED BY <2>1, <2>2, <1>0, <1>5
<1>9. MarkerAgrees'
  <2> SUFFICES ASSUME NEW k \in Leases, NEW s \in Scopes, score'[s][k] > now
               PROVE  /\ s \in ScopesOf[holderOf[k]]
                      /\ marker'[holderOf[k]].lease = k
                      /\ \A t \in ScopesOf[holderOf[k]] :
                           score'[t][k] = marker'[holderOf[k]].until
    BY <1>b DEF MarkerAgrees
  <2>0. score[s][k] \in Nat /\ holderOf[k] \in Holders
    BY <1>a, LeaseTypes
  <2>1. score[s][k] > now
    BY <2>0, <1>0, <1>5
  <2>2. /\ s \in ScopesOf[holderOf[k]]
        /\ marker[holderOf[k]].lease = k
        /\ \A t \in ScopesOf[holderOf[k]] :
             score[t][k] = marker[holderOf[k]].until
    BY <1>a, <2>1 DEF MarkerAgrees
  <2>3. k # l
    <3> SUFFICES ASSUME k = l PROVE FALSE
      OBVIOUS
    <3>1. s \in ScopesOf[h]
      BY <2>2 DEF h
    <3> QED BY <3>1, <1>0, <1>5
  <2>4. marker'[holderOf[k]] = marker[holderOf[k]]
    BY <2>0, <2>2, <2>3, <1>6
  <2> QED BY <2>0, <2>2, <2>3, <2>4, <1>5
<1> QED BY <1>4, <1>7, <1>8, <1>9 DEF LeaseInv

\* Losing a handle changes nothing in Redis.
LEMMA AbandonPreserves ==
  ASSUME LeaseInv, NEW w \in Workers, Abandon(w)
  PROVE  LeaseInv'
<1>a. LeaseTypeOK /\ FreshIds /\ KeyOutlivesMembers /\ MarkerAgrees
  BY DEF LeaseInv
<1>1. LeaseTypeOK'
  BY <1>a DEF Abandon, LeaseTypeOK, Leases
<1>2. ASSUME NEW v \in Workers PROVE handle'[v] < next
  <2>1. handle[v] < next /\ next > 0
    BY <1>a DEF FreshIds, LeaseTypeOK
  <2>2. handle'[v] = handle[v] \/ handle'[v] = 0
    BY <1>a DEF Abandon, LeaseTypeOK
  <2> QED BY <2>1, <2>2
<1>3. FreshIds'
  BY <1>a, <1>2 DEF Abandon, FreshIds
<1>4. KeyOutlivesMembers' /\ MarkerAgrees'
  BY <1>a DEF Abandon, KeyOutlivesMembers, MarkerAgrees
<1> QED BY <1>1, <1>3, <1>4 DEF LeaseInv

\* A tick expires scope sets and holder keys, and a lease that is still live
\* afterwards is in a set, and named by a key, that the tick left alone.
LEMMA TickPreserves ==
  ASSUME LeaseInv, Tick
  PROVE  LeaseInv'
<1> USE LeaseAssumption
<1>a. LeaseTypeOK /\ FreshIds /\ KeyOutlivesMembers /\ MarkerAgrees
  BY DEF LeaseInv
<1>0. now \in Nat /\ now' = now + 1
  BY <1>a DEF LeaseTypeOK, Tick
<1>1. LeaseTypeOK'
  BY <1>a DEF LeaseTypeOK, Tick, NoMarker
<1>2. UNCHANGED <<keyExpiry, next, holderOf, handle>>
  BY DEF Tick
<1>3. \A s \in Scopes, l \in Leases :
        score'[s][l] = IF keyExpiry[s] <= now' THEN 0 ELSE score[s][l]
  BY DEF Tick
<1>4. \A h \in Holders : marker[h].until > now' => marker'[h] = marker[h]
  BY <1>a, <1>0 DEF Tick, LeaseTypeOK
<1>5. FreshIds'
  BY <1>a, <1>2, <1>3 DEF FreshIds
<1>6. KeyOutlivesMembers'
  <2> SUFFICES ASSUME NEW s \in Scopes, NEW l \in Leases
               PROVE  score'[s][l] <= now' + Ttl /\ score'[s][l] <= keyExpiry[s]
    BY <1>2 DEF KeyOutlivesMembers
  <2>1. score[s][l] <= now + Ttl /\ score[s][l] <= keyExpiry[s]
    BY <1>a DEF KeyOutlivesMembers
  <2>2. score[s][l] \in Nat /\ keyExpiry[s] \in Nat
    BY <1>a, LeaseTypes
  <2> QED BY <2>1, <2>2, <1>0, <1>3
<1>7. MarkerAgrees'
  <2> SUFFICES ASSUME NEW l \in Leases, NEW s \in Scopes, score'[s][l] > now'
               PROVE  /\ s \in ScopesOf[holderOf[l]]
                      /\ marker'[holderOf[l]].lease = l
                      /\ \A t \in ScopesOf[holderOf[l]] :
                           score'[t][l] = marker'[holderOf[l]].until
    BY <1>2 DEF MarkerAgrees
  <2>0. score[s][l] \in Nat /\ holderOf[l] \in Holders
    BY <1>a, LeaseTypes
  <2>1. score[s][l] > now' /\ score[s][l] > now
    BY <2>0, <1>0, <1>3
  <2>2. /\ s \in ScopesOf[holderOf[l]]
        /\ marker[holderOf[l]].lease = l
        /\ \A t \in ScopesOf[holderOf[l]] :
             score[t][l] = marker[holderOf[l]].until
    BY <1>a, <2>1 DEF MarkerAgrees
  <2>3. \A t \in ScopesOf[holderOf[l]] : score[t][l] > now' /\ t \in Scopes
    BY <2>0, <2>1, <2>2
  <2>4. ASSUME NEW t \in ScopesOf[holderOf[l]] PROVE score'[t][l] = score[t][l]
    <3>1. t \in Scopes /\ score[t][l] > now' /\ score[t][l] <= keyExpiry[t]
      BY <1>a, <2>3 DEF KeyOutlivesMembers
    <3>2. score[t][l] \in Nat /\ keyExpiry[t] \in Nat
      BY <1>a, <3>1, LeaseTypes
    <3> QED BY <3>1, <3>2, <1>0, <1>3
  <2>5. marker'[holderOf[l]] = marker[holderOf[l]]
    BY <2>0, <2>1, <2>2, <1>4
  <2> QED BY <2>2, <2>4, <2>5
<1> QED BY <1>1, <1>5, <1>6, <1>7 DEF LeaseInv

\* The inductive invariant holds in every behaviour of the store.
THEOREM LeaseInvariant == LeaseSpec => []LeaseInv
<1>1. ASSUME LeaseInv, [LeaseNext]_leaseVars PROVE LeaseInv'
  <2>1. CASE UNCHANGED leaseVars
    BY <1>1, <2>1
    DEF leaseVars, LeaseInv, LeaseTypeOK, FreshIds, KeyOutlivesMembers, MarkerAgrees
  <2>2. CASE LeaseNext
    BY <1>1, <2>2, AcquirePreserves, AcquireRejectedPreserves, RenewPreserves,
       ReleasePreserves, AbandonPreserves, TickPreserves
    DEF LeaseNext
  <2> QED BY <1>1, <2>1, <2>2
<1> QED BY <1>1, InitLeaseInv, PTL DEF LeaseSpec

\* Type correctness of the lease store.
THEOREM LeaseTypeCorrect == LeaseSpec => []LeaseTypeOK
<1>1. LeaseInv => LeaseTypeOK
  BY DEF LeaseInv
<1> QED BY <1>1, LeaseInvariant, PTL

\* The ACQUIRE script's promise "one slot in every scope, or none" also holds of
\* what expiry, renewal and release make of those slots later.
THEOREM LeaseAtomic == LeaseSpec => []AllScopesOrNone
<1>1. ASSUME LeaseInv PROVE AllScopesOrNone
  <2> SUFFICES ASSUME NEW l \in Leases, NEW r \in Scopes, score[r][l] > now
               PROVE  /\ \A s \in Scopes : score[s][l] > now => s \in ScopesOf[holderOf[l]]
                      /\ \A s, t \in ScopesOf[holderOf[l]] :
                           score[s][l] > now /\ score[s][l] = score[t][l]
    BY LeaseAssumption, <1>1 DEF AllScopesOrNone, Live, LiveIn, LeaseInv, LeaseTypeOK
  <2>1. /\ r \in ScopesOf[holderOf[l]]
        /\ \A t \in ScopesOf[holderOf[l]] : score[t][l] = marker[holderOf[l]].until
    BY <1>1 DEF LeaseInv, MarkerAgrees
  <2>2. \A s \in Scopes : score[s][l] > now => s \in ScopesOf[holderOf[l]]
    BY <1>1 DEF LeaseInv, MarkerAgrees
  <2> QED BY <2>1, <2>2
<1> QED BY <1>1, LeaseInvariant, PTL

\* A duplicate delivery of an attempt's job never holds a second live slot.
THEOREM LeaseUnique == LeaseSpec => []OneLiveLeasePerHolder
<1>1. ASSUME LeaseInv PROVE OneLiveLeasePerHolder
  <2> SUFFICES ASSUME NEW l \in Leases, NEW m \in Leases,
                      NEW s \in Scopes, score[s][l] > now,
                      NEW t \in Scopes, score[t][m] > now,
                      holderOf[l] = holderOf[m]
               PROVE  l = m
    BY DEF OneLiveLeasePerHolder, Live, LiveIn
  <2>1. marker[holderOf[l]].lease = l /\ marker[holderOf[m]].lease = m
    BY <1>1 DEF LeaseInv, MarkerAgrees
  <2> QED BY <2>1
<1> QED BY <1>1, LeaseInvariant, PTL

\* The live members of a scope set are finitely many.
LEMMA LiveFinite == ASSUME NEW s \in Scopes PROVE IsFiniteSet(LiveIn(s))
<1>1. IsFiniteSet(1..MaxLeases)
  BY LeaseAssumption, FS_Interval
<1>2. LiveIn(s) \subseteq 1..MaxLeases
  BY DEF LiveIn, Leases
<1> QED BY <1>1, <1>2, FS_Subset

\* A scope set that loses live members stays within its limit.
LEMMA ShrinkWithinLimit ==
  ASSUME LeaseInv, NEW s \in Scopes, LiveIn(s)' \subseteq LiveIn(s),
         Cardinality(LiveIn(s)) <= Limit[s]
  PROVE  Cardinality(LiveIn(s)') <= Limit[s]
<1>1. IsFiniteSet(LiveIn(s))
  BY LiveFinite
<1>2. /\ IsFiniteSet(LiveIn(s)')
      /\ Cardinality(LiveIn(s)') <= Cardinality(LiveIn(s))
  BY <1>1, FS_Subset
<1>3. Cardinality(LiveIn(s)) \in Nat /\ Cardinality(LiveIn(s)') \in Nat
  BY <1>1, <1>2, FS_CardinalityType
<1> QED BY <1>2, <1>3, LeaseAssumption

\* Only an acquire adds a live member, one, to a scope set below its limit.
LEMMA LimitPreserved ==
  ASSUME LeaseInv, ScopeWithinLimit, [LeaseNext]_leaseVars
  PROVE  ScopeWithinLimit'
<1> SUFFICES ASSUME NEW s \in Scopes PROVE Cardinality(LiveIn(s)') <= Limit[s]
  BY DEF ScopeWithinLimit
<1> USE LeaseAssumption
<1>a. LeaseTypeOK /\ FreshIds /\ now \in Nat
  BY DEF LeaseInv, LeaseTypeOK
<1>b. Cardinality(LiveIn(s)) <= Limit[s]
  BY DEF ScopeWithinLimit
<1>c. score[s] \in [Leases -> Nat]
  BY <1>a DEF LeaseTypeOK
<1>1. ASSUME NEW w \in Workers, NEW h \in Holders, Acquire(w, h), s \in ScopesOf[h]
      PROVE  Cardinality(LiveIn(s)') <= Limit[s]
  <2>1. next \in Leases /\ Reclaimed(s) \in [Leases -> Nat]
    BY <1>a, <1>c, <1>1 DEF Acquire, Reclaimed, LiveIn, LeaseTypeOK, Leases
  <2>2. score'[s] = [Reclaimed(s) EXCEPT ![next] = now + Ttl] /\ now' = now
    BY <1>1 DEF Acquire, Expires
  <2>3. LiveIn(s)' \subseteq LiveIn(s) \cup {next}
    BY <1>a, <1>c, <2>1, <2>2 DEF LiveIn, Reclaimed
  <2>4. IsFiniteSet(LiveIn(s)) /\ Cardinality(LiveIn(s)) \in Nat
    BY LiveFinite, FS_CardinalityType
  <2>5. /\ IsFiniteSet(LiveIn(s) \cup {next})
        /\ Cardinality(LiveIn(s) \cup {next}) <= Cardinality(LiveIn(s)) + 1
    <3>1. /\ IsFiniteSet(LiveIn(s) \cup {next})
          /\ Cardinality(LiveIn(s) \cup {next}) =
               IF next \in LiveIn(s) THEN Cardinality(LiveIn(s))
                                     ELSE Cardinality(LiveIn(s)) + 1
      BY <2>4, FS_AddElement, Zenon
    <3> QED BY <2>4, <3>1
  <2>6. /\ IsFiniteSet(LiveIn(s)')
        /\ Cardinality(LiveIn(s)') <= Cardinality(LiveIn(s) \cup {next})
    BY <2>3, <2>5, FS_Subset
  <2>7. /\ Cardinality(LiveIn(s)') \in Nat
        /\ Cardinality(LiveIn(s) \cup {next}) \in Nat
    BY <2>5, <2>6, FS_CardinalityType
  <2>8. ~(Cardinality(LiveIn(s)) >= Limit[s])
    BY <1>1 DEF Acquire, Full, AtLimit
  <2>9. Limit[s] \in Nat
    OBVIOUS
  <2> QED BY <2>4, <2>5, <2>6, <2>7, <2>8, <2>9
<1>2. ASSUME NEW w \in Workers, NEW h \in Holders, Acquire(w, h), s \notin ScopesOf[h]
      PROVE  LiveIn(s)' \subseteq LiveIn(s)
  BY <1>2 DEF Acquire, LiveIn
<1>3. ASSUME NEW w \in Workers, NEW h \in Holders, AcquireRejected(w, h)
      PROVE  LiveIn(s)' \subseteq LiveIn(s)
  BY <1>a, <1>c, <1>3 DEF AcquireRejected, LiveIn, Reclaimed
<1>4. ASSUME NEW w \in Workers, Renew(w)
      PROVE  LiveIn(s)' \subseteq LiveIn(s)
  <2>1. /\ now' = now
        /\ \/ score'[s] = score[s]
           \/ /\ score'[s] = [score[s] EXCEPT ![handle[w]] = now + Ttl]
              /\ score[s][handle[w]] > now
    BY <1>4 DEF Renew, Expires, Renewed
  <2> QED BY <1>a, <1>c, <2>1 DEF LiveIn
<1>5. ASSUME NEW w \in Workers, Release(w)
      PROVE  LiveIn(s)' \subseteq LiveIn(s)
  <2>1. /\ now' = now
        /\ score'[s] = score[s] \/ score'[s] = [score[s] EXCEPT ![handle[w]] = 0]
    BY <1>5 DEF Release
  <2> QED BY <1>a, <1>c, <2>1 DEF LiveIn
<1>6. ASSUME NEW w \in Workers, Abandon(w)
      PROVE  LiveIn(s)' \subseteq LiveIn(s)
  BY <1>6 DEF Abandon, LiveIn
<1>7. ASSUME Tick
      PROVE  LiveIn(s)' \subseteq LiveIn(s)
  <2>1. /\ now' = now + 1
        /\ score'[s] = score[s] \/ score'[s] = [l \in Leases |-> 0]
    BY <1>7 DEF Tick
  <2> QED BY <1>a, <1>c, <2>1 DEF LiveIn
<1>8. CASE UNCHANGED leaseVars
  BY <1>8, <1>b, ShrinkWithinLimit DEF leaseVars, LiveIn
<1> QED
  BY <1>b, <1>1, <1>2, <1>3, <1>4, <1>5, <1>6, <1>7, <1>8, ShrinkWithinLimit
  DEF LeaseNext

\* Capacity: no interleaving of acquires, renewals, late releases, lost workers
\* and expiry puts more unexpired leases into a scope than its limit.
THEOREM LeaseCapacity == LeaseSpec => []ScopeWithinLimit
<1>1. ASSUME LeaseInit PROVE ScopeWithinLimit
  <2> SUFFICES ASSUME NEW s \in Scopes PROVE Cardinality(LiveIn(s)) <= Limit[s]
    BY DEF ScopeWithinLimit
  <2>1. LiveIn(s) = {}
    BY <1>1 DEF LeaseInit, LiveIn, Leases
  <2>2. Cardinality(LiveIn(s)) = 0
    BY <2>1, FS_EmptySet
  <2> QED BY <2>2, LeaseAssumption
<1> QED BY <1>1, LimitPreserved, LeaseInvariant, PTL DEF LeaseSpec

\* An unexpired lease leaves a scope set only when the worker that holds it
\* releases it: reclaims, stale releases and key expiry free nobody else's slot.
THEOREM LeaseOwnership == LeaseSpec => OnlyOwnerFrees
<1> DEFINE Owned == \A l \in Leases, s \in Scopes :
                      score[s][l] > now' /\ score'[s][l] = 0 =>
                        \E w \in Workers : handle[w] = l /\ handle'[w] = 0
<1>1. ASSUME LeaseInv, LeaseNext PROVE Owned
  <2> SUFFICES ASSUME NEW l \in Leases, NEW s \in Scopes,
                      score[s][l] > now', score'[s][l] = 0
               PROVE  \E w \in Workers : handle[w] = l /\ handle'[w] = 0
    OBVIOUS
  <2> USE LeaseAssumption
  <2>a. /\ LeaseTypeOK /\ now \in Nat /\ score[s] \in [Leases -> Nat]
        /\ handle \in [Workers -> Leases \cup {0}]
    BY <1>1 DEF LeaseInv, LeaseTypeOK
  <2>1. ASSUME NEW v \in Workers, NEW h \in Holders, Acquire(v, h) PROVE FALSE
    <3>1. now' = now /\ score[s][l] > now
      BY <2>1 DEF Acquire
    <3>2. Reclaimed(s) \in [Leases -> Nat] /\ Reclaimed(s)[l] = score[s][l]
      BY <2>a, <3>1 DEF Reclaimed, LiveIn
    <3>3. \/ score'[s] = score[s]
          \/ score'[s] = [Reclaimed(s) EXCEPT ![next] = now + Ttl]
      BY <2>1 DEF Acquire, Expires
    <3>4. score[s][l] # 0 /\ now + Ttl # 0
      BY <2>a, <3>1
    <3>5. score'[s][l] # 0
      BY <3>2, <3>3, <3>4
    <3> QED BY <3>5
  <2>2. ASSUME NEW v \in Workers, NEW h \in Holders, AcquireRejected(v, h) PROVE FALSE
    BY <2>a, <2>2 DEF AcquireRejected, Reclaimed, LiveIn
  <2>3. ASSUME NEW v \in Workers, Renew(v) PROVE FALSE
    <3>1. /\ now' = now
          /\ \/ score'[s] = score[s]
             \/ score'[s] = [score[s] EXCEPT ![handle[v]] = now + Ttl]
      BY <2>3 DEF Renew, Expires, Renewed
    <3> QED BY <2>a, <3>1
  <2>4. ASSUME NEW v \in Workers, Release(v) PROVE handle[v] = l /\ handle'[v] = 0
    <3>1. /\ now' = now /\ handle' = [handle EXCEPT ![v] = 0]
          /\ score'[s] = score[s] \/ score'[s] = [score[s] EXCEPT ![handle[v]] = 0]
      BY <2>4 DEF Release
    <3> QED BY <2>a, <3>1
  <2>5. ASSUME NEW v \in Workers, Abandon(v) PROVE FALSE
    BY <2>a, <2>5 DEF Abandon
  <2>6. ASSUME Tick PROVE FALSE
    <3>1. score[s][l] <= keyExpiry[s] /\ keyExpiry[s] \in Nat
      BY <1>1 DEF LeaseInv, KeyOutlivesMembers, LeaseTypeOK
    <3>2. now' = now + 1
      BY <2>6 DEF Tick
    <3>3. ~(keyExpiry[s] <= now')
      BY <2>a, <3>1, <3>2
    <3>4. score'[s] = score[s]
      BY <2>6, <3>3 DEF Tick
    <3> QED BY <2>a, <3>2, <3>4
  <2> QED BY <1>1, <2>1, <2>2, <2>3, <2>4, <2>5, <2>6 DEF LeaseNext
<1>2. LeaseInv /\ [LeaseNext]_leaseVars => [Owned]_leaseVars
  BY <1>1
<1> QED BY <1>2, LeaseInvariant, PTL DEF LeaseSpec, OnlyOwnerFrees
=============================================================================
