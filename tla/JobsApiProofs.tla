--------------------------- MODULE JobsApiProofs ---------------------------
(***************************************************************************)
(* Proofs about AnalyticsCache and, on top of it, JobsApi, for any         *)
(* requests, users, ranges, ids, columns, values and initial tables.       *)
(*                                                                         *)
(* The argument: the handlers implement the protocol of AnalyticsCache, so *)
(* what is proved of that protocol holds here; and a handler finds its row *)
(* gone after its own commit only if a later commit of the same user took  *)
(* it away (Overtaken), which is what makes skipping the wipe harmless.    *)
(* A user's rows change only with the number of the user's writes, so a    *)
(* summary of that number shows the rows there are (Recorded).             *)
(* And what a request committed to a field is still there, or was passed   *)
(* on by PATCHes of that field (Accounted): an UPDATE names no other.      *)
(***************************************************************************)
EXTENDS JobsApi, TLAPS

-----------------------------------------------------------------------------
(* The cache protocol.  A summary that a writer still has to delete is     *)
(* either older than its SCAN, and then among the keys the SCAN cannot     *)
(* miss, or stored since its commit (WipeInv).                             *)

LEMMA KeyReadType ==
    ASSUME CacheTypeOK, NEW r \in Requests
    PROVE  KeyRead(r) \in Keys /\ KeyRead(r)[1] = user[r]
  BY DEF CacheTypeOK, KeyRead, Keys

LEMMA KeyUser == \A k \in Keys : k[1] \in Users
  BY DEF Keys

(* Every state is well typed; in particular a cached summary is always a   *)
(* whole entry (cache.py:19-27).                                           *)
THEOREM CacheTypeCorrect == CacheSpec => []CacheTypeOK
<1>1. CacheInit => CacheTypeOK
  BY DEF CacheInit, CacheTypeOK, Steps
<1>2. CacheTypeOK /\ [CacheNext]_cacheVars => CacheTypeOK'
  <2> SUFFICES ASSUME CacheTypeOK, [CacheNext]_cacheVars PROVE CacheTypeOK'
    OBVIOUS
  <2>1. ASSUME NEW r \in Requests, Write(r) PROVE CacheTypeOK'
    BY <2>1 DEF CacheTypeOK, Write, Steps
  <2>2. ASSUME NEW r \in Requests, WriteNothing(r) PROVE CacheTypeOK'
    BY <2>2 DEF CacheTypeOK, WriteNothing, Steps
  <2>3. ASSUME NEW r \in Requests, Lookup(r) PROVE CacheTypeOK'
    <3>1. cache[KeyRead(r)] \in Entry \cup {Miss}
      BY KeyReadType DEF CacheTypeOK
    <3>2. cache[KeyRead(r)] # Miss => cache[KeyRead(r)].ver \in Nat
      BY <3>1 DEF Entry
    <3> QED  BY <2>3, <3>2 DEF CacheTypeOK, Lookup, Steps, Final
  <2>4. ASSUME NEW r \in Requests, StartWipe(r) PROVE CacheTypeOK'
    BY <2>4 DEF CacheTypeOK, StartWipe, Steps, KeysOf
  <2>5. ASSUME NEW r \in Requests, NEW k \in Keys, WipeKey(r, k) PROVE CacheTypeOK'
    BY <2>5 DEF CacheTypeOK, WipeKey, Remove
  <2>6. ASSUME NEW r \in Requests, EndWipe(r) PROVE CacheTypeOK'
    BY <2>6 DEF CacheTypeOK, EndWipe, Steps, Final
  <2>7. ASSUME NEW r \in Requests, Query(r) PROVE CacheTypeOK'
    BY <2>7 DEF CacheTypeOK, Query, Steps
  <2>8. ASSUME NEW r \in Requests, Fill(r) PROVE CacheTypeOK'
    <3>1. Stored([ver |-> seen[r], at |-> rev[user[r]], expires |-> TRUE]) \in Entry
      BY DEF Stored, Entry, CacheTypeOK
    <3> QED  BY <2>8, <3>1, KeyReadType DEF CacheTypeOK, Fill, Steps, Final
  <2>9. ASSUME NEW r \in Requests, Fail(r) PROVE CacheTypeOK'
    BY <2>9 DEF CacheTypeOK, Fail, Steps, Final
  <2>10. ASSUME NEW k \in Keys, Expire(k) PROVE CacheTypeOK'
    BY <2>10 DEF CacheTypeOK, Expire, Remove
  <2>11. CASE RedisRestart
    BY <2>11 DEF CacheTypeOK, RedisRestart
  <2>12. CASE UNCHANGED cacheVars
    BY <2>12 DEF CacheTypeOK, cacheVars
  <2> QED
    BY <2>1, <2>2, <2>3, <2>4, <2>5, <2>6, <2>7, <2>8, <2>9, <2>10, <2>11, <2>12
    DEF CacheNext, Progress
<1> QED
  BY <1>1, <1>2, PTL DEF CacheSpec

-----------------------------------------------------------------------------
(* The inductive invariant of the protocol                                 *)

\* A summary stored before r's commit waits for r: r has not begun to wipe, or
\* has failed, or cannot miss the key.
Owed(r, k) ==
    \/ step[r] \in {"written", "failed"}
    \/ step[r] = "wiping" /\ k \in must[r]

WipeInv ==
    /\ \A r \in Requests : mine[r] <= rev[user[r]]
    /\ \A r \in Requests : step[r] \in {"idle", "missed", "queried", "served"} => mine[r] = 0
    /\ \A r \in Requests : seen[r] <= rev[user[r]]
    /\ \A k \in Keys : cache[k] # Miss =>
          /\ cache[k].ver <= cache[k].at
          /\ cache[k].at <= rev[k[1]]
    /\ \A r \in Requests, k \in Keys :
          k[1] = user[r] /\ cache[k] # Miss /\ cache[k].at < mine[r] => Owed(r, k)

\* Every commit has a request that made it.
Authored ==
    \A u \in Users : rev[u] > 0 =>
        \E r \in Requests : user[r] = u /\ mine[r] = rev[u]

LEMMA RemoveKeepsWipeInv ==
    ASSUME CacheTypeOK, WipeInv, NEW k \in Keys, Remove(k),
           UNCHANGED <<user, rev, mine, range>>,
           \A r \in Requests : seen'[r] = seen[r] /\ step'[r] = step[r]
    PROVE  WipeInv'
<1>1. \A j \in Keys : (cache'[j] = cache[j] /\ j # k) \/ cache'[j] = Miss
  BY DEF Remove, CacheTypeOK
<1>2. \A r \in Requests : must'[r] = must[r] \ {k}
  BY DEF Remove
<1>3. \A r \in Requests, j \in Keys : cache'[j] # Miss /\ Owed(r, j) => Owed(r, j)'
  BY <1>1, <1>2 DEF Owed
<1> QED
  BY <1>1, <1>3 DEF WipeInv, CacheTypeOK

LEMMA WipeInvInductive == CacheSpec => [](WipeInv /\ Authored)
<1>1. CacheInit => WipeInv /\ Authored
  BY DEF CacheInit, WipeInv, Authored
<1>2. CacheTypeOK /\ CacheTypeOK' /\ WipeInv /\ [CacheNext]_cacheVars => WipeInv'
  <2> SUFFICES ASSUME CacheTypeOK, CacheTypeOK', WipeInv, [CacheNext]_cacheVars PROVE WipeInv'
    OBVIOUS
  <2>0. \A k \in Keys : k[1] \in Users /\ (cache[k] # Miss => cache[k] \in Entry)
    BY KeyUser DEF CacheTypeOK
  <2>1. ASSUME NEW r \in Requests, Write(r) PROVE WipeInv'
    <3>1. /\ \A u \in Users : rev[u] <= rev'[u]
          /\ \A s \in Requests : s # r => mine'[s] = mine[s] /\ step'[s] = step[s]
          /\ mine'[r] = rev'[user[r]] /\ step'[r] = "written"
          /\ UNCHANGED <<user, cache, must, range, seen>>
      BY <2>1 DEF Write, CacheTypeOK
    <3>2. \A s \in Requests : user[s] \in Users /\ rev[user[s]] \in Nat /\ rev'[user[s]] \in Nat
             /\ mine[s] \in Nat /\ mine'[s] \in Nat /\ seen[s] \in Nat
      BY <3>1 DEF CacheTypeOK
    <3>3. \A k \in Keys : cache[k] # Miss =>
             cache[k].ver <= cache[k].at /\ cache[k].at <= rev'[k[1]]
      BY <2>0, <3>1 DEF WipeInv, Entry, CacheTypeOK
    <3>4. \A s \in Requests, k \in Keys :
             k[1] = user[s] /\ cache[k] # Miss /\ cache[k].at < mine'[s] => Owed(s, k)'
      BY <3>1 DEF WipeInv, Owed
    <3> QED  BY <3>1, <3>2, <3>3, <3>4 DEF WipeInv
  <2>2. ASSUME NEW r \in Requests,
               WriteNothing(r) \/ Lookup(r) \/ Query(r) \/ StartWipe(r) \/ EndWipe(r) \/ Fail(r)
        PROVE  WipeInv'
    <3>1. UNCHANGED <<user, rev, cache, mine, range>>
      BY <2>2 DEF WriteNothing, Lookup, Query, StartWipe, EndWipe, Fail
    <3>2. \A s \in Requests : seen'[s] <= rev[user[s]]
      <4>1. CASE Lookup(r)
        <5>1. cache[KeyRead(r)] # Miss => cache[KeyRead(r)].ver <= rev[user[r]]
          BY <2>0, KeyReadType DEF WipeInv, Entry, CacheTypeOK
        <5> QED  BY <4>1, <5>1 DEF Lookup, WipeInv, CacheTypeOK
      <4>2. CASE Query(r)
        BY <4>2 DEF Query, WipeInv, CacheTypeOK
      <4>3. CASE WriteNothing(r) \/ StartWipe(r) \/ EndWipe(r) \/ Fail(r)
        BY <4>3 DEF WriteNothing, StartWipe, EndWipe, Fail, WipeInv
      <4> QED  BY <2>2, <4>1, <4>2, <4>3
    <3>3. \A s \in Requests : step'[s] \in {"idle", "missed", "queried", "served"} => mine[s] = 0
      BY <2>2 DEF WriteNothing, Lookup, Query, StartWipe, EndWipe, Fail, WipeInv, CacheTypeOK
    <3>4. ASSUME NEW s \in Requests, NEW k \in Keys,
                 k[1] = user[s], cache[k] # Miss, cache[k].at < mine[s]
          PROVE  Owed(s, k)'
      <4>1. Owed(s, k)
        BY <3>4 DEF WipeInv
      <4>2. CASE StartWipe(r)
        BY <3>4, <4>1, <4>2 DEF StartWipe, Owed, KeysOf, CacheTypeOK
      <4>3. CASE EndWipe(r)
        BY <4>1, <4>3 DEF EndWipe, Owed, CacheTypeOK
      <4>4. CASE WriteNothing(r) \/ Lookup(r) \/ Query(r) \/ Fail(r)
        BY <4>1, <4>4 DEF WriteNothing, Lookup, Query, Fail, Owed, CacheTypeOK, Final
      <4> QED  BY <2>2, <4>2, <4>3, <4>4
    <3> QED  BY <3>1, <3>2, <3>3, <3>4 DEF WipeInv
  <2>3. ASSUME NEW r \in Requests, NEW k \in Keys, WipeKey(r, k) PROVE WipeInv'
    BY <2>3, RemoveKeepsWipeInv DEF WipeKey
  <2>4. ASSUME NEW k \in Keys, Expire(k) PROVE WipeInv'
    BY <2>4, RemoveKeepsWipeInv DEF Expire
  <2>5. ASSUME NEW r \in Requests, Fill(r) PROVE WipeInv'
    <3> DEFINE e == [ver |-> seen[r], at |-> rev[user[r]], expires |-> TRUE]
    <3>1. KeyRead(r) \in Keys /\ KeyRead(r)[1] = user[r]
      BY KeyReadType
    <3>2. /\ UNCHANGED <<user, rev, mine, must, seen>>
          /\ \A k \in Keys : cache'[k] = IF k = KeyRead(r) THEN e ELSE cache[k]
          /\ \A s \in Requests : s # r => step'[s] = step[s]
          /\ step[r] = "queried" /\ step'[r] = "served"
      BY <2>5, <3>1 DEF Fill, Stored, CacheTypeOK
    <3>3. e.ver = seen[r] /\ e.at = rev[user[r]]
      OBVIOUS
    <3>4. \A k \in Keys : cache'[k] # Miss =>
             cache'[k].ver <= cache'[k].at /\ cache'[k].at <= rev[k[1]]
      BY <3>1, <3>2, <3>3 DEF WipeInv, CacheTypeOK
    <3>5. ASSUME NEW s \in Requests, NEW k \in Keys,
                 k[1] = user[s], cache'[k] # Miss, cache'[k].at < mine[s]
          PROVE  Owed(s, k)'
      <4>1. k # KeyRead(r)
        <5>1. mine[s] <= rev[user[s]] /\ mine[s] \in Nat /\ rev[user[s]] \in Nat
          BY DEF WipeInv, CacheTypeOK
        <5> QED  BY <3>1, <3>2, <3>3, <3>5, <5>1
      <4>2. Owed(s, k)
        BY <3>2, <3>5, <4>1 DEF WipeInv
      <4> QED  BY <3>2, <4>2 DEF Owed
    <3>6. \A s \in Requests : step'[s] \in {"idle", "missed", "queried", "served"} => mine[s] = 0
      BY <3>2 DEF WipeInv
    <3> HIDE DEF e
    <3> QED  BY <3>2, <3>4, <3>5, <3>6 DEF WipeInv
  <2>6. CASE RedisRestart
    BY <2>6 DEF RedisRestart, WipeInv
  <2>7. CASE UNCHANGED cacheVars
    BY <2>7 DEF cacheVars, WipeInv, Owed
  <2> QED
    BY <2>1, <2>2, <2>3, <2>4, <2>5, <2>6, <2>7 DEF CacheNext, Progress
<1>3. CacheTypeOK /\ WipeInv /\ Authored /\ [CacheNext]_cacheVars => Authored'
  <2> SUFFICES ASSUME CacheTypeOK, WipeInv, Authored, [CacheNext]_cacheVars PROVE Authored'
    OBVIOUS
  <2>1. ASSUME NEW r \in Requests, Write(r) PROVE Authored'
    <3> SUFFICES ASSUME NEW u \in Users, rev'[u] > 0
                 PROVE  \E s \in Requests : user'[s] = u /\ mine'[s] = rev'[u]
      BY DEF Authored
    <3>1. CASE u = user[r]
      BY <2>1, <3>1 DEF Write, CacheTypeOK
    <3>2. CASE u # user[r]
      <4>1. rev'[u] = rev[u] /\ user' = user
        BY <2>1, <3>2 DEF Write, CacheTypeOK
      <4>2. PICK s \in Requests : user[s] = u /\ mine[s] = rev[u]
        BY <4>1 DEF Authored
      <4> QED  BY <2>1, <3>2, <4>1, <4>2 DEF Write, CacheTypeOK
    <3> QED  BY <3>1, <3>2
  <2>2. CASE UNCHANGED <<user, rev, mine>>
    BY <2>2 DEF Authored
  <2> QED
    BY <2>1, <2>2
    DEF CacheNext, Progress, WriteNothing, Lookup, StartWipe, WipeKey, EndWipe, Query, Fill, Fail,
        Expire, RedisRestart, cacheVars
<1> QED
  BY <1>1, <1>2, <1>3, CacheTypeCorrect, PTL DEF CacheSpec

-----------------------------------------------------------------------------
(* What the protocol promises                                              *)

(* "Wipe any cached analytics for this user — call after any job write"    *)
(* (jobs.py:20): what outlives a completed wipe was stored after the       *)
(* commit the wipe was for, whatever other requests, failures, expiries    *)
(* and restarts of Redis came in between.                                  *)
THEOREM WipesAreComplete == CacheSpec => []SurvivorsStoredLater
<1>1. CacheTypeOK /\ WipeInv => SurvivorsStoredLater
  <2> SUFFICES ASSUME CacheTypeOK, WipeInv, NEW r \in Requests, NEW k \in Keys,
                      step[r] = "wiped", k[1] = user[r], cache[k] # Miss
               PROVE  cache[k].at >= mine[r]
    BY DEF SurvivorsStoredLater
  <2>1. cache[k].at \in Nat /\ mine[r] \in Nat
    BY DEF CacheTypeOK, Entry
  <2>2. ~ Owed(r, k)
    BY DEF Owed
  <2> QED  BY <2>1, <2>2 DEF WipeInv
<1> QED
  BY <1>1, CacheTypeCorrect, WipeInvInductive, PTL

(* Out-of-date summaries have two causes only: a fill that straddled a     *)
(* write, and a last writer that has yet to wipe the key or failed.        *)
THEOREM StalenessHasACause == CacheSpec => []StaleExplained
<1>1. CacheTypeOK /\ WipeInv /\ Authored => StaleExplained
  <2> SUFFICES ASSUME CacheTypeOK, WipeInv, Authored, NEW k \in Keys, Stale(k),
                      ~ (cache[k].ver < cache[k].at)
               PROVE  \E r \in Requests :
                         /\ user[r] = k[1]
                         /\ mine[r] = rev[k[1]]
                         /\ \/ step[r] \in {"written", "failed"}
                            \/ step[r] = "wiping" /\ k \in must[r]
    BY DEF StaleExplained
  <2>1. k[1] \in Users /\ rev[k[1]] \in Nat /\ cache[k].ver \in Nat /\ cache[k].at \in Nat
    BY KeyUser DEF CacheTypeOK, Stale, Entry
  <2>2. cache[k].at < rev[k[1]]
    BY <2>1 DEF Stale
  <2>3. PICK r \in Requests : user[r] = k[1] /\ mine[r] = rev[k[1]]
    BY <2>1, <2>2 DEF Authored
  <2>4. Owed(r, k)
    BY <2>2, <2>3 DEF WipeInv, Stale
  <2> QED  BY <2>3, <2>4 DEF Owed
<1> QED
  BY <1>1, CacheTypeCorrect, WipeInvInductive, PTL


-----------------------------------------------------------------------------
(* The handlers implement it                                               *)

\* Every handler step is a step of the cache protocol or leaves the cache alone.
LEMMA ImplementsCache == Spec => CacheSpec
<1>1. Init => CacheInit
  BY DEF Init
<1>2. [Next]_vars => [CacheNext]_cacheVars
  <2> SUFFICES ASSUME [Next]_vars PROVE CacheNext \/ UNCHANGED cacheVars
    OBVIOUS
  <2>1. ASSUME NEW r \in Requests,
               CreateJob(r) \/ LoadJob(r) \/ UpdateJob(r) \/ DeleteJob(r) \/ Refresh(r) \/ Crash(r)
        PROVE  CacheNext \/ UNCHANGED cacheVars
    BY <2>1 DEF CreateJob, LoadJob, UpdateJob, DeleteJob, Refresh, Crash, CacheNext
  <2>2. ASSUME NEW r \in Requests, Invalidate(r) \/ Summary(r)
        PROVE  CacheNext \/ UNCHANGED cacheVars
    BY <2>2 DEF Invalidate, Summary, CacheNext, Progress
  <2>3. CASE Environment
    BY <2>3 DEF Environment, CacheNext
  <2>4. CASE UNCHANGED vars
    BY <2>4 DEF vars
  <2> QED  BY <2>1, <2>2, <2>3, <2>4 DEF Next
<1> QED
  BY <1>1, <1>2, PTL DEF Spec, CacheSpec

CacheInv == CacheTypeOK /\ WipeInv /\ Authored

LEMMA CacheInvariant == Spec => []CacheInv
  BY ImplementsCache, CacheTypeCorrect, WipeInvInductive, PTL DEF CacheInv

-----------------------------------------------------------------------------
(* Types                                                                   *)

\* The data of an UPDATE that does not fail keeps the table's constraints.
LEMMA WrittenStorable ==
    ASSUME NEW r \in Requests, NEW d \in Data, Storable(d),
           body[r] \in Bodies \cup {NoBody}, loaded[r] \in Data,
           Storable([f \in Changed(r) |-> body[r][f]])
    PROVE  Written(r, d) \in Data /\ Storable(Written(r, d))
<1>1. \A f \in DOMAIN body[r] : f \in Fields /\ body[r][f] \in Values \cup {Null}
  BY SchemaAssumption DEF NoBody
<1>2. Written(r, d) \in Data
  BY <1>1 DEF Written, Flushed, NetChanges, Data
<1>3. ASSUME NEW f \in NotNull, f \in Fields PROVE Written(r, d)[f] # Null
  <2>1. CASE f \in Changed(r)
    BY <1>3, <2>1 DEF Written, Flushed, Changed, Storable, Data
  <2>2. CASE f \notin Changed(r)
    BY <1>3, <2>2 DEF Written, Flushed, Changed, Storable, Data
  <2> QED  BY <2>1, <2>2
<1> QED  BY <1>2, <1>3 DEF Storable, Data

(* Every state is well typed, and every stored row satisfies the NOT NULL  *)
(* constraints (models/job.py), whatever bodies clients send.              *)
THEOREM TypeCorrect == Spec => []TypeOK
<1>1. Init => TypeOK
  <2> SUFFICES ASSUME Init PROVE TypeOK
    OBVIOUS
  <2>1. CacheTypeOK
    BY DEF Init, CacheInit, CacheTypeOK, Steps
  <2>2. jobs \in [JobIds -> Row \cup {Unborn, Deleted}]
    BY SchemaAssumption DEF Init
  <2>3. \A j \in JobIds : Exists(j) => Storable(jobs[j].data)
    BY SchemaAssumption DEF Init, Exists
  <2> QED  BY <2>1, <2>2, <2>3 DEF Init, TypeOK, Pcs, Ops, Data
<1>2. TypeOK /\ CacheTypeOK' /\ [Next]_vars => TypeOK'
  <2> SUFFICES ASSUME TypeOK, CacheTypeOK', [Next]_vars PROVE TypeOK'
    OBVIOUS
  <2>0. /\ base' \in [Requests -> SUBSET (JobIds \X Data)]
        /\ shows' \in [Keys -> SUBSET (JobIds \X Data)]
    <3>1. \A u \in Users : RowsOf(u) \in SUBSET (JobIds \X Data)
      BY DEF RowsOf, Exists, Row
    <3>2. ASSUME NEW r \in Requests, Summary(r)
          PROVE  /\ base' \in [Requests -> SUBSET (JobIds \X Data)]
                 /\ shows' \in [Keys -> SUBSET (JobIds \X Data)]
      <4> DEFINE Shown == SUBSET (JobIds \X Data)
      <4>1. base \in [Requests -> Shown] /\ shows \in [Keys -> Shown]
        BY DEF TypeOK
      <4>2. RowsOf(user[r]) \in Shown /\ base[r] \in Shown
        BY <3>1, <4>1 DEF TypeOK, CacheTypeOK
      <4>3. \/ UNCHANGED history
            \/ base' = [base EXCEPT ![r] = RowsOf(user[r])] /\ shows' = shows
            \/ base' = base /\ shows' = [shows EXCEPT ![KeyRead(r)] = base[r]]
        BY <3>2 DEF Summary
      <4> HIDE DEF Shown
      <4>4. base' \in [Requests -> Shown] /\ shows' \in [Keys -> Shown]
        BY <4>1, <4>2, <4>3 DEF history
      <4> QED  BY <4>4 DEF Shown
    <3>3. (\E r \in Requests : Summary(r)) \/ UNCHANGED <<base, shows>>
      BY DEF Next, CreateJob, LoadJob, UpdateJob, DeleteJob, Refresh, Invalidate, Crash,
             Environment, vars, history
    <3> QED  BY <3>2, <3>3 DEF TypeOK
  <2>1. ASSUME NEW r \in Requests, CreateJob(r) PROVE TypeOK'
    <3>1. PICK j \in JobIds, d \in Bodies \cap Data :
            /\ Storable(d)
            /\ jobs' = [jobs EXCEPT ![j] = [owner |-> user[r], data |-> d]]
            /\ target' = [target EXCEPT ![r] = j]
            /\ body' = [body EXCEPT ![r] = d]
      BY <2>1 DEF CreateJob
    <3>2. [owner |-> user[r], data |-> d] \in Row
      BY DEF TypeOK, CacheTypeOK, Row
    <3>3. jobs' \in [JobIds -> Row \cup {Unborn, Deleted}]
      BY <3>1, <3>2 DEF TypeOK
    <3>4. \A i \in JobIds : Exists(i)' => Storable(jobs'[i].data)
      BY <3>1, <3>2 DEF TypeOK, Exists
    <3>5. /\ op' \in [Requests -> Ops] /\ pc' \in [Requests -> Pcs] /\ loaded' \in [Requests -> Data]
          /\ target' \in [Requests -> JobIds \cup {NoJob}]
          /\ body' \in [Requests -> Bodies \cup {NoBody}]
      BY <2>1, <3>1 DEF CreateJob, Goto, TypeOK, Ops, Pcs
    <3> QED  BY <2>0, <3>3, <3>4, <3>5 DEF TypeOK
  <2>2. ASSUME NEW r \in Requests, LoadJob(r) PROVE TypeOK'
    <3>1. PICK j \in JobIds, q \in JobRequests :
            /\ op' = [op EXCEPT ![r] = q[1]]
            /\ body' = [body EXCEPT ![r] = q[2]]
            /\ target' = [target EXCEPT ![r] = j]
            /\ \/ Exists(j) /\ loaded' = [loaded EXCEPT ![r] = jobs[j].data]
               \/ UNCHANGED loaded
      BY <2>2 DEF LoadJob, Owned
    <3>2. q[1] \in Ops /\ q[2] \in Bodies \cup {NoBody}
      BY DEF JobRequests, Ops
    <3>3. Exists(j) => jobs[j].data \in Data
      BY DEF Exists, Row
    <3>4. loaded' \in [Requests -> Data]
      BY <3>1, <3>3 DEF TypeOK
    <3>5. pc' \in [Requests -> Pcs] /\ jobs' = jobs
      BY <2>2 DEF LoadJob, Goto, TypeOK, Pcs, Done
    <3> QED  BY <2>0, <3>1, <3>2, <3>4, <3>5 DEF TypeOK, Exists
  <2>3. ASSUME NEW r \in Requests, UpdateJob(r) PROVE TypeOK'
    <3>1. UNCHANGED <<op, target, body, loaded>> /\ pc' \in [Requests -> Pcs]
      BY <2>3 DEF UpdateJob, Goto, TypeOK, Pcs, Done
    <3>2. CASE UNCHANGED jobs
      BY <2>0, <3>1, <3>2 DEF TypeOK, Exists
    <3>3. CASE ~ UNCHANGED jobs
      <4> DEFINE j == target[r]
      <4>1. /\ Exists(j) /\ Storable([f \in Changed(r) |-> body[r][f]])
            /\ jobs' = [jobs EXCEPT ![j] = [jobs[j] EXCEPT !.data = Written(r, jobs[j].data)]]
        BY <2>3, <3>3 DEF UpdateJob, UpdateFails
      <4>2. CASE j \in JobIds
        <5>1. jobs[j] \in Row /\ jobs[j].data \in Data /\ Storable(jobs[j].data)
          BY <4>1, <4>2 DEF TypeOK, Exists, Row
        <5>2. Written(r, jobs[j].data) \in Data /\ Storable(Written(r, jobs[j].data))
          BY <4>1, <5>1, WrittenStorable DEF TypeOK
        <5>3. [jobs[j] EXCEPT !.data = Written(r, jobs[j].data)] \in Row
              /\ [jobs[j] EXCEPT !.data = Written(r, jobs[j].data)].data = Written(r, jobs[j].data)
          BY <5>1, <5>2 DEF Row
        <5> QED  BY <2>0, <3>1, <4>1, <4>2, <5>2, <5>3 DEF TypeOK, Exists
      <4>3. CASE j \notin JobIds
        BY <3>3, <4>1, <4>3 DEF TypeOK
      <4> QED  BY <4>2, <4>3
    <3> QED  BY <3>2, <3>3
  <2>4. ASSUME NEW r \in Requests, DeleteJob(r) PROVE TypeOK'
    <3>1. UNCHANGED <<op, target, body, loaded>> /\ pc' \in [Requests -> Pcs]
      BY <2>4 DEF DeleteJob, Goto, TypeOK, Pcs
    <3>2. jobs' = jobs \/ jobs' = [jobs EXCEPT ![target[r]] = Deleted]
      BY <2>4 DEF DeleteJob
    <3> QED  BY <2>0, <3>1, <3>2, SchemaAssumption DEF TypeOK, Exists
  <2>5. ASSUME NEW r \in Requests, Refresh(r) \/ Invalidate(r) \/ Crash(r) PROVE TypeOK'
    BY <2>0, <2>5 DEF Refresh, Invalidate, Crash, Goto, TypeOK, Exists, Pcs, Done
  <2>6. ASSUME NEW r \in Requests, Summary(r) PROVE TypeOK'
    BY <2>0, <2>6 DEF Summary, Goto, TypeOK, Exists, Pcs, Done, Ops
  <2>7. CASE Environment \/ UNCHANGED vars
    BY <2>0, <2>7 DEF Environment, vars, TypeOK, Exists
  <2> QED  BY <2>1, <2>2, <2>3, <2>4, <2>5, <2>6, <2>7 DEF Next
<1> QED
  BY <1>1, <1>2, CacheInvariant, PTL DEF Spec, CacheInv

-----------------------------------------------------------------------------
(* The inductive invariant of the API                                      *)

\* A handler's step in the protocol goes with its own.
Linked ==
    \A r \in Requests :
        /\ pc[r] \in {"start", "loaded"} => step[r] = "idle"
        /\ pc[r] = "refresh" => step[r] = "written"
        /\ pc[r] = "wipe" => step[r] \in {"written", "wiping"}
        /\ step[r] = "written" => pc[r] \in {"refresh", "wipe"}
        /\ step[r] = "wiping" => pc[r] = "wipe"
        /\ step[r] = "failed" => pc[r] \in {"500", "crashed"}

\* The row a handler works on is its user's, or deleted.
Targeted ==
    \A r \in Requests : pc[r] \in {"loaded", "refresh"} =>
        /\ target[r] \in JobIds
        /\ jobs[target[r]] # Unborn
        /\ Exists(target[r]) => jobs[target[r]].owner = user[r]

\* A handler that finds its row gone after its own commit is no longer the
\* last writer of its user.
Overtaken ==
    \A r \in Requests :
        /\ mine[r] > 0
        /\ \/ pc[r] = "500"
           \/ pc[r] = "refresh" /\ ~ Exists(target[r])
        => mine[r] < rev[user[r]]

ApiInv == Linked /\ Targeted /\ Overtaken

\* Steps other than Write keep the numbers of the writes.
LEMMA NumbersKept ==
    ASSUME NEW r \in Requests,
           \/ UNCHANGED cacheVars
           \/ WriteNothing(r) \/ StartWipe(r) \/ EndWipe(r) \/ Fail(r)
           \/ Lookup(r) \/ Query(r) \/ Fill(r)
           \/ \E k \in Keys : WipeKey(r, k) \/ Expire(k)
           \/ RedisRestart
    PROVE  UNCHANGED <<user, rev, mine>>
  BY DEF cacheVars, WriteNothing, StartWipe, EndWipe, Fail, Lookup,
         Query, Fill, WipeKey, Expire, RedisRestart

\* A step that leaves the rows, the targets and the numbers alone, and lets no
\* request enter the places Targeted and Overtaken speak of.
LEMMA RowsKept ==
    ASSUME ApiInv, UNCHANGED <<jobs, target, user, rev, mine>>,
           \A r \in Requests :
               /\ pc'[r] \in {"loaded", "refresh"} => pc'[r] = pc[r]
               /\ pc'[r] = "500" => \/ pc[r] = "500" \/ mine[r] = 0
                                    \/ pc[r] = "refresh" /\ ~ Exists(target[r])
    PROVE  Targeted' /\ Overtaken'
<1>1. Targeted'
  BY DEF ApiInv, Targeted, Exists
<1>2. Overtaken'
  BY DEF ApiInv, Overtaken, Exists
<1> QED  BY <1>1, <1>2

LEMMA CreateKeepsApiInv ==
    ASSUME TypeOK, CacheInv, ApiInv, NEW r \in Requests, CreateJob(r)
    PROVE  ApiInv'
<1>1. PICK j \in JobIds, d \in Data :
        /\ jobs[j] = Unborn
        /\ jobs' = [jobs EXCEPT ![j] = [owner |-> user[r], data |-> d]]
        /\ target' = [target EXCEPT ![r] = j]
  BY DEF CreateJob
<1>2. /\ pc[r] = "start" /\ pc' = [pc EXCEPT ![r] = "refresh"]
      /\ step[r] = "idle" /\ step' = [step EXCEPT ![r] = "written"]
      /\ rev' = [rev EXCEPT ![user[r]] = @ + 1]
      /\ mine' = [mine EXCEPT ![r] = rev[user[r]] + 1]
      /\ user' = user
  BY DEF CreateJob, Goto, Write
<1>3. [owner |-> user[r], data |-> d] \in Row
  BY DEF Row, TypeOK, CacheTypeOK
<1>4. Exists(j)' /\ jobs'[j].owner = user[r] /\ jobs'[j] # Unborn
  BY <1>1, <1>3, SchemaAssumption DEF Exists, TypeOK
<1>5. \A i \in JobIds : i # j => jobs'[i] = jobs[i]
  BY <1>1 DEF TypeOK
<1>6. Linked'
  BY <1>2 DEF ApiInv, Linked, TypeOK, CacheTypeOK
<1>7. Targeted'
  <2> SUFFICES ASSUME NEW s \in Requests, pc'[s] \in {"loaded", "refresh"}
               PROVE  /\ target'[s] \in JobIds
                      /\ jobs'[target'[s]] # Unborn
                      /\ jobs'[target'[s]] \in Row => jobs'[target'[s]].owner = user'[s]
    BY DEF Targeted, Exists
  <2>1. CASE s = r
    BY <1>1, <1>2, <1>4, <2>1 DEF TypeOK
  <2>2. CASE s # r
    <3>1. pc[s] \in {"loaded", "refresh"} /\ target'[s] = target[s]
      BY <1>1, <1>2, <2>2 DEF TypeOK
    <3>2. target[s] \in JobIds /\ target[s] # j
      BY <1>1, <3>1 DEF ApiInv, Targeted
    <3> QED  BY <1>2, <1>5, <3>1, <3>2 DEF ApiInv, Targeted, Exists
  <2> QED  BY <2>1, <2>2
<1>8. Overtaken'
  <2> SUFFICES ASSUME NEW s \in Requests, mine'[s] > 0,
                      pc'[s] = "500" \/ (pc'[s] = "refresh" /\ jobs'[target'[s]] \notin Row)
               PROVE  mine'[s] < rev'[user'[s]]
    BY DEF Overtaken, Exists
  <2>1. s # r
    BY <1>1, <1>2, <1>4 DEF TypeOK, Exists
  <2>2. /\ pc'[s] = pc[s] /\ target'[s] = target[s] /\ mine'[s] = mine[s]
        /\ rev[user[s]] \in Nat /\ rev'[user[s]] \in Nat /\ rev[user[s]] <= rev'[user[s]]
        /\ mine[s] \in Nat
    BY <1>1, <1>2, <2>1 DEF TypeOK, CacheTypeOK
  <2>3. pc[s] = "refresh" => jobs'[target[s]] = jobs[target[s]]
    BY <1>1, <1>5 DEF ApiInv, Targeted
  <2> QED  BY <1>2, <2>2, <2>3 DEF ApiInv, Overtaken, Exists
<1> QED  BY <1>6, <1>7, <1>8 DEF ApiInv

LEMMA UpdateKeepsApiInv ==
    ASSUME TypeOK, TypeOK', CacheInv, ApiInv, NEW r \in Requests, UpdateJob(r)
    PROVE  ApiInv'
<1> DEFINE j == target[r]
<1>1. /\ pc[r] = "loaded" /\ step[r] = "idle" /\ mine[r] = 0
      /\ j \in JobIds /\ jobs[j] # Unborn /\ (Exists(j) => jobs[j].owner = user[r])
      /\ target' = target
  BY DEF UpdateJob, ApiInv, Linked, Targeted, CacheInv, WipeInv
<1>2. CASE UpdateFails(r)
  <2>1. pc' = [pc EXCEPT ![r] = "500"] /\ UNCHANGED <<jobs, cacheVars>>
    BY <1>2 DEF UpdateJob, UpdateFails, Goto
  <2>2. Linked'
    BY <1>1, <2>1 DEF ApiInv, Linked, TypeOK, cacheVars
  <2>3. \A s \in Requests : s # r => pc'[s] = pc[s]
    BY <2>1 DEF TypeOK
  <2>4. pc'[r] = "500" /\ mine[r] = 0 /\ UNCHANGED <<jobs, target, user, rev, mine>>
    BY <1>1, <2>1 DEF TypeOK, cacheVars
  <2>5. Targeted' /\ Overtaken'
    BY <2>3, <2>4, RowsKept
  <2> QED  BY <2>2, <2>5 DEF ApiInv
<1>3. CASE ~ UpdateFails(r) /\ Changed(r) # {}
  <2>1. /\ pc' = [pc EXCEPT ![r] = "refresh"] /\ Write(r) /\ Exists(j)
        /\ jobs' = [jobs EXCEPT ![j] = [jobs[j] EXCEPT !.data = Written(r, jobs[j].data)]]
    BY <1>3 DEF UpdateJob, UpdateFails, Goto
  <2>2. /\ step' = [step EXCEPT ![r] = "written"]
        /\ rev' = [rev EXCEPT ![user[r]] = @ + 1]
        /\ mine' = [mine EXCEPT ![r] = rev[user[r]] + 1]
        /\ user' = user
    BY <2>1 DEF Write
  <2>3. \A i \in JobIds : i # j => jobs'[i] = jobs[i]
    BY <2>1 DEF TypeOK
  <2>4. jobs'[j] \in Row /\ jobs'[j].owner = user[r] /\ jobs'[j] # Unborn
    <3>1. jobs[j] \in Row /\ jobs[j].owner = user[r]
      BY <1>1, <2>1 DEF Exists
    <3>2. jobs'[j] = [jobs[j] EXCEPT !.data = Written(r, jobs[j].data)]
      BY <1>1, <2>1 DEF TypeOK
    <3>3. jobs'[j].owner = user[r] /\ DOMAIN jobs'[j] = {"owner", "data"}
      BY <3>1, <3>2 DEF Row
    <3>4. jobs'[j] \in Row
      <4>1. Written(r, jobs[j].data) \in Data
        <5>1. Storable([f \in Changed(r) |-> body[r][f]])
          BY <1>3 DEF UpdateFails
        <5>2. jobs[j].data \in Data /\ Storable(jobs[j].data)
          BY <1>1, <3>1 DEF TypeOK, Exists, Row
        <5> QED  BY <5>1, <5>2, WrittenStorable DEF TypeOK
      <4> QED  BY <3>1, <3>2, <4>1 DEF Row
    <3> QED  BY <3>3, <3>4, SchemaAssumption
  <2>5. Linked'
    BY <2>1, <2>2 DEF ApiInv, Linked, TypeOK, CacheTypeOK
  <2>6. Targeted'
    <3> SUFFICES ASSUME NEW s \in Requests, pc'[s] \in {"loaded", "refresh"}
                 PROVE  /\ target[s] \in JobIds
                        /\ jobs'[target[s]] # Unborn
                        /\ jobs'[target[s]] \in Row => jobs'[target[s]].owner = user[s]
      BY <1>1, <2>2 DEF Targeted, Exists
    <3>1. pc[s] \in {"loaded", "refresh"}
      BY <1>1, <2>1 DEF TypeOK
    <3>2. target[s] \in JobIds /\ jobs[target[s]] # Unborn
          /\ (Exists(target[s]) => jobs[target[s]].owner = user[s])
      BY <3>1 DEF ApiInv, Targeted
    <3>3. CASE target[s] = j
      BY <1>1, <2>1, <2>4, <3>2, <3>3
    <3>4. CASE target[s] # j
      BY <2>3, <3>2, <3>4 DEF Exists
    <3> QED  BY <3>3, <3>4
  <2>7. Overtaken'
    <3> SUFFICES ASSUME NEW s \in Requests, mine'[s] > 0,
                        pc'[s] = "500" \/ (pc'[s] = "refresh" /\ jobs'[target[s]] \notin Row)
                 PROVE  mine'[s] < rev'[user[s]]
      BY <1>1, <2>2 DEF Overtaken, Exists
    <3>1. s # r
      BY <1>1, <2>1, <2>4 DEF TypeOK
    <3>2. /\ pc'[s] = pc[s] /\ mine'[s] = mine[s] /\ mine[s] \in Nat
          /\ rev[user[s]] \in Nat /\ rev'[user[s]] \in Nat /\ rev[user[s]] <= rev'[user[s]]
      BY <2>1, <2>2, <3>1 DEF TypeOK, CacheTypeOK
    <3>3. pc[s] = "refresh" => ~ Exists(target[s])
      <4>1. CASE target[s] = j
        BY <2>4, <3>2, <4>1
      <4>2. CASE target[s] # j
        BY <2>3, <3>2, <4>2 DEF ApiInv, Targeted, Exists
      <4> QED  BY <4>1, <4>2
    <3> QED  BY <3>2, <3>3 DEF ApiInv, Overtaken
  <2> QED  BY <2>5, <2>6, <2>7 DEF ApiInv
<1>4. CASE Changed(r) = {}
  <2>1. pc' = [pc EXCEPT ![r] = "refresh"] /\ WriteNothing(r) /\ UNCHANGED jobs
    BY <1>4 DEF UpdateJob, UpdateFails, Goto
  <2>2. /\ step' = [step EXCEPT ![r] = "written"] /\ UNCHANGED <<user, rev, mine>>
    BY <2>1 DEF WriteNothing
  <2>3. Linked'
    BY <2>1, <2>2 DEF ApiInv, Linked, TypeOK, CacheTypeOK
  <2>4. Targeted'
    BY <1>1, <2>1, <2>2 DEF ApiInv, Targeted, Exists, TypeOK
  <2>5. Overtaken'
    BY <1>1, <2>1, <2>2 DEF ApiInv, Overtaken, Exists, TypeOK
  <2> QED  BY <2>3, <2>4, <2>5 DEF ApiInv
<1> QED  BY <1>2, <1>3, <1>4

LEMMA DeleteKeepsApiInv ==
    ASSUME TypeOK, CacheInv, ApiInv, NEW r \in Requests, DeleteJob(r)
    PROVE  ApiInv'
<1> DEFINE j == target[r]
<1>1. /\ pc[r] = "loaded" /\ pc' = [pc EXCEPT ![r] = "wipe"] /\ target' = target
      /\ j \in JobIds /\ (Exists(j) => jobs[j].owner = user[r])
  BY DEF DeleteJob, Goto, ApiInv, Targeted
<1>2. Linked'
  <2>1. step' = [step EXCEPT ![r] = "written"]
    BY DEF DeleteJob, Write, WriteNothing
  <2> QED  BY <1>1, <2>1 DEF ApiInv, Linked, TypeOK, CacheTypeOK
<1>3. CASE Exists(j)
  <2>1. /\ jobs' = [jobs EXCEPT ![j] = Deleted]
        /\ rev' = [rev EXCEPT ![user[r]] = @ + 1]
        /\ mine' = [mine EXCEPT ![r] = rev[user[r]] + 1]
        /\ user' = user
    BY <1>3 DEF DeleteJob, Write
  <2>2. \A i \in JobIds : jobs'[i] = IF i = j THEN Deleted ELSE jobs[i]
    BY <2>1 DEF TypeOK
  <2>3. Targeted'
    BY <1>1, <2>1, <2>2, SchemaAssumption DEF ApiInv, Targeted, Exists, TypeOK
  \* The deletion makes every handler of that row an earlier writer.
  <2>4. Overtaken'
    <3> SUFFICES ASSUME NEW s \in Requests, mine'[s] > 0,
                        pc'[s] = "500" \/ (pc'[s] = "refresh" /\ jobs'[target[s]] \notin Row)
                 PROVE  mine'[s] < rev'[user[s]]
      BY <1>1, <2>1 DEF Overtaken, Exists
    <3>1. s # r /\ pc'[s] = pc[s]
      BY <1>1 DEF TypeOK
    <3>2. /\ mine'[s] = mine[s] /\ mine[s] \in Nat
          /\ rev[user[s]] \in Nat /\ rev'[user[s]] \in Nat /\ rev[user[s]] <= rev'[user[s]]
      BY <2>1, <3>1 DEF TypeOK, CacheTypeOK
    <3>3. CASE pc[s] = "500" \/ (pc[s] = "refresh" /\ ~ Exists(target[s]))
      BY <3>1, <3>2, <3>3 DEF ApiInv, Overtaken
    <3>4. CASE pc[s] = "refresh" /\ Exists(target[s])
      <4>1. target[s] = j
        BY <2>2, <3>1, <3>4 DEF ApiInv, Targeted, Exists
      <4>2. user[s] = user[r]
        BY <1>1, <1>3, <3>4, <4>1 DEF ApiInv, Targeted
      <4>3. rev'[user[s]] = rev[user[s]] + 1
        BY <2>1, <4>2 DEF TypeOK, CacheTypeOK
      <4>4. mine[s] <= rev[user[s]]
        BY DEF CacheInv, WipeInv
      <4> QED  BY <3>2, <4>3, <4>4
    <3> QED  BY <3>1, <3>3, <3>4
  <2> QED  BY <1>2, <2>3, <2>4 DEF ApiInv
<1>4. CASE ~ Exists(j)
  <2>1. WriteNothing(r) /\ UNCHANGED jobs
    BY <1>4 DEF DeleteJob
  <2>2. UNCHANGED <<user, rev, mine>>
    BY <2>1, NumbersKept
  <2>3. pc'[r] = "wipe" /\ \A s \in Requests : s # r => pc'[s] = pc[s]
    BY <1>1 DEF TypeOK
  <2>4. Targeted' /\ Overtaken'
    BY <1>1, <2>1, <2>2, <2>3, RowsKept
  <2> QED  BY <1>2, <2>4 DEF ApiInv
<1> QED  BY <1>3, <1>4

LEMMA RestKeepsApiInv ==
    ASSUME TypeOK, CacheInv, ApiInv, NEW r \in Requests,
           LoadJob(r) \/ Refresh(r) \/ Invalidate(r) \/ Summary(r) \/ Crash(r)
    PROVE  ApiInv'
<1>1. CASE LoadJob(r)
  <2>1. PICK j \in JobIds :
          /\ target' = [target EXCEPT ![r] = j]
          /\ \/ Owned(r, j) /\ pc' \in {[pc EXCEPT ![r] = "ok"], [pc EXCEPT ![r] = "loaded"]}
             \/ pc' = [pc EXCEPT ![r] = "404"]
    BY <1>1 DEF LoadJob, Goto
  <2>2. pc[r] = "start" /\ UNCHANGED <<jobs, cacheVars>>
    BY <1>1 DEF LoadJob
  <2>3. UNCHANGED <<jobs, user, rev, mine, step>>
    BY <2>2 DEF cacheVars
  <2>4. Linked'
    BY <2>1, <2>2, <2>3 DEF ApiInv, Linked, TypeOK
  <2>5. Targeted'
    BY <2>1, <2>3, SchemaAssumption DEF ApiInv, Targeted, Owned, Exists, TypeOK
  <2>6. Overtaken'
    BY <2>1, <2>3 DEF ApiInv, Overtaken, Exists, TypeOK
  <2> QED  BY <2>4, <2>5, <2>6 DEF ApiInv
<1>2. CASE Refresh(r)
  <2>1. /\ pc[r] = "refresh" /\ UNCHANGED <<jobs, target>>
        /\ \/ pc' = [pc EXCEPT ![r] = "wipe"] /\ UNCHANGED cacheVars
           \/ ~ Exists(target[r]) /\ pc' = [pc EXCEPT ![r] = "500"] /\ Fail(r)
    BY <1>2 DEF Refresh, Goto
  <2>2. UNCHANGED <<user, rev, mine>>
    BY <2>1, NumbersKept
  <2>3. \/ step' = step /\ pc' = [pc EXCEPT ![r] = "wipe"]
        \/ step' = [step EXCEPT ![r] = "failed"] /\ pc' = [pc EXCEPT ![r] = "500"]
    BY <2>1 DEF Fail, cacheVars
  <2>4. Linked'
    BY <2>1, <2>3 DEF ApiInv, Linked, TypeOK, CacheTypeOK
  <2>5. \A s \in Requests : s # r => pc'[s] = pc[s]
    BY <2>1 DEF TypeOK
  <2>6. pc'[r] \in {"wipe", "500"} /\ (pc'[r] = "500" => ~ Exists(target[r]))
    BY <2>1 DEF TypeOK
  <2>7. Targeted' /\ Overtaken'
    BY <2>1, <2>2, <2>5, <2>6, RowsKept
  <2> QED  BY <2>4, <2>7 DEF ApiInv
<1>3. CASE Invalidate(r) \/ Summary(r) \/ Crash(r)
  <2>1. UNCHANGED <<jobs, target>>
    BY <1>3 DEF Invalidate, Summary, Crash
  <2>2. UNCHANGED <<user, rev, mine>>
    <3>1. CASE Invalidate(r)
      BY <3>1, NumbersKept DEF Invalidate
    <3>2. CASE Summary(r)
      BY <3>2, NumbersKept DEF Summary
    <3>3. CASE Crash(r)
      BY <3>3, NumbersKept DEF Crash
    <3> QED  BY <1>3, <3>1, <3>2, <3>3
  <2>3. /\ \A s \in Requests : s # r => pc'[s] = pc[s]
        /\ pc'[r] \in {"wipe", "ok", "compute", "crashed"}
    BY <1>3 DEF Invalidate, Summary, Crash, Goto, TypeOK
  <2>4. Targeted' /\ Overtaken'
    BY <2>1, <2>2, <2>3, RowsKept
  <2>5. Linked'
    <3>1. CASE Invalidate(r)
      BY <3>1 DEF Invalidate, Goto, ApiInv, Linked, TypeOK, CacheTypeOK,
                  StartWipe, WipeKey, EndWipe
    <3>2. CASE Summary(r)
      BY <3>2 DEF Summary, Goto, ApiInv, Linked, TypeOK, CacheTypeOK,
                  Lookup, Query, Fill
    <3>3. CASE Crash(r)
      BY <3>3 DEF Crash, Goto, ApiInv, Linked, TypeOK, CacheTypeOK, Fail
    <3> QED  BY <1>3, <3>1, <3>2, <3>3
  <2> QED  BY <2>4, <2>5 DEF ApiInv
<1> QED  BY <1>1, <1>2, <1>3

LEMMA ApiInvInductive == Spec => []ApiInv
<1>1. Init => ApiInv
  BY DEF Init, CacheInit, ApiInv, Linked, Targeted, Overtaken
<1>2. TypeOK /\ TypeOK' /\ CacheInv /\ ApiInv /\ [Next]_vars => ApiInv'
  <2> SUFFICES ASSUME TypeOK, TypeOK', CacheInv, ApiInv, [Next]_vars PROVE ApiInv'
    OBVIOUS
  <2>1. ASSUME NEW r \in Requests, CreateJob(r) PROVE ApiInv'
    BY <2>1, CreateKeepsApiInv
  <2>2. ASSUME NEW r \in Requests, UpdateJob(r) PROVE ApiInv'
    BY <2>2, UpdateKeepsApiInv
  <2>3. ASSUME NEW r \in Requests, DeleteJob(r) PROVE ApiInv'
    BY <2>3, DeleteKeepsApiInv
  <2>4. ASSUME NEW r \in Requests,
               LoadJob(r) \/ Refresh(r) \/ Invalidate(r) \/ Summary(r) \/ Crash(r)
        PROVE  ApiInv'
    BY <2>4, RestKeepsApiInv
  <2>5. CASE Environment \/ UNCHANGED vars
    <3>1. UNCHANGED <<jobs, target, pc, user, rev, mine, step>>
      BY <2>5 DEF Environment, vars, cacheVars, Expire, RedisRestart
    <3> QED  BY <3>1 DEF ApiInv, Linked, Targeted, Overtaken, Exists
  <2> QED  BY <2>1, <2>2, <2>3, <2>4, <2>5 DEF Next
<1> QED
  BY <1>1, <1>2, TypeCorrect, CacheInvariant, PTL DEF Spec

-----------------------------------------------------------------------------
(* Who undid what                                                          *)

\* A PATCH that has got past its loading sent value v for a field of a row.
Sent(q, j, f, v) ==
    /\ op[q] = "update" /\ target[q] = j /\ pc[q] \notin {"start", "loaded", "404"}
    /\ f \in DOMAIN body[q] /\ body[q][f] = v

\* The field of r's row has value v, or what another PATCH of its user sent.
Explained(r, f, v) ==
    v = jobs[target[r]].data[f] \/
    \E q \in Requests \ {r} : user[q] = user[r] /\ Sent(q, target[r], f, jobs[target[r]].data[f])

Writing(r) == pc[r] \in {"loaded", "refresh", "wipe", "ok"} /\ op[r] \in {"create", "update"}

\* The value that a row should have for r: the one it loaded, later the one it sent.
Accounted ==
    \A r \in Requests :
        /\ pc[r] = "compute" => op[r] = "analytics"
        /\ Writing(r) =>
              /\ target[r] \in JobIds /\ jobs[target[r]] # Unborn
              /\ Exists(target[r]) =>
                    /\ jobs[target[r]].owner = user[r]
                    /\ \A f \in Fields :
                          /\ pc[r] = "loaded" => Explained(r, f, loaded[r][f])
                          /\ pc[r] # "loaded" /\ f \in DOMAIN body[r] => Explained(r, f, body[r][f])

\* A request that has started keeps what it was sent and goes forward.
Forward(q) ==
    pc[q] # "start" =>
        /\ op'[q] = op[q] /\ target'[q] = target[q] /\ body'[q] = body[q] /\ loaded'[q] = loaded[q]
        /\ pc'[q] # "start"
        /\ pc'[q] = "loaded" => pc[q] = "loaded"
        /\ pc'[q] = "404" => pc[q] = "404"
        /\ pc'[q] = "compute" => pc[q] = "compute"
        /\ pc'[q] \in {"refresh", "wipe", "ok"} =>
              pc[q] \in {"loaded", "refresh", "wipe", "ok", "compute"}

LEMMA GoesForward ==
    ASSUME TypeOK, [Next]_vars
    PROVE  user' = user /\ \A q \in Requests : Forward(q)
<1>1. ASSUME NEW r \in Requests, CreateJob(r) PROVE user' = user /\ \A q \in Requests : Forward(q)
  <2>1. user' = user
    BY <1>1 DEF CreateJob, Write
  <2> QED  BY <1>1, <2>1 DEF CreateJob, Goto, Forward, TypeOK
<1>2. ASSUME NEW r \in Requests, LoadJob(r) PROVE user' = user /\ \A q \in Requests : Forward(q)
  BY <1>2 DEF LoadJob, Goto, Forward, TypeOK, cacheVars
<1>3. ASSUME NEW r \in Requests, UpdateJob(r) \/ DeleteJob(r) \/ Refresh(r) \/ Invalidate(r) \/ Crash(r)
      PROVE  user' = user /\ \A q \in Requests : Forward(q)
  <2>1. UNCHANGED <<op, target, body, loaded>>
    BY <1>3 DEF UpdateJob, DeleteJob, Refresh, Invalidate, Crash
  <2>2. user' = user
    BY <1>3 DEF UpdateJob, DeleteJob, Refresh, Invalidate, Crash, cacheVars, Write,
                WriteNothing, Fail, StartWipe, WipeKey, EndWipe
  <2>3. PICK label : pc' \in {pc, [pc EXCEPT ![r] = label]} /\ label \in {"500", "refresh", "wipe", "ok", "crashed"}
                     /\ (label \in {"refresh", "wipe", "ok"} => pc[r] \in {"loaded", "refresh", "wipe"})
    BY <1>3 DEF UpdateJob, DeleteJob, Refresh, Invalidate, Crash, Goto
  <2> QED  BY <2>1, <2>2, <2>3 DEF Forward, TypeOK
<1>4. ASSUME NEW r \in Requests, Summary(r) PROVE user' = user /\ \A q \in Requests : Forward(q)
  <2>1. UNCHANGED <<target, body, loaded, user>>
    BY <1>4 DEF Summary, Lookup, Query, Fill
  <2>2. /\ pc[r] = "start" \/ op' = op
        /\ \A q \in Requests : q # r => op'[q] = op[q] /\ pc'[q] = pc[q]
        /\ pc'[r] \in {"compute", "ok"} /\ (pc[r] # "start" => pc[r] = "compute")
    BY <1>4 DEF Summary, Goto, TypeOK
  <2> QED  BY <2>1, <2>2 DEF Forward
<1>5. CASE Environment \/ UNCHANGED vars
  BY <1>5 DEF Environment, vars, cacheVars, Expire, RedisRestart, Forward
<1> QED  BY <1>1, <1>2, <1>3, <1>4, <1>5 DEF Next

\* Whoever moves takes a step of its own.
LEMMA MoverActs ==
    ASSUME TypeOK, [Next]_vars, NEW r \in Requests, pc'[r] # pc[r]
    PROVE  \/ CreateJob(r) \/ LoadJob(r) \/ UpdateJob(r) \/ DeleteJob(r)
           \/ Refresh(r) \/ Invalidate(r) \/ Summary(r) \/ Crash(r)
<1>1. ASSUME NEW q \in Requests, CreateJob(q) \/ LoadJob(q) \/ UpdateJob(q) \/ DeleteJob(q)
      PROVE  q = r
  BY <1>1 DEF CreateJob, LoadJob, UpdateJob, DeleteJob, Goto, TypeOK
<1>2. ASSUME NEW q \in Requests, Refresh(q) \/ Invalidate(q) \/ Summary(q) \/ Crash(q)
      PROVE  q = r
  BY <1>2 DEF Refresh, Invalidate, Summary, Crash, Goto, TypeOK
<1>3. ~ Environment /\ ~ UNCHANGED vars
  BY DEF Environment, vars
<1> QED  BY <1>1, <1>2, <1>3 DEF Next

LEMMA StepAccounted ==
    ASSUME TypeOK, TypeOK', ApiInv, Accounted, [Next]_vars
    PROVE  Accounted'
<1>1. user' = user /\ \A q \in Requests : Forward(q)
  BY GoesForward
<1>2. ASSUME NEW q, NEW j, NEW f, NEW v, q \in Requests, Sent(q, j, f, v)
      PROVE  Sent(q, j, f, v)'
  BY <1>1, <1>2 DEF Sent, Forward
<1>3. \A r \in Requests : pc'[r] = "compute" => op'[r] = "analytics"
  <2> SUFFICES ASSUME NEW r \in Requests, pc'[r] = "compute", pc[r] = "start"
               PROVE  op'[r] = "analytics"
    BY <1>1 DEF Forward, Accounted
  <2>1. Summary(r) \/ CreateJob(r) \/ LoadJob(r)
    BY MoverActs DEF UpdateJob, DeleteJob, Refresh, Invalidate, Summary, Crash, Goto, TypeOK
  <2>2. ~ CreateJob(r) /\ ~ LoadJob(r)
    BY DEF CreateJob, LoadJob, Goto, TypeOK
  <2> QED  BY <2>1, <2>2 DEF Summary, TypeOK
<1>4. SUFFICES ASSUME NEW r \in Requests, Writing(r)'
               PROVE  /\ target'[r] \in JobIds /\ jobs'[target'[r]] # Unborn
                      /\ Exists(target[r])' =>
                            /\ jobs'[target'[r]].owner = user'[r]
                            /\ \A f \in Fields :
                                  /\ pc'[r] = "loaded" => Explained(r, f, loaded[r][f])'
                                  /\ pc'[r] # "loaded" /\ f \in DOMAIN body'[r] =>
                                        Explained(r, f, body[r][f])'
  BY <1>3 DEF Accounted
<1>5. CASE pc[r] = "start"
  <2>1. CreateJob(r) \/ LoadJob(r)
    <3>1. pc'[r] # pc[r] /\ pc'[r] # "crashed"
      BY <1>4, <1>5 DEF Writing
    <3>2. ~ UpdateJob(r) /\ ~ DeleteJob(r) /\ ~ Refresh(r) /\ ~ Invalidate(r) /\ ~ Crash(r)
      BY <1>5, <3>1 DEF UpdateJob, DeleteJob, Refresh, Invalidate, Crash, Goto, TypeOK
    <3>3. ~ Summary(r)
      BY <1>4, <1>5 DEF Writing, Summary, TypeOK
    <3> QED  BY <3>1, <3>2, <3>3, MoverActs
  <2>2. CASE CreateJob(r)
    <3>1. PICK j \in JobIds, d \in Bodies \cap Data :
            /\ jobs' = [jobs EXCEPT ![j] = [owner |-> user[r], data |-> d]]
            /\ target' = [target EXCEPT ![r] = j] /\ body' = [body EXCEPT ![r] = d]
            /\ pc' = [pc EXCEPT ![r] = "refresh"]
      BY <2>2 DEF CreateJob, Goto
    <3>2. /\ target'[r] = j /\ body'[r] = d /\ pc'[r] = "refresh"
          /\ jobs'[j] = [owner |-> user[r], data |-> d]
      BY <3>1 DEF TypeOK
    <3>3. [owner |-> user[r], data |-> d] \in Row
      BY DEF Row, TypeOK, CacheTypeOK
    <3> QED  BY <1>1, <3>2, <3>3, SchemaAssumption DEF Explained
  <2>3. CASE LoadJob(r)
    <3>1. PICK j \in JobIds, q \in JobRequests :
            /\ target' = [target EXCEPT ![r] = j] /\ op' = [op EXCEPT ![r] = q[1]]
            /\ \/ /\ Owned(r, j) /\ loaded' = [loaded EXCEPT ![r] = jobs[j].data]
                  /\ pc' = [pc EXCEPT ![r] = IF q[1] = "get" THEN "ok" ELSE "loaded"]
               \/ pc' = [pc EXCEPT ![r] = "404"]
      BY <2>3 DEF LoadJob, Goto
    <3>2. jobs' = jobs
      BY <2>3 DEF LoadJob
    <3>3. op'[r] = q[1] /\ q[1] # "get"
      BY <1>4, <3>1 DEF TypeOK, Writing
    <3>4. pc'[r] = "loaded" /\ target'[r] = j /\ Owned(r, j) /\ loaded'[r] = jobs[j].data
      BY <1>4, <3>1, <3>3 DEF TypeOK, Writing
    <3> QED  BY <1>1, <3>2, <3>4, SchemaAssumption DEF Owned, Exists, Explained
  <2> QED  BY <2>1, <2>2, <2>3
<1>6. CASE pc[r] # "start"
  <2>0. PICK j : j = target[r]
    OBVIOUS
  <2>1. /\ target[r] = j /\ target'[r] = j /\ op'[r] = op[r] /\ body'[r] = body[r] /\ loaded'[r] = loaded[r]
        /\ user'[r] = user[r] /\ Writing(r)
    BY <1>1, <1>4, <1>6, <2>0 DEF Forward, Writing, Accounted
  <2>2. j \in JobIds /\ jobs[j] # Unborn /\ (Exists(j) => jobs[j].owner = user[r])
    BY <2>1 DEF Accounted
  \* What may become of r's row.
  <2>3. \/ jobs'[j] = jobs[j]
        \/ jobs'[j] = Deleted
        \/ \E q \in Requests :
              /\ UpdateJob(q) /\ target[q] = j /\ Exists(j) /\ jobs[j].owner = user[q]
              /\ jobs'[j] = [jobs[j] EXCEPT !.data = Written(q, jobs[j].data)]
              /\ jobs'[j] \in Row /\ pc'[q] = "refresh"
    <3>1. ASSUME NEW q \in Requests, CreateJob(q) PROVE jobs'[j] = jobs[j]
      BY <2>2, <3>1 DEF CreateJob, TypeOK
    <3>2. ASSUME NEW q \in Requests, UpdateJob(q), jobs'[j] # jobs[j]
          PROVE  /\ target[q] = j /\ Exists(j) /\ jobs[j].owner = user[q]
                 /\ jobs'[j] = [jobs[j] EXCEPT !.data = Written(q, jobs[j].data)]
                 /\ jobs'[j] \in Row /\ pc'[q] = "refresh"
      <4>1. /\ pc[q] = "loaded" /\ ~ UpdateFails(q) /\ Changed(q) # {}
            /\ jobs' = [jobs EXCEPT ![target[q]] =
                           [jobs[target[q]] EXCEPT !.data = Written(q, jobs[target[q]].data)]]
            /\ pc' = [pc EXCEPT ![q] = "refresh"]
        BY <3>2 DEF UpdateJob, Goto
      <4>2. target[q] = j
        BY <3>2, <4>1 DEF TypeOK
      <4>3. /\ Exists(j) /\ jobs[j].owner = user[q]
            /\ jobs'[j] = [jobs[j] EXCEPT !.data = Written(q, jobs[j].data)]
        BY <2>2, <4>1, <4>2 DEF UpdateFails, ApiInv, Targeted, TypeOK
      <4>4. /\ jobs[j].data \in Data /\ Storable(jobs[j].data)
            /\ Storable([f \in Changed(q) |-> body[q][f]])
        BY <2>2, <4>1, <4>2, <4>3 DEF UpdateFails, TypeOK, Exists, Row
      <4>5. Written(q, jobs[j].data) \in Data
        BY <4>4, WrittenStorable DEF TypeOK
      <4>6. jobs'[j] \in Row
        BY <4>3, <4>5 DEF Exists, Row
      <4>7. pc'[q] = "refresh"
        BY <4>1 DEF TypeOK
      <4> QED  BY <4>2, <4>3, <4>6, <4>7
    <3>3. ASSUME NEW q \in Requests, DeleteJob(q) PROVE jobs'[j] \in {jobs[j], Deleted}
      BY <2>2, <3>3 DEF DeleteJob, TypeOK
    <3>4. ASSUME NEW q \in Requests,
                 LoadJob(q) \/ Refresh(q) \/ Invalidate(q) \/ Summary(q) \/ Crash(q)
          PROVE  jobs' = jobs
      BY <3>4 DEF LoadJob, Refresh, Invalidate, Summary, Crash
    <3>5. CASE Environment \/ UNCHANGED vars
      BY <3>5 DEF Environment, vars
    <3> QED  BY <3>1, <3>2, <3>3, <3>4, <3>5 DEF Next
  <2>4. jobs'[j] # Unborn /\ (Exists(j)' => Exists(j) /\ jobs'[j].owner = user'[r])
    BY <2>1, <2>2, <2>3, SchemaAssumption DEF Exists, Row
  <2>5. ASSUME NEW f \in Fields, NEW v, Explained(r, f, v), jobs'[j].data[f] = jobs[j].data[f]
        PROVE  Explained(r, f, v)'
    BY <1>1, <1>2, <2>1, <2>5 DEF Explained
  <2>6. ASSUME NEW f \in Fields, NEW v, Explained(r, f, v), Exists(j)',
               pc[r] = "loaded" => pc'[r] = "loaded"
        PROVE  Explained(r, f, v)'
    <3>1. CASE jobs'[j] = jobs[j]
      BY <2>5, <2>6, <3>1
    <3>2. CASE jobs'[j] = Deleted
      BY <2>6, <3>2, SchemaAssumption DEF Exists
    <3>3. ASSUME NEW q \in Requests, UpdateJob(q), target[q] = j, Exists(j),
                 jobs[j].owner = user[q], pc'[q] = "refresh",
                 jobs'[j] = [jobs[j] EXCEPT !.data = Written(q, jobs[j].data)]
          PROVE  Explained(r, f, v)'
      <4>1. /\ jobs'[j].data = Written(q, jobs[j].data) /\ DOMAIN jobs[j].data = Fields
            /\ user[q] = user[r]
        BY <2>2, <3>3 DEF Exists, Row, Data
      <4>2. op[q] = "update" /\ pc[q] = "loaded" /\ q # r
        BY <2>6, <3>3 DEF UpdateJob
      <4>3. CASE f \notin Changed(q)
        <5>1. jobs'[j].data[f] = jobs[j].data[f]
          BY <4>1, <4>3 DEF Written, Flushed, Changed
        <5> QED  BY <2>5, <2>6, <5>1
      <4>4. CASE f \in Changed(q)
        <5>1. jobs'[j].data[f] = body[q][f] /\ f \in DOMAIN body[q]
          BY <4>1, <4>4 DEF Written, Flushed, Changed, NetChanges
        <5>2. /\ op'[q] = "update" /\ target'[q] = j /\ pc'[q] = "refresh" /\ body'[q] = body[q]
              /\ user'[q] = user[q]
          BY <1>1, <3>3, <4>2 DEF Forward
        <5>3. \E s \in Requests \ {r} : user'[s] = user'[r] /\ Sent(s, j, f, jobs[j].data[f])'
          BY <2>1, <4>1, <4>2, <5>1, <5>2 DEF Sent
        <5> QED  BY <2>1, <5>3 DEF Explained
      <4> QED  BY <4>3, <4>4
    <3> QED  BY <2>3, <3>1, <3>2, <3>3
  \* The request's own UPDATE.
  <2>7. ASSUME NEW f \in Fields, f \in DOMAIN body[r], Exists(j)',
               pc[r] = "loaded", pc'[r] # "loaded"
        PROVE  Explained(r, f, body[r][f])'
    <3>1. UpdateJob(r)
      <4>1. op[r] # "delete" /\ pc'[r] \in {"refresh", "wipe", "ok"}
        BY <1>4, <2>1, <2>7 DEF Writing
      <4> QED
        <5>1. ~ CreateJob(r) /\ ~ LoadJob(r) /\ ~ DeleteJob(r) /\ ~ Refresh(r) /\ ~ Invalidate(r)
              /\ ~ Summary(r)
          BY <2>7, <4>1 DEF CreateJob, LoadJob, DeleteJob, Refresh, Invalidate, Summary
        <5>2. ~ Crash(r)
          BY <4>1 DEF Crash, Goto, TypeOK
        <5> QED  BY <2>7, <5>1, <5>2, MoverActs
    <3>2. Explained(r, f, loaded[r][f]) /\ DOMAIN jobs[j].data = Fields
      BY <2>1, <2>4, <2>7 DEF Accounted, Exists, Row, Data
    <3>3. \/ Changed(r) = {} /\ jobs' = jobs
          \/ jobs' = [jobs EXCEPT ![j] = [jobs[j] EXCEPT !.data = Written(r, jobs[j].data)]]
      BY <1>4, <2>1, <3>1 DEF UpdateJob, Goto, Writing, TypeOK
    <3>4. CASE f \notin Changed(r)
      <4>1. body[r][f] = loaded[r][f]
        BY <2>7, <3>4 DEF Changed, NetChanges
      <4>2. jobs'[j].data[f] = jobs[j].data[f]
        BY <2>2, <2>4, <2>7, <3>2, <3>3, <3>4 DEF TypeOK, Exists, Row, Written, Flushed, Changed
      <4>3. \A v : v = body[r][f] => Explained(r, f, v)'
        BY <2>5, <3>2, <4>1, <4>2
      <4> QED  BY <2>1, <4>3 DEF Explained
    <3>5. CASE f \in Changed(r)
      <4>1. jobs'[j].data[f] = body[r][f]
        BY <2>2, <2>4, <2>7, <3>2, <3>3, <3>5
           DEF TypeOK, Exists, Row, Written, Flushed, Changed, NetChanges
      <4> QED  BY <2>1, <4>1 DEF Explained
    <3> QED  BY <3>4, <3>5
  <2>8. ASSUME Exists(j)', NEW f \in Fields
        PROVE  /\ pc'[r] = "loaded" => Explained(r, f, loaded[r][f])'
               /\ pc'[r] # "loaded" /\ f \in DOMAIN body'[r] => Explained(r, f, body[r][f])'
    <3>1. ASSUME pc'[r] = "loaded" PROVE Explained(r, f, loaded[r][f])'
      <4>1. pc[r] = "loaded"
        BY <1>1, <1>6, <3>1 DEF Forward
      <4>2. Explained(r, f, loaded[r][f])
        BY <2>1, <2>4, <2>8, <4>1 DEF Accounted
      <4>3. \A v : v = loaded[r][f] => Explained(r, f, v)'
        BY <2>6, <2>8, <3>1, <4>2
      <4> QED  BY <2>1, <4>3 DEF Explained
    <3>2. ASSUME pc'[r] # "loaded", f \in DOMAIN body'[r] PROVE Explained(r, f, body[r][f])'
      <4>1. CASE pc[r] = "loaded"
        BY <2>1, <2>7, <2>8, <3>2, <4>1
      <4>2. CASE pc[r] # "loaded"
        <5>1. Explained(r, f, body[r][f])
          BY <2>1, <2>4, <2>8, <3>2, <4>2 DEF Accounted
        <5>2. \A v : v = body[r][f] => Explained(r, f, v)'
          BY <2>6, <2>8, <4>2, <5>1
        <5> QED  BY <2>1, <5>2 DEF Explained
      <4> QED  BY <4>1, <4>2
    <3> QED  BY <3>1, <3>2
  <2> QED  BY <2>1, <2>2, <2>4, <2>8
<1> QED  BY <1>5, <1>6

LEMMA AccountedInductive == Spec => []Accounted
<1>1. Init => Accounted
  BY DEF Init, Accounted, Writing
<1>2. TypeOK /\ TypeOK' /\ ApiInv /\ Accounted /\ [Next]_vars => Accounted'
  BY StepAccounted
<1> QED  BY <1>1, <1>2, TypeCorrect, ApiInvInductive, PTL DEF Spec

-----------------------------------------------------------------------------
(* What a summary shows                                                    *)

\* A summary of the latest write shows the rows there are.
Recorded ==
    /\ \A r \in Requests :
          step[r] = "queried" /\ seen[r] = rev[user[r]] => base[r] = RowsOf(user[r])
    /\ \A k \in Keys :
          cache[k] # Miss /\ cache[k].ver = rev[k[1]] => shows[k] = RowsOf(k[1])

\* Rows of other users are not the rows of u.
LEMMA OtherRows ==
    ASSUME NEW u, NEW i \in JobIds, \A j \in JobIds : j # i => jobs'[j] = jobs[j],
           Exists(i) => jobs[i].owner # u, Exists(i)' => jobs'[i].owner # u
    PROVE  RowsOf(u)' = RowsOf(u)
<1>1. \A j \in JobIds : Exists(j)' /\ jobs'[j].owner = u <=> Exists(j) /\ jobs[j].owner = u
  BY DEF Exists
<1>2. \A j \in JobIds : Exists(j) /\ jobs[j].owner = u => jobs'[j] = jobs[j]
  OBVIOUS
<1> QED  BY <1>1, <1>2 DEF RowsOf

\* The rows of a user change only with the number of the user's writes.
LEMMA WritesNumbered ==
    ASSUME TypeOK, TypeOK', ApiInv, [Next]_vars, NEW u \in Users
    PROVE  \/ rev'[u] = rev[u] + 1
           \/ rev'[u] = rev[u] /\ RowsOf(u)' = RowsOf(u)
<1>1. ASSUME jobs' = jobs PROVE RowsOf(u)' = RowsOf(u)
  BY <1>1 DEF RowsOf, Exists
<1>2. ASSUME NEW r \in Requests, Write(r), NEW i \in JobIds,
             \A j \in JobIds : j # i => jobs'[j] = jobs[j],
             Exists(i) => jobs[i].owner = user[r], Exists(i)' => jobs'[i].owner = user[r]
      PROVE  \/ rev'[u] = rev[u] + 1
             \/ rev'[u] = rev[u] /\ RowsOf(u)' = RowsOf(u)
  <2>1. CASE u = user[r]
    BY <1>2, <2>1 DEF Write, TypeOK, CacheTypeOK
  <2>2. CASE u # user[r]
    BY <1>2, <2>2, OtherRows DEF Write, TypeOK, CacheTypeOK
  <2> QED  BY <2>1, <2>2
<1>3. ASSUME NEW r \in Requests, CreateJob(r)
      PROVE  \/ rev'[u] = rev[u] + 1
             \/ rev'[u] = rev[u] /\ RowsOf(u)' = RowsOf(u)
  <2>1. PICK j \in JobIds, d \in Data :
          /\ jobs[j] = Unborn
          /\ jobs' = [jobs EXCEPT ![j] = [owner |-> user[r], data |-> d]]
    BY <1>3 DEF CreateJob
  <2>2. jobs'[j].owner = user[r] /\ \A i \in JobIds : i # j => jobs'[i] = jobs[i]
    BY <2>1 DEF TypeOK
  <2> QED  BY <1>2, <1>3, <2>1, <2>2, SchemaAssumption DEF CreateJob, Exists
<1>4. ASSUME NEW r \in Requests, UpdateJob(r) \/ DeleteJob(r)
      PROVE  \/ rev'[u] = rev[u] + 1
             \/ rev'[u] = rev[u] /\ RowsOf(u)' = RowsOf(u)
  <2>1. /\ target[r] \in JobIds
        /\ Exists(target[r]) => jobs[target[r]].owner = user[r]
    BY <1>4 DEF UpdateJob, DeleteJob, ApiInv, Targeted
  <2>2. CASE UNCHANGED jobs /\ (WriteNothing(r) \/ UNCHANGED cacheVars)
    BY <1>1, <2>2, NumbersKept
  <2>3. CASE /\ Write(r) /\ Exists(target[r])
             /\ jobs' = [jobs EXCEPT ![target[r]] =
                            [jobs[target[r]] EXCEPT !.data = Written(r, jobs[target[r]].data)]]
    <3>1. jobs'[target[r]].owner = user[r] /\ \A i \in JobIds : i # target[r] => jobs'[i] = jobs[i]
      BY <2>1, <2>3 DEF TypeOK, Exists, Row
    <3> QED  BY <1>2, <2>1, <2>3, <3>1
  <2>4. CASE Write(r) /\ jobs' = [jobs EXCEPT ![target[r]] = Deleted]
    <3>1. jobs'[target[r]] = Deleted /\ \A i \in JobIds : i # target[r] => jobs'[i] = jobs[i]
      BY <2>1, <2>4 DEF TypeOK
    <3>2. PICK i \in JobIds : i = target[r]
      BY <2>1
    <3>3. ~ Exists(i)'
      BY <3>1, <3>2, SchemaAssumption DEF Exists
    <3> QED  BY <1>2, <2>1, <2>4, <3>1, <3>2, <3>3
  <2>5. DeleteJob(r) => \/ UNCHANGED jobs /\ WriteNothing(r)
                        \/ Write(r) /\ jobs' = [jobs EXCEPT ![target[r]] = Deleted]
    BY DEF DeleteJob
  <2>6. UpdateJob(r) =>
          \/ UNCHANGED jobs /\ (WriteNothing(r) \/ UNCHANGED cacheVars)
          \/ /\ Write(r) /\ Exists(target[r])
             /\ jobs' = [jobs EXCEPT ![target[r]] =
                            [jobs[target[r]] EXCEPT !.data = Written(r, jobs[target[r]].data)]]
    BY DEF UpdateJob, UpdateFails
  <2> QED  BY <1>4, <2>2, <2>3, <2>4, <2>5, <2>6
<1>5. ASSUME NEW r \in Requests,
             LoadJob(r) \/ Refresh(r) \/ Invalidate(r) \/ Summary(r) \/ Crash(r)
      PROVE  jobs' = jobs /\ rev' = rev
  <2>1. jobs' = jobs
    BY <1>5 DEF LoadJob, Refresh, Invalidate, Summary, Crash
  <2>2. UNCHANGED <<user, rev, mine>>
    BY <1>5, NumbersKept DEF LoadJob, Refresh, Invalidate, Summary, Crash
  <2> QED  BY <2>1, <2>2
<1>6. CASE Environment \/ UNCHANGED vars
  <2>1. jobs' = jobs /\ rev' = rev
    BY <1>6 DEF Environment, vars, cacheVars, Expire, RedisRestart
  <2> QED  BY <1>1, <2>1
<1> QED  BY <1>1, <1>3, <1>4, <1>5, <1>6 DEF Next

\* A step of the cache other than a query and a fill hands on what was recorded.
LEMMA RecordsKept ==
    ASSUME TypeOK, [Next]_vars
    PROVE  \/ /\ UNCHANGED history
              /\ \A r \in Requests : step'[r] = "queried" => step[r] = "queried" /\ seen'[r] = seen[r]
              /\ \A k \in Keys : cache'[k] \in {cache[k], Miss}
           \/ \E r \in Requests : Summary(r) /\ pc[r] = "compute"
<1>1. ASSUME NEW r \in Requests,
             CreateJob(r) \/ LoadJob(r) \/ UpdateJob(r) \/ DeleteJob(r) \/ Refresh(r) \/ Crash(r)
      PROVE  /\ UNCHANGED <<history, cache, seen>>
             /\ \A q \in Requests : step'[q] = "queried" => step[q] = "queried"
  BY <1>1 DEF CreateJob, LoadJob, UpdateJob, DeleteJob, Refresh, Crash, cacheVars,
              Write, WriteNothing, Fail, TypeOK, CacheTypeOK
<1>2. ASSUME NEW r \in Requests, Invalidate(r)
      PROVE  /\ UNCHANGED <<history, seen>>
             /\ \A q \in Requests : step'[q] = "queried" => step[q] = "queried"
             /\ \A k \in Keys : cache'[k] \in {cache[k], Miss}
  BY <1>2 DEF Invalidate, StartWipe, WipeKey, EndWipe, Remove, TypeOK, CacheTypeOK
<1>3. ASSUME NEW r \in Requests, Summary(r), pc[r] # "compute"
      PROVE  /\ UNCHANGED <<history, cache>>
             /\ \A q \in Requests : step'[q] = "queried" => step[q] = "queried" /\ seen'[q] = seen[q]
  BY <1>3 DEF Summary, Lookup, TypeOK, CacheTypeOK
<1>4. CASE Environment \/ UNCHANGED vars
  BY <1>4 DEF Environment, vars, cacheVars, Expire, RedisRestart, Remove, TypeOK, CacheTypeOK
<1> QED  BY <1>1, <1>2, <1>3, <1>4 DEF Next

LEMMA StepRecorded ==
    ASSUME TypeOK, TypeOK', CacheInv, ApiInv, Recorded, [Next]_vars
    PROVE  Recorded'
<1>0. user' = user
  BY GoesForward
<1>1. \A r \in Requests : user[r] \in Users /\ seen[r] \in Nat /\ seen[r] <= rev[user[r]]
  BY DEF TypeOK, CacheTypeOK, CacheInv, WipeInv
<1>2. \A k \in Keys : k[1] \in Users /\ rev[k[1]] \in Nat /\
         (cache[k] # Miss => cache[k].ver \in Nat /\ cache[k].ver <= rev[k[1]])
  <2>1. \A k \in Keys : k[1] \in Users /\ rev[k[1]] \in Nat /\ (cache[k] # Miss => cache[k] \in Entry)
    BY KeyUser DEF TypeOK, CacheTypeOK
  <2>2. \A k \in Keys : cache[k] # Miss => cache[k].ver <= cache[k].at /\ cache[k].at <= rev[k[1]]
    BY DEF CacheInv, WipeInv
  <2> QED  BY <2>1, <2>2 DEF Entry
<1>3. \A u \in Users : rev[u] \in Nat
  BY DEF TypeOK, CacheTypeOK
<1>4. CASE /\ UNCHANGED history
           /\ \A r \in Requests : step'[r] = "queried" => step[r] = "queried" /\ seen'[r] = seen[r]
           /\ \A k \in Keys : cache'[k] \in {cache[k], Miss}
  <2>1. ASSUME NEW r \in Requests, step'[r] = "queried", seen'[r] = rev'[user'[r]]
        PROVE  base'[r] = RowsOf(user[r])'
    <3>0. PICK u \in Users : u = user[r]
      BY <1>1
    <3>1. rev'[u] = rev[u] /\ RowsOf(u)' = RowsOf(u)
      BY <1>0, <1>1, <1>3, <1>4, <2>1, <3>0, WritesNumbered
    <3>2. base[r] = RowsOf(u)
      BY <1>0, <1>4, <2>1, <3>0, <3>1 DEF Recorded
    <3>3. RowsOf(user[r])' = RowsOf(u)'
      BY <1>0, <3>0 DEF RowsOf
    <3>4. base'[r] = base[r]
      BY <1>4 DEF history
    <3> QED  BY <3>1, <3>2, <3>3, <3>4
  <2>2. ASSUME NEW k \in Keys, cache'[k] # Miss, cache'[k].ver = rev'[k[1]]
        PROVE  shows'[k] = RowsOf(k[1])'
    <3>1. rev'[k[1]] = rev[k[1]] /\ RowsOf(k[1])' = RowsOf(k[1])
      BY <1>2, <1>4, <2>2, WritesNumbered
    <3> QED  BY <1>4, <2>2, <3>1 DEF Recorded, history
  <2> QED  BY <2>1, <2>2 DEF Recorded
<1>5. ASSUME NEW r \in Requests, Summary(r), pc[r] = "compute" PROVE Recorded'
  <2>1. UNCHANGED <<jobs, rev>>
    BY <1>5 DEF Summary, Query, Fill
  <2>2. \A u : RowsOf(u)' = RowsOf(u)
    BY <2>1 DEF RowsOf, Exists
  <2>3. CASE Query(r) /\ base' = [base EXCEPT ![r] = RowsOf(user[r])] /\ shows' = shows
    <3>1. /\ cache' = cache /\ base'[r] = RowsOf(user[r])
          /\ \A q \in Requests : q # r => step'[q] = step[q] /\ seen'[q] = seen[q] /\ base'[q] = base[q]
      BY <2>3 DEF Query, TypeOK, CacheTypeOK
    <3>2. \A q \in Requests :
             step'[q] = "queried" /\ seen'[q] = rev[user[q]] => base'[q] = RowsOf(user[q])
      BY <3>1 DEF Recorded
    <3>3. \A k \in Keys : cache'[k] # Miss /\ cache'[k].ver = rev[k[1]] => shows'[k] = RowsOf(k[1])
      BY <2>3, <3>1 DEF Recorded
    <3> QED  BY <1>0, <2>1, <2>2, <3>2, <3>3 DEF Recorded
  <2>4. CASE Fill(r) /\ shows' = [shows EXCEPT ![KeyRead(r)] = base[r]] /\ base' = base
    <3>1. KeyRead(r) \in Keys /\ KeyRead(r)[1] = user[r]
      BY KeyReadType DEF TypeOK
    <3>2. /\ cache'[KeyRead(r)].ver = seen[r] /\ shows'[KeyRead(r)] = base[r]
          /\ step[r] = "queried" /\ seen' = seen
          /\ \A k \in Keys : k # KeyRead(r) => cache'[k] = cache[k] /\ shows'[k] = shows[k]
          /\ \A q \in Requests : step'[q] = "queried" => step[q] = "queried"
      BY <2>4, <3>1 DEF Fill, Stored, TypeOK, CacheTypeOK
    <3>3. \A k \in Keys : cache'[k] # Miss /\ cache'[k].ver = rev[k[1]] => shows'[k] = RowsOf(k[1])
      BY <3>1, <3>2 DEF Recorded
    <3>4. \A q \in Requests :
             step'[q] = "queried" /\ seen'[q] = rev[user[q]] => base'[q] = RowsOf(user[q])
      BY <2>4, <3>2 DEF Recorded
    <3> QED  BY <1>0, <2>1, <2>2, <3>3, <3>4 DEF Recorded
  <2> QED  BY <1>5, <2>3, <2>4 DEF Summary
<1> QED  BY <1>4, <1>5, RecordsKept

LEMMA RecordedInductive == Spec => []Recorded
<1>1. Init => Recorded
  BY DEF Init, CacheInit, Recorded
<1>2. TypeOK /\ TypeOK' /\ CacheInv /\ ApiInv /\ Recorded /\ [Next]_vars => Recorded'
  BY StepRecorded
<1> QED  BY <1>1, <1>2, TypeCorrect, CacheInvariant, ApiInvInductive, PTL DEF Spec

-----------------------------------------------------------------------------
(* The theorems                                                            *)

\* A summary stored before a user's last write is owed by who made that write.
LEMMA LastWriterKnown ==
    ASSUME CacheInv, ApiInv, NEW k \in Keys, cache[k] # Miss, cache[k].at < rev[k[1]]
    PROVE  \E r \in Requests :
              /\ user[r] = k[1] /\ mine[r] = rev[k[1]]
              /\ \/ step[r] = "written" /\ pc[r] \in {"refresh", "wipe"}
                 \/ step[r] = "wiping" /\ pc[r] = "wipe" /\ k \in must[r]
                 \/ pc[r] = "crashed"
<1>1. k[1] \in Users /\ cache[k].at \in Nat /\ rev[k[1]] \in Nat
  BY KeyUser DEF CacheInv, CacheTypeOK, Entry
<1>2. PICK r \in Requests : user[r] = k[1] /\ mine[r] = rev[k[1]]
  BY <1>1 DEF CacheInv, Authored
<1>3. Owed(r, k)
  BY <1>2 DEF CacheInv, WipeInv
<1>4. mine[r] > 0 /\ ~ (mine[r] < rev[user[r]])
  BY <1>1, <1>2
<1>5. pc[r] # "500"
  BY <1>4 DEF ApiInv, Overtaken
<1> QED  BY <1>2, <1>3, <1>5 DEF Owed, ApiInv, Linked

(* "Wipe any cached analytics for this user — call after any job write"    *)
(* (jobs.py:20), of the rows themselves: a cached summary of other rows    *)
(* than the table has was overtaken between its query and its SET, or is   *)
(* still to be deleted by the request that wrote last, unless it crashed.  *)
THEOREM OutdatedHasACause == Spec => []OutdatedExplained
<1>1. TypeOK /\ CacheInv /\ ApiInv /\ Recorded => OutdatedExplained
  <2> SUFFICES ASSUME TypeOK, CacheInv, ApiInv, Recorded, NEW k \in Keys,
                      cache[k] # Miss, shows[k] # RowsOf(k[1]), ~ (cache[k].ver < cache[k].at)
               PROVE  \E r \in Requests :
                         /\ user[r] = k[1] /\ mine[r] = rev[k[1]]
                         /\ \/ pc[r] = "refresh"
                            \/ pc[r] = "wipe" /\ (step[r] = "wiping" => k \in must[r])
                            \/ pc[r] = "crashed"
    BY DEF OutdatedExplained
  <2>1. rev[k[1]] \in Nat /\ cache[k].ver \in Nat /\ cache[k].at \in Nat
    BY KeyUser DEF CacheInv, CacheTypeOK, Entry
  <2>2. cache[k].ver # rev[k[1]] /\ cache[k].at <= rev[k[1]] /\ cache[k].ver <= cache[k].at
    BY DEF Recorded, CacheInv, WipeInv
  <2>3. cache[k].at < rev[k[1]]
    BY <2>1, <2>2
  <2> QED  BY <2>3, LastWriterKnown
<1> QED
  BY <1>1, TypeCorrect, CacheInvariant, ApiInvInductive, RecordedInductive, PTL

(* Skipping the wipe after a failed refresh (jobs.py:104-105) is harmless: *)
(* while nothing crashed, a summary stored before a user's last write is   *)
(* still to be wiped by the request that made that write.                  *)
THEOREM LastWriterOwes == Spec => []LastWriterWipes
<1>1. CacheInv /\ ApiInv => LastWriterWipes
  BY LastWriterKnown DEF LastWriterWipes
<1> QED
  BY <1>1, CacheInvariant, ApiInvInductive, PTL

(* Requests do not disturb one another's rows and fields: what a step may  *)
(* change is confined to its own user's row and its own payload, a deleted *)
(* id stays deleted (jobs.py:24-30, 53-141).                               *)
THEOREM WritesAreConfined == Spec => WritesConfined
<1> DEFINE Confined(j) ==
      \E r \in Requests :
          /\ pc'[r] # pc[r]
          /\ \/ jobs[j] = Unborn /\ jobs'[j] = [owner |-> user[r], data |-> body'[r]]
             \/ /\ Exists(j) /\ jobs[j].owner = user[r]
                /\ \/ jobs'[j] = Deleted /\ op[r] = "delete"
                   \/ /\ jobs'[j] \in Row /\ jobs'[j].owner = user[r]
                      /\ \A f \in Fields : jobs'[j].data[f] # jobs[j].data[f] =>
                            f \in DOMAIN body[r] /\ jobs'[j].data[f] = body[r][f]
<1>1. TypeOK /\ TypeOK' /\ ApiInv /\ [Next]_vars =>
        \A j \in JobIds : jobs'[j] # jobs[j] => Confined(j)
  <2> SUFFICES ASSUME TypeOK, TypeOK', ApiInv, [Next]_vars,
                      NEW j \in JobIds, jobs'[j] # jobs[j]
               PROVE  Confined(j)
    OBVIOUS
  <2>1. ASSUME NEW r \in Requests, CreateJob(r) PROVE Confined(j)
    <3>1. PICK i \in JobIds, d \in Data :
            /\ jobs[i] = Unborn
            /\ jobs' = [jobs EXCEPT ![i] = [owner |-> user[r], data |-> d]]
            /\ body' = [body EXCEPT ![r] = d]
      BY <2>1 DEF CreateJob
    <3>2. i = j /\ body'[r] = d /\ jobs'[j] = [owner |-> user[r], data |-> d]
      BY <3>1 DEF TypeOK
    <3>3. pc'[r] # pc[r]
      BY <2>1 DEF CreateJob, Goto, TypeOK
    <3> QED  BY <3>1, <3>2, <3>3
  <2>2. ASSUME NEW r \in Requests, UpdateJob(r) PROVE Confined(j)
    <3>1. /\ pc[r] = "loaded" /\ ~ UpdateFails(r) /\ Changed(r) # {}
          /\ jobs' = [jobs EXCEPT ![target[r]] =
                         [jobs[target[r]] EXCEPT !.data = Written(r, jobs[target[r]].data)]]
          /\ pc' = [pc EXCEPT ![r] = "refresh"]
      BY <2>2 DEF UpdateJob, Goto
    <3>2. j = target[r] /\ pc'[r] # pc[r]
      BY <3>1 DEF TypeOK
    <3>3. Exists(j) /\ jobs[j].owner = user[r]
      BY <3>1, <3>2 DEF UpdateFails, ApiInv, Targeted
    <3>4. jobs'[j] = [jobs[j] EXCEPT !.data = Written(r, jobs[j].data)]
      BY <3>1, <3>2 DEF TypeOK
    <3>5. jobs'[j].owner = user[r] /\ jobs'[j].data = Written(r, jobs[j].data)
      BY <3>3, <3>4 DEF Exists, Row
    <3>6. jobs'[j] \in Row
      <4>1. jobs'[j] \in Row \cup {Unborn, Deleted}
        BY DEF TypeOK
      <4>2. jobs[j].data \in Data /\ Storable(jobs[j].data) /\ Storable([f \in Changed(r) |-> body[r][f]])
        BY <3>1, <3>3 DEF UpdateFails, TypeOK, Exists, Row
      <4>3. Written(r, jobs[j].data) \in Data
        BY <4>2, WrittenStorable DEF TypeOK
      <4> QED  BY <3>3, <3>4, <4>3 DEF Exists, Row
    <3>7. \A f \in Fields : jobs'[j].data[f] # jobs[j].data[f] =>
             f \in DOMAIN body[r] /\ jobs'[j].data[f] = body[r][f]
      <4>1. DOMAIN jobs[j].data = Fields
        BY <3>3 DEF Exists, Row, Data
      <4> QED  BY <3>5, <4>1 DEF Written, Flushed, NetChanges
    <3> QED  BY <3>2, <3>3, <3>5, <3>6, <3>7
  <2>3. ASSUME NEW r \in Requests, DeleteJob(r) PROVE Confined(j)
    <3>1. /\ pc[r] = "loaded" /\ op[r] = "delete" /\ Exists(target[r])
          /\ jobs' = [jobs EXCEPT ![target[r]] = Deleted]
          /\ pc' = [pc EXCEPT ![r] = "wipe"]
      BY <2>3 DEF DeleteJob, Goto
    <3>2. j = target[r] /\ pc'[r] # pc[r] /\ jobs'[j] = Deleted
      BY <3>1 DEF TypeOK
    <3> QED  BY <3>1, <3>2 DEF ApiInv, Targeted
  <2>4. ASSUME NEW r \in Requests,
               LoadJob(r) \/ Refresh(r) \/ Invalidate(r) \/ Summary(r) \/ Crash(r)
        PROVE  jobs' = jobs
    BY <2>4 DEF LoadJob, Refresh, Invalidate, Summary, Crash
  <2>5. CASE Environment \/ UNCHANGED vars
    BY <2>5 DEF Environment, vars
  <2> HIDE DEF Confined
  <2> QED  BY <2>1, <2>2, <2>3, <2>4, <2>5 DEF Next
<1> QED
  BY <1>1, TypeCorrect, ApiInvInductive, PTL DEF Spec, WritesConfined

(* What a create or PATCH committed is not undone by a request that merely  *)
(* saved a stale copy of the row: whoever's value is there sent it.         *)
THEOREM UndoingIsAsked == Spec => []UndoneOnlyByPatch
<1>1. TypeOK /\ Accounted => UndoneOnlyByPatch
  <2> SUFFICES ASSUME TypeOK, Accounted, NEW r \in Requests, NEW f \in Fields,
                      op[r] \in {"create", "update"}, pc[r] \in {"refresh", "wipe", "ok"},
                      f \in DOMAIN body[r], Exists(target[r]),
                      jobs[target[r]].data[f] # body[r][f]
               PROVE  \E q \in Requests \ {r} :
                         /\ op[q] = "update" /\ target[q] = target[r] /\ user[q] = user[r]
                         /\ pc[q] \notin {"start", "loaded", "404"}
                         /\ f \in DOMAIN body[q] /\ body[q][f] = jobs[target[r]].data[f]
    BY DEF UndoneOnlyByPatch
  <2>1. Explained(r, f, body[r][f])
    BY DEF Accounted, Writing
  <2> QED  BY <2>1 DEF Explained, Sent
<1> QED  BY <1>1, TypeCorrect, AccountedInductive, PTL

=============================================================================
