--------------------------- MODULE AnalyticsCache ---------------------------
(***************************************************************************)
(* The cache-aside protocol between the analytics endpoint and the job     *)
(* writers: app/api/v1/analytics.py looks a summary up in Redis, computes  *)
(* it on a miss and stores it for five minutes; every handler of           *)
(* app/api/v1/jobs.py that writes wipes the user's summaries after its     *)
(* commit, with the SCAN and DELETE loop of app/core/cache.py.             *)
(*                                                                         *)
(* Simplifications.  What the database holds for a user is abstracted to   *)
(* rev, the number of job writes committed so far, and a summary to the    *)
(* rev its first query saw (the other three queries run later, and see no  *)
(* older data).  A request is made once and is a writer or a reader.       *)
(* Module JobsApi puts the real rows and handlers back.                    *)
(***************************************************************************)
EXTENDS Naturals, FiniteSets

CONSTANTS
    Requests,   \* HTTP requests
    Users,      \* authenticated users
    Ranges,     \* the summaries cached per user: 7d, 30d, 90d
    Miss        \* no such key in Redis

\* The Redis keys `analytics:user:{id}:{range}`.
Keys == Users \X Ranges

\* A cached summary: the rev it shows, the rev there was when it was stored
\* (history), and whether Redis will expire it.
Entry == [ver : Nat, at : Nat, expires : BOOLEAN]

ASSUME MissAssumption == Miss \notin Entry

VARIABLES
    user,    \* the user of each request
    rev,     \* job writes committed for each user
    cache,   \* Redis: the cached summaries
    step,    \* how far each request got
    mine,    \* history: the rev that a writer's own commit made, 0 before
    must,    \* the keys that the SCAN of a wiping writer cannot miss any more
    range,   \* the range a reader asked for
    seen     \* the rev of the summary a reader holds

cacheVars == <<user, rev, cache, step, mine, must, range, seen>>

\* The keys that match `analytics:user:{user_id}:*`.
KeysOf(u) == {k \in Keys : k[1] = u}

Final == {"wiped", "served", "failed"}
Steps == {"idle", "written", "wiping", "missed", "queried"} \cup Final

CacheTypeOK ==
    /\ user \in [Requests -> Users]
    /\ rev \in [Users -> Nat]
    /\ cache \in [Keys -> Entry \cup {Miss}]
    /\ step \in [Requests -> Steps]
    /\ mine \in [Requests -> Nat]
    /\ must \in [Requests -> SUBSET Keys]
    /\ range \in [Requests -> Ranges]
    /\ seen \in [Requests -> Nat]

CacheInit ==
    /\ user \in [Requests -> Users]
    /\ rev = [u \in Users |-> 0]
    /\ cache = [k \in Keys |-> Miss]
    /\ step = [r \in Requests |-> "idle"]
    /\ mine = [r \in Requests |-> 0]
    /\ must = [r \in Requests |-> {}]
    /\ range \in [Requests -> Ranges]
    /\ seen = [r \in Requests |-> 0]

\* A key goes away, deleted or expired: a SCAN under way need not return it.
Remove(k) ==
    /\ cache' = [cache EXCEPT ![k] = Miss]
    /\ must' = [r \in Requests |-> must[r] \ {k}]

-----------------------------------------------------------------------------
(* Writers                                                                 *)

\* The commit of a handler of jobs.py that changed the user's jobs.
Write(r) ==
    /\ step[r] = "idle"
    /\ rev' = [rev EXCEPT ![user[r]] = @ + 1]
    /\ mine' = [mine EXCEPT ![r] = rev[user[r]] + 1]
    /\ step' = [step EXCEPT ![r] = "written"]
    /\ UNCHANGED <<user, cache, must, range, seen>>

\* The commit of a handler that changed nothing; it wipes all the same.
WriteNothing(r) ==
    /\ step[r] = "idle"
    /\ step' = [step EXCEPT ![r] = "written"]
    /\ UNCHANGED <<user, rev, cache, mine, must, range, seen>>

StartWipeBlind(r) ==
    /\ step[r] = "written"
    /\ step' = [step EXCEPT ![r] = "wiping"]
    /\ must' = [must EXCEPT ![r] = {}]
    /\ UNCHANGED <<user, rev, cache, mine, range, seen>>

\* SCAN begins: it will return every key that stays there until its end, and
\* may or may not return a key stored meanwhile.
StartWipe(r) ==
    /\ step[r] = "written"
    /\ step' = [step EXCEPT ![r] = "wiping"]
    /\ must' = [must EXCEPT ![r] = {k \in KeysOf(user[r]) : cache[k] # Miss}]
    /\ UNCHANGED <<user, rev, cache, mine, range, seen>>

\* DELETE of a key that SCAN returned.
WipeKey(r, k) ==
    /\ step[r] = "wiping"
    /\ k \in KeysOf(user[r])
    /\ cache[k] # Miss
    /\ Remove(k)
    /\ UNCHANGED <<user, rev, step, mine, range, seen>>

\* SCAN is through.
EndWipe(r) ==
    /\ step[r] = "wiping"
    /\ must[r] = {}
    /\ step' = [step EXCEPT ![r] = "wiped"]
    /\ UNCHANGED <<user, rev, cache, mine, must, range, seen>>

-----------------------------------------------------------------------------
(* Readers                                                                 *)

KeyRead(r) == <<user[r], range[r]>>

\* GET: a hit is returned as it is.
Lookup(r) ==
    LET e == cache[KeyRead(r)]
    IN  /\ step[r] = "idle"
        /\ step' = [step EXCEPT ![r] = IF e = Miss THEN "missed" ELSE "served"]
        /\ seen' = [seen EXCEPT ![r] = IF e = Miss THEN @ ELSE e.ver]
        /\ UNCHANGED <<user, rev, cache, mine, must, range>>

\* The first of the four queries of compute_summary.
Query(r) ==
    /\ step[r] = "missed"
    /\ step' = [step EXCEPT ![r] = "queried"]
    /\ seen' = [seen EXCEPT ![r] = rev[user[r]]]
    /\ UNCHANGED <<user, rev, cache, mine, must, range>>

NeverExpires(e) == [e EXCEPT !.expires = FALSE]

\* SET with ex=ttl.
Stored(e) == e

\* The summary is stored, over whatever is there, and returned.
Fill(r) ==
    /\ step[r] = "queried"
    /\ cache' = [cache EXCEPT ![KeyRead(r)] =
                   Stored([ver |-> seen[r], at |-> rev[user[r]], expires |-> TRUE])]
    /\ step' = [step EXCEPT ![r] = "served"]
    /\ UNCHANGED <<user, rev, mine, must, range, seen>>

-----------------------------------------------------------------------------
(* Failures and time                                                       *)

\* The process dies, or a call to Redis or to the database fails.
Fail(r) ==
    /\ step[r] \notin Final
    /\ step' = [step EXCEPT ![r] = "failed"]
    /\ UNCHANGED <<user, rev, cache, mine, must, range, seen>>

\* The five minutes of a key are over.
Expire(k) ==
    /\ cache[k] # Miss
    /\ cache[k].expires
    /\ Remove(k)
    /\ UNCHANGED <<user, rev, step, mine, range, seen>>

\* Redis loses its data (no volume in docker-compose.yml).
RedisRestart ==
    /\ cache' = [k \in Keys |-> Miss]
    /\ must' = [r \in Requests |-> {}]
    /\ UNCHANGED <<user, rev, step, mine, range, seen>>

Progress(r) ==
    \/ StartWipe(r)
    \/ \E k \in Keys : WipeKey(r, k)
    \/ EndWipe(r)
    \/ Query(r)
    \/ Fill(r)

CacheNext ==
    \/ \E r \in Requests :
          Write(r) \/ WriteNothing(r) \/ Lookup(r) \/ Progress(r) \/ Fail(r)
    \/ \E k \in Keys : Expire(k)
    \/ RedisRestart

CacheSpec == CacheInit /\ [][CacheNext]_cacheVars

(* A handler whose call returned goes on (asyncio resumes it), and Redis   *)
(* expires keys.  Clients owe no requests; failures and restarts are not   *)
(* fair.                                                                   *)
Fairness ==
    /\ \A r \in Requests : WF_cacheVars(Progress(r))
    /\ \A k \in Keys : WF_cacheVars(Expire(k))

FairSpec == CacheSpec /\ Fairness

-----------------------------------------------------------------------------
(* Properties                                                              *)

(* "Wipe any cached analytics for this user — call after any job write"    *)
(* (jobs.py:20): a summary that outlives the completed wipe of a writer    *)
(* was stored after that writer's commit.                                  *)
SurvivorsStoredLater ==
    \A r \in Requests, k \in Keys :
        step[r] = "wiped" /\ k[1] = user[r] /\ cache[k] # Miss
            => cache[k].at >= mine[r]

Stale(k) == cache[k] # Miss /\ cache[k].ver < rev[k[1]]

(* Stale data has one of two causes: a fill whose queries ran before a     *)
(* write and whose SET ran after it, or a writer that has not wiped the    *)
(* key yet or failed before it could.  There is no third.                  *)
StaleExplained ==
    \A k \in Keys :
        Stale(k) =>
            \/ cache[k].ver < cache[k].at
            \/ \E r \in Requests :
                  /\ user[r] = k[1]
                  /\ mine[r] = rev[k[1]]
                  /\ \/ step[r] \in {"written", "failed"}
                     \/ step[r] = "wiping" /\ k \in must[r]

(* "TTL is in seconds (always; no infinite keys)" (cache.py:26): whatever  *)
(* raced or failed, once a user stops writing the cache comes to hold      *)
(* nothing out of date, and stays so.                                      *)
EventuallyFresh == <>[](\A k \in Keys : ~ Stale(k))

=============================================================================
