---------------------------- MODULE RateLimiter ----------------------------
(***************************************************************************)
(* The per-user fixed-window rate limiter of app/core/rate_limit.py: the   *)
(* dependency `_check` runs before each AI route and talks to Redis in up  *)
(* to three separate commands, INCR, EXPIRE and TTL.  Every command is     *)
(* atomic in Redis; between two of them the handler is suspended in an     *)
(* `await`, and any other request, the passing of time, a restart of Redis *)
(* or the death of the handler may come in.                                *)
(*                                                                         *)
(* Simplifications.  A request is one call of `_check`, made once; its     *)
(* user and route are fixed in the initial state.  Time advances in ticks, *)
(* TicksPerSecond of them to a second, and is kept relative (time left,    *)
(* time since), so no clock grows.  The counts, the window numbers and the *)
(* ages are history variables where the comments say so: no action's guard *)
(* reads them.                                                             *)
(***************************************************************************)
EXTENDS Integers, FiniteSets

CONSTANTS
    Requests,        \* calls of the limiter dependency
    Users,           \* authenticated users
    Scopes,          \* the limited routes: resume_match, interview_gen, ...
    MaxRequests,     \* max_requests
    WindowSeconds,   \* window_seconds
    TicksPerSecond,  \* resolution of the model's time
    MaxRestarts,     \* bound: how often Redis loses its data
    MaxCrashes       \* bound: how often a handler dies between two commands

ASSUME RequestsAssumption == IsFiniteSet(Requests)
ASSUME LimitAssumption == MaxRequests \in Nat
ASSUME TimeAssumption == WindowSeconds \in Nat \ {0} /\ TicksPerSecond \in Nat \ {0}
ASSUME BoundsAssumption == MaxRestarts \in Nat /\ MaxCrashes \in Nat

\* The Redis keys `rl:{scope}:{user_id}`.
Keys == Scopes \X Users

\* What EXPIRE key window_seconds sets, in ticks.
Window == WindowSeconds * TicksPerSecond

\* A key without an expiry; TTL reports it as -1, and a key that is not there as -2.
NoTtl == -1
Absent == -2

VARIABLES
    counter,   \* Redis: the value of each key, 0 when the key does not exist
    expiry,    \* Redis: ticks until the key expires, NoTtl when none is set
    key,       \* the key each request is charged to
    pc,        \* the next command of each request, or its outcome
    count,     \* `count`, what INCR returned to the request
    ttl,       \* `ttl`, what TTL returned to a refused request
    wait,      \* ticks the client still has to wait by its Retry-After
    gen,       \* history: the window the request was counted in
    window,    \* history: how many windows the key has had
    age,       \* history: ticks since the last window began, at most Window
    restarts,  \* how often Redis lost its data
    crashes    \* how often a handler died half way

vars == <<counter, expiry, key, pc, count, ttl, wait, gen, window, age, restarts, crashes>>

Steps == {"start", "expire", "ttl", "admitted", "rejected", "failed"}

TypeOK ==
    /\ counter \in [Keys -> Nat]
    /\ expiry \in [Keys -> {NoTtl} \cup 1..Window]
    /\ \A k \in Keys : counter[k] = 0 => expiry[k] = NoTtl
    /\ key \in [Requests -> Keys]
    /\ pc \in [Requests -> Steps]
    /\ count \in [Requests -> Nat]
    /\ ttl \in [Requests -> {Absent, NoTtl} \cup 0..WindowSeconds]
    /\ wait \in [Requests -> 0..Window]
    /\ gen \in [Requests -> Nat]
    /\ window \in [Keys -> Nat]
    /\ age \in [Keys -> 0..Window]
    /\ restarts \in 0..MaxRestarts
    /\ crashes \in 0..MaxCrashes

Init ==
    /\ counter = [k \in Keys |-> 0]
    /\ expiry = [k \in Keys |-> NoTtl]
    /\ key \in [Requests -> Keys]
    /\ pc = [r \in Requests |-> "start"]
    /\ count = [r \in Requests |-> 0]
    /\ ttl = [r \in Requests |-> Absent]
    /\ wait = [r \in Requests |-> 0]
    /\ gen = [r \in Requests |-> 0]
    /\ window = [k \in Keys |-> 0]
    /\ age = [k \in Keys |-> Window]
    /\ restarts = 0
    /\ crashes = 0

-----------------------------------------------------------------------------
(* The handler                                                             *)

VerdictOneTooMany(n) == IF n > MaxRequests + 1 THEN "ttl" ELSE "admitted"
VerdictOneTooFew(n) == IF n >= MaxRequests THEN "ttl" ELSE "admitted"

\* `if count > max_requests`: refuse, reading the TTL first, or let through.
Verdict(n) == IF n > MaxRequests THEN "ttl" ELSE "admitted"

AfterIncrAlwaysExpire(n) == "expire"

AfterIncrFromZero(n) == IF n = 0 THEN "expire" ELSE Verdict(n)

\* `if count == 1`: the first hit of a window sets the expiry.
AfterIncr(n) == IF n = 1 THEN "expire" ELSE Verdict(n)

\* INCR: creates a missing key at 1, keeps the expiry of one that exists.
Incr(r) ==
    LET k == key[r]
        n == counter[k] + 1
    IN  /\ pc[r] = "start"
        /\ counter' = [counter EXCEPT ![k] = n]
        /\ count' = [count EXCEPT ![r] = n]
        /\ pc' = [pc EXCEPT ![r] = AfterIncr(n)]
        /\ window' = [window EXCEPT ![k] = IF n = 1 THEN @ + 1 ELSE @]
        /\ age' = [age EXCEPT ![k] = IF n = 1 THEN 0 ELSE @]
        /\ gen' = [gen EXCEPT ![r] = window'[k]]
        /\ UNCHANGED <<expiry, key, ttl, wait, restarts, crashes>>

ExpireShort(r) ==
    /\ pc[r] = "expire"
    /\ expiry' = [expiry EXCEPT ![key[r]] = IF counter[key[r]] = 0 THEN @ ELSE 1]
    /\ pc' = [pc EXCEPT ![r] = Verdict(count[r])]
    /\ UNCHANGED <<counter, key, count, ttl, wait, gen, window, age, restarts, crashes>>

\* EXPIRE: replaces the expiry of the key, without effect when the key is gone.
Expire(r) ==
    /\ pc[r] = "expire"
    /\ expiry' = [expiry EXCEPT ![key[r]] = IF counter[key[r]] = 0 THEN @ ELSE Window]
    /\ pc' = [pc EXCEPT ![r] = Verdict(count[r])]
    /\ UNCHANGED <<counter, key, count, ttl, wait, gen, window, age, restarts, crashes>>

\* The reply of TTL: Redis rounds the remaining time to the nearest second.
TtlReply(k) ==
    IF counter[k] = 0 THEN Absent
    ELSE IF expiry[k] = NoTtl THEN NoTtl
    ELSE (expiry[k] + TicksPerSecond \div 2) \div TicksPerSecond

RetryAfterOne(n) == 1

\* The Retry-After header: max(ttl, 1) seconds.
RetryAfter(n) == IF n > 1 THEN n ELSE 1

\* TTL, then the 429 that carries the Retry-After.
ReadTtl(r) ==
    LET n == TtlReply(key[r])
    IN  /\ pc[r] = "ttl"
        /\ ttl' = [ttl EXCEPT ![r] = n]
        /\ wait' = [wait EXCEPT ![r] = RetryAfter(n) * TicksPerSecond]
        /\ pc' = [pc EXCEPT ![r] = "rejected"]
        /\ UNCHANGED <<counter, expiry, key, count, gen, window, age, restarts, crashes>>

\* The handler dies, or Redis refuses a command, after the request was counted.
Crash(r) ==
    /\ crashes < MaxCrashes
    /\ pc[r] \in {"expire", "ttl"}
    /\ pc' = [pc EXCEPT ![r] = "failed"]
    /\ crashes' = crashes + 1
    /\ UNCHANGED <<counter, expiry, key, count, ttl, wait, gen, window, age, restarts>>

-----------------------------------------------------------------------------
(* The environment                                                         *)

Decrement(n) == IF n > 0 THEN n - 1 ELSE 0

TickZero ==
    /\ expiry' = [k \in Keys |-> IF expiry[k] > 0 THEN expiry[k] - 1 ELSE NoTtl]
    /\ counter' = [k \in Keys |-> IF expiry[k] = 0 THEN 0 ELSE counter[k]]
    /\ age' = [k \in Keys |-> IF age[k] < Window THEN age[k] + 1 ELSE age[k]]
    /\ wait' = [r \in Requests |-> Decrement(wait[r])]
    /\ UNCHANGED <<key, pc, count, ttl, gen, window, restarts, crashes>>

\* Time passes by a tick: a key whose time is up is gone.
Tick ==
    /\ expiry' = [k \in Keys |-> IF expiry[k] > 1 THEN expiry[k] - 1 ELSE NoTtl]
    /\ counter' = [k \in Keys |-> IF expiry[k] = 1 THEN 0 ELSE counter[k]]
    /\ age' = [k \in Keys |-> IF age[k] < Window THEN age[k] + 1 ELSE age[k]]
    /\ wait' = [r \in Requests |-> Decrement(wait[r])]
    /\ UNCHANGED <<key, pc, count, ttl, gen, window, restarts, crashes>>

\* Redis restarts; its data has no volume (docker-compose.yml) and is lost.
RedisRestart ==
    /\ restarts < MaxRestarts
    /\ counter' = [k \in Keys |-> 0]
    /\ expiry' = [k \in Keys |-> NoTtl]
    /\ restarts' = restarts + 1
    /\ UNCHANGED <<key, pc, count, ttl, wait, gen, window, age, crashes>>

Next ==
    \/ \E r \in Requests : Incr(r) \/ Expire(r) \/ ReadTtl(r) \/ Crash(r)
    \/ Tick
    \/ RedisRestart

Spec == Init /\ [][Next]_vars

(* Time passes, and a handler whose Redis call returned goes on to its next *)
(* command.  Clients owe nothing, and neither crashes nor restarts are     *)
(* fair.                                                                   *)
Fairness == WF_vars(Tick) /\ \A r \in Requests : WF_vars(Expire(r)) /\ WF_vars(ReadTtl(r))

FairSpec == Spec /\ Fairness

-----------------------------------------------------------------------------
(* Properties                                                              *)

Counted(r) == pc[r] # "start"

\* The requests counted in window g of key k whose INCR returned at most MaxRequests.
WithinLimit(k, g) ==
    {r \in Requests : Counted(r) /\ key[r] = k /\ gen[r] = g /\ count[r] \in 1..MaxRequests}

\* The requests of window g of key k that `_check` let through.
AdmittedIn(k, g) == {r \in Requests : pc[r] = "admitted" /\ key[r] = k /\ gen[r] = g}

(* "10 requests per hour to that endpoint" (rate_limit.py:13): however the *)
(* requests of a user interleave, fail half way or see Redis restart, one  *)
(* window admits at most MaxRequests of them.                              *)
AdmittedPerWindow ==
    \A r \in Requests :
        Counted(r) => Cardinality(AdmittedIn(key[r], gen[r])) <= MaxRequests

(* The limit is not stricter than announced, and users and routes do not   *)
(* use up each other's: a request is refused only when MaxRequests others  *)
(* of the same user, route and window were counted before the limit.       *)
LimitExact ==
    \A r \in Requests :
        pc[r] = "rejected" => Cardinality(WithinLimit(key[r], gen[r]) \ {r}) = MaxRequests

(* "set TTL only on first hit of the window" (rate_limit.py:17): unless    *)
(* Redis lost data, no request postpones the reset of a window, however    *)
(* late its EXPIRE arrives, and a window ends only by losing its key.      *)
DeadlineStable ==
    [][\A k \in Keys :
          restarts = 0 /\ expiry[k] # NoTtl
            => /\ expiry'[k] <= expiry[k]
               /\ expiry'[k] = NoTtl => counter'[k] = 0]_vars

(* Unless Redis lost data, a user gets a fresh allowance only when at      *)
(* least window_seconds have passed since the last one began.              *)
WindowsSpaced ==
    [][\A k \in Keys :
          restarts = 0 /\ window'[k] # window[k] => age[k] = Window]_vars

\* The window a request was counted in is still the current one of its key.
WindowOpen(r) == counter[key[r]] > 0 /\ gen[r] = window[key[r]]

(* A client that waits for its Retry-After finds the window over, to the   *)
(* half second TTL may round away.  Refusals that saw no expiry on the key *)
(* (TTL = -1), whose clients are told to wait a second, are excluded.      *)
RetryAfterHonest ==
    \A r \in Requests :
        pc[r] = "rejected" /\ ttl[r] # NoTtl /\ wait[r] = 0 /\ restarts = 0
            => ~ WindowOpen(r) \/ 2 * expiry[key[r]] <= TicksPerSecond

\* The first request of the window of k that is open.
Opens(r, k) == key[r] = k /\ gen[r] = window[k] /\ count[r] = 1

(* A key without an expiry, which cannot reset, has nobody but the first   *)
(* request of its window to blame: that one is about to set it, or died    *)
(* before it could.  Lost data and late EXPIREs leave no such key behind.  *)
ResetPending ==
    \A k \in Keys : counter[k] > 0 /\ expiry[k] = NoTtl =>
        \E r \in Requests : Opens(r, k) /\ pc[r] \in {"expire", "failed"}

(* The three commands together do what one atomic step would: RateLimiter  *)
(* implements FixedWindow, whatever comes between them.                    *)
NoAnswer == "none"

Decision(r) ==
    IF ~ Counted(r) THEN NoAnswer
    ELSE IF count[r] <= MaxRequests THEN "admitted" ELSE "rejected"

Limit == INSTANCE FixedWindow WITH
    None <- NoAnswer,
    used <- counter,
    verdict <- [r \in Requests |-> Decision(r)],
    answer <- [r \in Requests |->
                  IF pc[r] \in {"admitted", "rejected", "failed"} THEN pc[r] ELSE NoAnswer],
    losses <- restarts

ImplementsFixedWindow == Limit!Spec

(* "set TTL so the key auto-resets" (rate_limit.py:47): a window that was  *)
(* opened ends, so no user is refused for ever.                            *)
WindowsReset == \A k \in Keys : counter[k] > 0 ~> counter[k] = 0

=============================================================================
