------------------------- MODULE RateLimiterProofs -------------------------
(***************************************************************************)
(* Proofs about RateLimiter, for any number of requests, users and routes, *)
(* any limit, any window, and any number of restarts and crashes.          *)
(*                                                                         *)
(* The argument: within one window of a key the values INCR returned are   *)
(* distinct (Distinct) and leave no gap (Gapless), so "count" numbers the  *)
(* requests of the window 1, 2, 3, ...; the admitted ones are those        *)
(* numbered at most MaxRequests.  The timing properties rest on Timed: an  *)
(* EXPIRE still owed belongs to the open window and finds no expiry there. *)
(***************************************************************************)
EXTENDS RateLimiter, FiniteSetTheorems, TLAPS

\* TTL's rounding keeps non-negative numbers non-negative.
LEMMA RoundedNat ==
    \A e \in Nat, t \in Nat \ {0} : (e + t \div 2) \div t \in Nat
  BY SMT

\* A remaining time is at most half a second more than what TTL reports.
LEMMA RoundedDown ==
    \A e \in Nat, t \in Nat \ {0} : 2 * e <= t + 2 * (((e + t \div 2) \div t) * t)
  BY SMT

\* A remaining time of whole seconds at most w is never reported as more than w.
LEMMA RoundedUp ==
    \A e, w \in Nat, t \in Nat \ {0} : e <= w * t => (e + t \div 2) \div t <= w
  BY SMT

LEMMA ScaleMonotone == \A a, b, t \in Nat : a <= b => a * t <= b * t
  BY SMT

LEMMA WindowNat == Window \in Nat \ {0}
  BY TimeAssumption, SMT DEF Window

\* What TTL can reply when the state is well typed.
LEMMA TtlReplyType ==
    ASSUME TypeOK, NEW k \in Keys
    PROVE  TtlReply(k) \in {Absent, NoTtl} \cup 0..WindowSeconds
<1>1. CASE counter[k] = 0 \/ expiry[k] = NoTtl
  BY <1>1 DEF TtlReply
<1>2. CASE counter[k] # 0 /\ expiry[k] # NoTtl
  <2>1. expiry[k] \in Nat /\ expiry[k] <= WindowSeconds * TicksPerSecond
    BY <1>2, WindowNat DEF TypeOK, Window
  <2>2. TtlReply(k) = (expiry[k] + TicksPerSecond \div 2) \div TicksPerSecond
    BY <1>2 DEF TtlReply
  <2>3. TtlReply(k) \in Nat /\ TtlReply(k) <= WindowSeconds
    BY <2>1, <2>2, RoundedNat, RoundedUp, TimeAssumption
  <2> QED  BY <2>3, TimeAssumption
<1> QED  BY <1>1, <1>2

\* The Retry-After in ticks is never more than a whole window.
LEMMA RetryAfterType ==
    ASSUME NEW n \in {Absent, NoTtl} \cup 0..WindowSeconds
    PROVE  RetryAfter(n) * TicksPerSecond \in 0..Window
<1>1. RetryAfter(n) \in Nat /\ RetryAfter(n) <= WindowSeconds
  BY TimeAssumption DEF RetryAfter, Absent, NoTtl
<1>2. RetryAfter(n) * TicksPerSecond <= Window
  BY <1>1, ScaleMonotone, TimeAssumption DEF Window
<1>3. RetryAfter(n) * TicksPerSecond \in Nat
  BY <1>1, TimeAssumption
<1> QED  BY <1>2, <1>3, WindowNat

-----------------------------------------------------------------------------
(* Every state is well typed, and a key that does not exist has no expiry  *)
(* (the values Redis can hold for the keys of rate_limit.py).              *)
THEOREM TypeCorrect == Spec => []TypeOK
<1>1. Init => TypeOK
  BY WindowNat, BoundsAssumption DEF Init, TypeOK, Steps
<1>2. TypeOK /\ [Next]_vars => TypeOK'
  <2> SUFFICES ASSUME TypeOK, [Next]_vars PROVE TypeOK'
    OBVIOUS
  <2>1. ASSUME NEW r \in Requests, Incr(r) PROVE TypeOK'
    BY <2>1, WindowNat DEF TypeOK, Incr, AfterIncr, Verdict, Steps, NoTtl
  <2>2. ASSUME NEW r \in Requests, Expire(r) PROVE TypeOK'
    BY <2>2, WindowNat DEF TypeOK, Expire, Verdict, Steps, NoTtl
  <2>3. ASSUME NEW r \in Requests, ReadTtl(r) PROVE TypeOK'
    <3>1. key[r] \in Keys
      BY DEF TypeOK
    <3>2. TtlReply(key[r]) \in {Absent, NoTtl} \cup 0..WindowSeconds
      BY <3>1, TtlReplyType
    <3>3. RetryAfter(TtlReply(key[r])) * TicksPerSecond \in 0..Window
      BY <3>2, RetryAfterType
    <3> QED
      BY <2>3, <3>2, <3>3 DEF TypeOK, ReadTtl, Steps
  <2>4. ASSUME NEW r \in Requests, Crash(r) PROVE TypeOK'
    BY <2>4, BoundsAssumption DEF TypeOK, Crash, Steps
  <2>5. CASE Tick
    BY <2>5, WindowNat DEF TypeOK, Tick, Decrement, NoTtl
  <2>6. CASE RedisRestart
    BY <2>6, BoundsAssumption DEF TypeOK, RedisRestart
  <2>7. CASE UNCHANGED vars
    BY <2>7 DEF TypeOK, vars
  <2> QED
    BY <2>1, <2>2, <2>3, <2>4, <2>5, <2>6, <2>7 DEF Next
<1> QED
  BY <1>1, <1>2, PTL DEF Spec

-----------------------------------------------------------------------------
(* The inductive invariant                                                 *)

\* What the outcome of a request says of its count.
Decided ==
    \A r \in Requests :
        /\ Counted(r) => count[r] >= 1
        /\ pc[r] = "expire" => count[r] = 1
        /\ pc[r] = "admitted" => count[r] <= MaxRequests
        /\ pc[r] \in {"ttl", "rejected"} => count[r] > MaxRequests

\* Requests belong to windows that have begun; the key's value is the highest
\* count of its open window.
Ordered ==
    /\ \A k \in Keys : counter[k] > 0 => window[k] >= 1
    /\ \A r \in Requests : Counted(r) =>
          /\ gen[r] >= 1
          /\ gen[r] <= window[key[r]]
          /\ WindowOpen(r) => count[r] <= counter[key[r]]

\* No two requests of a window have the same count.
Distinct ==
    \A r, s \in Requests :
        /\ Counted(r) /\ Counted(s) /\ r # s
        /\ key[r] = key[s] /\ gen[r] = gen[s]
        => count[r] # count[s]

\* Some request of window g of key k got count n.
Numbered(k, g, n) == \E s \in Requests : Counted(s) /\ key[s] = k /\ gen[s] = g /\ count[s] = n

\* The counts of a window leave no gap.
Gapless ==
    /\ \A k \in Keys : \A n \in 1..counter[k] : Numbered(k, window[k], n)
    /\ \A r \in Requests : Counted(r) =>
          \A n \in 1..count[r] : Numbered(key[r], gen[r], n)

CountInv == Decided /\ Ordered /\ Distinct /\ Gapless

\* How expiries and ages relate while Redis has not lost data.
Timed ==
    restarts = 0 =>
        /\ \A k \in Keys : counter[k] = 0 => age[k] = Window
        /\ \A k \in Keys : expiry[k] # NoTtl => age[k] + expiry[k] >= Window
        /\ \A r \in Requests :
              pc[r] = "expire" => WindowOpen(r) /\ expiry[key[r]] = NoTtl

\* A refused client's remaining wait covers the remaining window, to half a second.
Awaited ==
    \A r \in Requests :
        pc[r] = "rejected" /\ ttl[r] # NoTtl /\ restarts = 0 =>
            \/ ~ WindowOpen(r)
            \/ /\ expiry[key[r]] # NoTtl
               /\ 2 * expiry[key[r]] <= TicksPerSecond + 2 * wait[r]

\* Only Incr gives out counts: any other step keeps the numbering.
LEMMA NumberingKept ==
    ASSUME TypeOK, CountInv,
           UNCHANGED <<key, count, gen, window>>,
           \A r \in Requests : Counted(r)' <=> Counted(r),
           \A k \in Keys : counter'[k] = counter[k] \/ counter'[k] = 0
    PROVE  Ordered' /\ Distinct' /\ Gapless'
<1>1. Ordered'
  BY DEF CountInv, Ordered, WindowOpen, TypeOK
<1>2. Distinct'
  BY DEF CountInv, Distinct
<1>3. ASSUME NEW k, NEW g, NEW n, Numbered(k, g, n) PROVE Numbered(k, g, n)'
  BY <1>3 DEF Numbered
<1>4. Gapless'
  <2>1. ASSUME NEW k \in Keys, NEW n \in (1..counter[k])' PROVE Numbered(k, window[k], n)'
    <3>1. n \in 1..counter[k]
      BY <2>1 DEF TypeOK
    <3>2. Numbered(k, window[k], n)
      BY <3>1 DEF CountInv, Gapless
    <3> QED  BY <3>2, <1>3
  <2>2. ASSUME NEW r \in Requests, Counted(r)', NEW n \in (1..count[r])'
        PROVE  Numbered(key[r], gen[r], n)'
    <3>1. Numbered(key[r], gen[r], n)
      BY <2>2 DEF CountInv, Gapless
    <3> QED  BY <3>1, <1>3
  <2> QED  BY <2>1, <2>2 DEF Gapless
<1> QED  BY <1>1, <1>2, <1>4

LEMMA IncrKeepsCountInv ==
    ASSUME TypeOK, CountInv, NEW r \in Requests, Incr(r)
    PROVE  CountInv'
<1>1. PICK k \in Keys, n \in Nat, w \in Nat :
          /\ k = key[r] /\ n = counter[k] + 1
          /\ w = IF n = 1 THEN window[k] + 1 ELSE window[k]
  BY DEF TypeOK
<1>n. n >= 1 /\ pc[r] = "start" /\ counter[k] \in Nat
  BY <1>1 DEF TypeOK, Incr
<1>2. /\ counter' = [counter EXCEPT ![k] = n]
      /\ count' = [count EXCEPT ![r] = n]
      /\ window' = [window EXCEPT ![k] = w]
      /\ gen' = [gen EXCEPT ![r] = w]
      /\ key' = key
  BY <1>1, <1>n DEF Incr, TypeOK
<1>3. pc' = [pc EXCEPT ![r] = AfterIncr(n)] /\ AfterIncr(n) \in {"expire", "ttl", "admitted"}
  BY <1>1 DEF Incr, AfterIncr, Verdict
<1>4. \A s \in Requests : Counted(s)' <=> (Counted(s) \/ s = r)
  BY <1>3 DEF Counted, TypeOK
\* The window w is new, or the open one in which all counts are below n.
<1>5. \A s \in Requests : Counted(s) /\ key[s] = k /\ gen[s] = w => count[s] < n
  BY <1>1, <1>n DEF CountInv, Ordered, WindowOpen, TypeOK
<1>6. Decided'
  BY <1>1, <1>n, <1>2, <1>3, <1>4, LimitAssumption
  DEF CountInv, Decided, AfterIncr, Verdict, Counted, TypeOK
<1>7. Ordered'
  <2>1. \A j \in Keys : counter'[j] > 0 => window'[j] >= 1
    BY <1>1, <1>n, <1>2 DEF CountInv, Ordered, TypeOK
  <2>2. ASSUME NEW s \in Requests, Counted(s)'
        PROVE  (gen[s] >= 1 /\ gen[s] <= window[key[s]] /\ (WindowOpen(s) => count[s] <= counter[key[s]]))'
    <3>1. CASE s = r
      BY <3>1, <1>1, <1>n, <1>2, <2>1 DEF WindowOpen, TypeOK
    <3>2. CASE s # r
      <4>1. Counted(s) /\ key[s] \in Keys
        BY <3>2, <2>2, <1>4 DEF TypeOK
      <4>2. CASE key[s] = k
        BY <3>2, <4>1, <4>2, <1>1, <1>n, <1>2, <1>5 DEF CountInv, Ordered, WindowOpen, TypeOK
      <4>3. CASE key[s] # k
        BY <3>2, <4>1, <4>3, <1>1, <1>n, <1>2 DEF CountInv, Ordered, WindowOpen, TypeOK
      <4> QED  BY <4>2, <4>3
    <3> QED  BY <3>1, <3>2
  <2> QED  BY <2>1, <2>2 DEF Ordered
<1>8. Distinct'
  <2> SUFFICES ASSUME NEW s \in Requests, NEW t \in Requests,
                      Counted(s)', Counted(t)', s # t,
                      key[s]' = key[t]', gen[s]' = gen[t]'
               PROVE  count[s]' # count[t]'
    BY DEF Distinct
  <2>1. CASE s # r /\ t # r
    BY <2>1, <1>2, <1>4 DEF CountInv, Distinct, TypeOK
  <2>2. CASE s = r
    BY <2>2, <1>1, <1>n, <1>2, <1>4, <1>5 DEF TypeOK
  <2>3. CASE t = r
    BY <2>3, <1>1, <1>n, <1>2, <1>4, <1>5 DEF TypeOK
  <2> QED  BY <2>1, <2>2, <2>3
<1>9. Gapless'
  <2>1. ASSUME NEW j \in Keys, NEW g \in Nat, NEW m \in Nat, Numbered(j, g, m)
        PROVE  Numbered(j, g, m)'
    <3>1. PICK s \in Requests : Counted(s) /\ key[s] = j /\ gen[s] = g /\ count[s] = m
      BY <2>1 DEF Numbered
    <3>2. s # r
      BY <3>1, <1>1, <1>n DEF Counted
    <3> QED  BY <3>1, <3>2, <1>2, <1>4 DEF Numbered, TypeOK
  <2>2. Numbered(k, w, n)'
    BY <1>1, <1>n, <1>2, <1>4 DEF Numbered, TypeOK
  <2>3. ASSUME NEW m \in 1..n PROVE Numbered(k, w, m)'
    <3>1. CASE m = n
      BY <3>1, <2>2
    <3>2. CASE m # n
      <4>1. m \in 1..counter[k] /\ w = window[k]
        BY <3>2, <1>1, <1>n DEF TypeOK
      <4>2. Numbered(k, w, m)
        BY <4>1, <1>1, <1>n DEF CountInv, Gapless
      <4> QED  BY <4>2, <2>1, <1>1, <1>n
    <3> QED  BY <3>1, <3>2
  <2>4. ASSUME NEW j \in Keys, NEW m \in (1..counter[j])' PROVE Numbered(j, window[j], m)'
    <3>1. CASE j = k
      BY <3>1, <2>3, <2>4, <1>1, <1>n, <1>2 DEF TypeOK, Numbered
    <3>2. CASE j # k
      <4>1. m \in 1..counter[j] /\ window'[j] = window[j] /\ window[j] \in Nat /\ m \in Nat
        BY <3>2, <2>4, <1>1, <1>n, <1>2 DEF TypeOK
      <4>2. Numbered(j, window[j], m)'
        BY <4>1, <2>1 DEF CountInv, Gapless
      <4> QED  BY <4>1, <4>2 DEF Numbered
    <3> QED  BY <3>1, <3>2
  <2>5. ASSUME NEW s \in Requests, Counted(s)', NEW m \in (1..count[s])'
        PROVE  Numbered(key[s], gen[s], m)'
    <3>1. CASE s = r
      BY <3>1, <2>3, <2>5, <1>1, <1>n, <1>2 DEF TypeOK, Numbered
    <3>2. CASE s # r
      <4>1. /\ Counted(s) /\ m \in 1..count[s] /\ m \in Nat
            /\ gen'[s] = gen[s] /\ gen[s] \in Nat /\ key[s] \in Keys /\ key'[s] = key[s]
        BY <3>2, <2>5, <1>2, <1>4 DEF TypeOK
      <4>2. Numbered(key[s], gen[s], m)
        BY <4>1 DEF CountInv, Gapless
      <4> QED  BY <4>1, <4>2, <2>1 DEF Numbered
    <3> QED  BY <3>1, <3>2
  <2> QED  BY <2>4, <2>5 DEF Gapless
<1> QED  BY <1>6, <1>7, <1>8, <1>9 DEF CountInv

LEMMA CountInvInductive == Spec => []CountInv
<1>1. Init => CountInv
  BY DEF Init, CountInv, Decided, Ordered, Distinct, Gapless, Counted, NoTtl
<1>2. TypeOK /\ CountInv /\ [Next]_vars => CountInv'
  <2> SUFFICES ASSUME TypeOK, CountInv, [Next]_vars PROVE CountInv'
    OBVIOUS
  <2>1. ASSUME NEW r \in Requests, Incr(r) PROVE CountInv'
    BY <2>1, IncrKeepsCountInv
  <2>2. ASSUME NEW r \in Requests, Expire(r) \/ ReadTtl(r) \/ Crash(r) PROVE CountInv'
    <3>1. Decided'
      BY <2>2, LimitAssumption
      DEF CountInv, Decided, Counted, Expire, ReadTtl, Crash, Verdict, TypeOK
    <3>2. /\ UNCHANGED <<key, count, gen, window, counter>>
          /\ \A s \in Requests : Counted(s)' <=> Counted(s)
      BY <2>2 DEF Counted, Expire, ReadTtl, Crash, Verdict, TypeOK
    <3> QED  BY <3>1, <3>2, NumberingKept DEF CountInv
  <2>3. CASE Tick \/ RedisRestart \/ UNCHANGED vars
    <3>1. UNCHANGED <<key, count, gen, window, pc>>
      BY <2>3 DEF Tick, RedisRestart, vars
    <3>2. \A k \in Keys : counter'[k] = counter[k] \/ counter'[k] = 0
      BY <2>3 DEF Tick, RedisRestart, vars
    <3>3. Decided' /\ \A s \in Requests : Counted(s)' <=> Counted(s)
      BY <3>1 DEF CountInv, Decided, Counted
    <3> QED  BY <3>1, <3>2, <3>3, NumberingKept DEF CountInv
  <2> QED
    BY <2>1, <2>2, <2>3 DEF Next
<1> QED
  BY <1>1, <1>2, TypeCorrect, PTL DEF Spec

-----------------------------------------------------------------------------
(* The theorems                                                            *)

\* Numbering the requests of a window by their counts is injective; a gapless
\* numbering up to m counts m of them.
LEMMA CountedByNumber ==
    ASSUME NEW S \in SUBSET Requests, NEW m \in Nat,
           TypeOK,
           \A s \in S : count[s] \in 1..m,
           \A s, t \in S : s # t => count[s] # count[t]
    PROVE  /\ Cardinality(S) <= m
           /\ (\A n \in 1..m : \E s \in S : count[s] = n) => Cardinality(S) = m
<1> DEFINE f == [s \in S |-> count[s]]
<1>1. f \in Injection(S, 1..m)
  BY DEF Injection, IsInjective
<1>2. IsFiniteSet(1..m) /\ Cardinality(1..m) = m
  BY FS_Interval
<1>3. Cardinality(S) <= m /\ (Cardinality(S) = m <=> f \in Surjection(S, 1..m))
  <2> HIDE DEF f
  <2> QED  BY <1>1, <1>2, FS_Injection
<1>4. ASSUME \A n \in 1..m : \E s \in S : count[s] = n PROVE f \in Surjection(S, 1..m)
  BY <1>1, <1>4 DEF Injection, Surjection
<1> QED  BY <1>3, <1>4

(* "10 requests per hour to that endpoint" (rate_limit.py:13): one window  *)
(* never admits more than MaxRequests requests of a user to a route,       *)
(* whatever the interleaving, the crashes and the restarts of Redis.       *)
THEOREM AdmissionBounded == Spec => []AdmittedPerWindow
<1>1. TypeOK /\ CountInv => AdmittedPerWindow
  <2> SUFFICES ASSUME TypeOK, CountInv, NEW r \in Requests
               PROVE  Cardinality(AdmittedIn(key[r], gen[r])) <= MaxRequests
    BY DEF AdmittedPerWindow
  <2> DEFINE S == AdmittedIn(key[r], gen[r])
  <2>1. S \in SUBSET Requests
    BY DEF AdmittedIn
  <2>2. \A s \in S : Counted(s) /\ count[s] \in 1..MaxRequests
    BY LimitAssumption DEF AdmittedIn, Counted, CountInv, Decided, TypeOK
  <2>3. \A s, t \in S : s # t => count[s] # count[t]
    BY <2>2 DEF AdmittedIn, CountInv, Distinct
  <2> HIDE DEF S
  <2> QED  BY <2>1, <2>2, <2>3, CountedByNumber, LimitAssumption DEF S
<1> QED
  BY <1>1, TypeCorrect, CountInvInductive, PTL

(* A 429 is never premature: when a request is refused, MaxRequests        *)
(* requests of the same user, route and window were counted before the     *)
(* limit, so users and routes do not use up each other's allowance.        *)
THEOREM RefusalJustified == Spec => []LimitExact
<1>1. TypeOK /\ CountInv => LimitExact
  <2> SUFFICES ASSUME TypeOK, CountInv, NEW r \in Requests, pc[r] = "rejected"
               PROVE  Cardinality(WithinLimit(key[r], gen[r]) \ {r}) = MaxRequests
    BY DEF LimitExact
  <2> DEFINE S == WithinLimit(key[r], gen[r])
  <2>1. S \in SUBSET Requests /\ \A s \in S : count[s] \in 1..MaxRequests
    BY DEF WithinLimit
  <2>2. \A s, t \in S : s # t => count[s] # count[t]
    BY DEF WithinLimit, CountInv, Distinct
  <2>3. ASSUME NEW n \in 1..MaxRequests PROVE \E s \in S : count[s] = n
    <3>1. Counted(r) /\ count[r] > MaxRequests /\ count[r] \in Nat
      BY DEF Counted, CountInv, Decided, TypeOK
    <3>2. n \in 1..count[r]
      BY <3>1, LimitAssumption
    <3>3. Numbered(key[r], gen[r], n)
      BY <3>1, <3>2 DEF CountInv, Gapless
    <3> QED  BY <3>3 DEF Numbered, WithinLimit
  <2>4. r \notin S
    BY LimitAssumption DEF WithinLimit, Counted, CountInv, Decided, TypeOK
  <2> HIDE DEF S
  <2>5. Cardinality(S) = MaxRequests
    BY <2>1, <2>2, <2>3, CountedByNumber, LimitAssumption
  <2>6. S \ {r} = S
    BY <2>4
  <2> QED  BY <2>5, <2>6 DEF S
<1> QED
  BY <1>1, TypeCorrect, CountInvInductive, PTL

LEMMA TimedInductive == Spec => []Timed
<1>1. Init => Timed
  BY DEF Init, Timed
<1>2. TypeOK /\ CountInv /\ Timed /\ [Next]_vars => Timed'
  <2> SUFFICES ASSUME TypeOK, CountInv, Timed, [Next]_vars, restarts' = 0
               PROVE  /\ \A k \in Keys : counter'[k] = 0 => age'[k] = Window
                      /\ \A k \in Keys : expiry'[k] # NoTtl => age'[k] + expiry'[k] >= Window
                      /\ \A r \in Requests :
                            pc'[r] = "expire" => WindowOpen(r)' /\ expiry'[key'[r]] = NoTtl
    BY DEF Timed
  <2>1. restarts = 0
    BY DEF Next, Incr, Expire, ReadTtl, Crash, Tick, RedisRestart, vars, TypeOK
  <2>2. /\ \A k \in Keys : counter[k] = 0 => age[k] = Window
        /\ \A k \in Keys : expiry[k] # NoTtl => age[k] + expiry[k] >= Window
        /\ \A r \in Requests : pc[r] = "expire" => WindowOpen(r) /\ expiry[key[r]] = NoTtl
    BY <2>1 DEF Timed
  <2>3. ASSUME NEW r \in Requests, Incr(r)
        PROVE  /\ \A k \in Keys : counter'[k] = 0 => age'[k] = Window
               /\ \A k \in Keys : expiry'[k] # NoTtl => age'[k] + expiry'[k] >= Window
               /\ \A s \in Requests :
                     pc'[s] = "expire" => WindowOpen(s)' /\ expiry'[key'[s]] = NoTtl
    <3>1. PICK k \in Keys : k = key[r]
      BY DEF TypeOK
    <3>2. /\ counter' = [counter EXCEPT ![k] = counter[k] + 1]
          /\ window' = [window EXCEPT ![k] = IF counter[k] = 0 THEN @ + 1 ELSE @]
          /\ age' = [age EXCEPT ![k] = IF counter[k] = 0 THEN 0 ELSE @]
          /\ gen' = [gen EXCEPT ![r] = window'[k]]
          /\ pc' = [pc EXCEPT ![r] = AfterIncr(counter[k] + 1)]
          /\ expiry' = expiry /\ key' = key
      <4>1. counter[k] \in Nat /\ (counter[k] + 1 = 1 <=> counter[k] = 0)
        BY DEF TypeOK
      <4> QED  BY <2>3, <3>1, <4>1 DEF Incr
    <3>3. \A j \in Keys : counter'[j] = 0 => age'[j] = Window
      BY <2>2, <3>2 DEF TypeOK
    <3>4. \A j \in Keys : expiry'[j] # NoTtl => age'[j] + expiry'[j] >= Window
      BY <2>2, <3>2, WindowNat DEF TypeOK, NoTtl
    <3>5. ASSUME NEW s \in Requests, pc'[s] = "expire"
          PROVE  WindowOpen(s)' /\ expiry'[key'[s]] = NoTtl
      <4>1. CASE s = r
        <5>1. counter[k] = 0
          BY <3>2, <3>5, <4>1 DEF AfterIncr, Verdict, TypeOK
        <5> QED  BY <3>1, <3>2, <4>1, <5>1 DEF TypeOK, WindowOpen
      <4>2. CASE s # r
        <5>1. pc[s] = "expire" /\ key[s] \in Keys
          BY <3>2, <3>5, <4>2 DEF TypeOK
        <5> QED  BY <2>2, <3>2, <4>2, <5>1 DEF TypeOK, WindowOpen
      <4> QED  BY <4>1, <4>2
    <3> QED  BY <3>3, <3>4, <3>5
  <2>4. ASSUME NEW r \in Requests, Expire(r)
        PROVE  /\ \A k \in Keys : counter'[k] = 0 => age'[k] = Window
               /\ \A k \in Keys : expiry'[k] # NoTtl => age'[k] + expiry'[k] >= Window
               /\ \A s \in Requests :
                     pc'[s] = "expire" => WindowOpen(s)' /\ expiry'[key'[s]] = NoTtl
    <3>1. \A k \in Keys : counter'[k] = 0 => age'[k] = Window
      BY <2>2, <2>4 DEF Expire
    <3>2. \A k \in Keys : expiry'[k] # NoTtl => age'[k] + expiry'[k] >= Window
      BY <2>2, <2>4, WindowNat DEF Expire, TypeOK, NoTtl
    <3>3. ASSUME NEW s \in Requests, pc'[s] = "expire"
          PROVE  WindowOpen(s)' /\ expiry'[key'[s]] = NoTtl
      <4>1. s # r /\ pc[s] = "expire" /\ pc[r] = "expire"
        BY <2>4, <3>3 DEF Expire, Verdict, TypeOK
      \* Two pending EXPIREs on one key would be two requests counted 1 in its window.
      <4>2. key[s] # key[r]
        BY <2>2, <4>1 DEF CountInv, Distinct, Decided, WindowOpen, Counted
      <4> QED  BY <2>2, <2>4, <4>1, <4>2 DEF Expire, TypeOK, WindowOpen
    <3> QED  BY <3>1, <3>2, <3>3
  <2>5. ASSUME NEW r \in Requests, ReadTtl(r) \/ Crash(r)
        PROVE  /\ \A k \in Keys : counter'[k] = 0 => age'[k] = Window
               /\ \A k \in Keys : expiry'[k] # NoTtl => age'[k] + expiry'[k] >= Window
               /\ \A s \in Requests :
                     pc'[s] = "expire" => WindowOpen(s)' /\ expiry'[key'[s]] = NoTtl
    <3>1. /\ UNCHANGED <<counter, expiry, key, gen, window, age>>
          /\ \A s \in Requests : pc'[s] = "expire" => pc[s] = "expire"
      BY <2>5 DEF ReadTtl, Crash, TypeOK
    <3> QED  BY <2>2, <3>1 DEF WindowOpen
  <2>6. CASE Tick
    <3>1. ASSUME NEW k \in Keys, counter'[k] = 0 PROVE age'[k] = Window
      <4>1. age[k] \in 0..Window /\ expiry[k] \in {NoTtl} \cup 1..Window
        BY DEF TypeOK
      <4>2. counter[k] = 0 \/ expiry[k] = 1
        BY <2>6, <3>1 DEF Tick
      <4>3. age[k] = Window \/ age[k] + 1 = Window
        BY <2>2, <4>1, <4>2, WindowNat DEF NoTtl
      <4>4. age'[k] = IF age[k] < Window THEN age[k] + 1 ELSE age[k]
        BY <2>6 DEF Tick
      <4> QED  BY <4>1, <4>3, <4>4, WindowNat
    <3>2. \A k \in Keys : expiry'[k] # NoTtl => age'[k] + expiry'[k] >= Window
      BY <2>2, <2>6, WindowNat DEF Tick, TypeOK, NoTtl
    <3>3. \A s \in Requests : pc'[s] = "expire" => WindowOpen(s)' /\ expiry'[key'[s]] = NoTtl
      BY <2>2, <2>6 DEF Tick, TypeOK, NoTtl, WindowOpen
    <3> QED  BY <3>1, <3>2, <3>3
  <2>7. CASE RedisRestart
    BY <2>7 DEF RedisRestart, TypeOK
  <2>8. CASE UNCHANGED vars
    BY <2>2, <2>8 DEF vars, WindowOpen
  <2> QED
    BY <2>3, <2>4, <2>5, <2>6, <2>7, <2>8 DEF Next
<1> QED
  BY <1>1, <1>2, TypeCorrect, CountInvInductive, PTL DEF Spec

(* "set TTL only on first hit of the window" (rate_limit.py:17): unless    *)
(* Redis lost data, no request postpones the reset of a window.            *)
THEOREM DeadlineNeverMoves == Spec => DeadlineStable
<1>1. TypeOK /\ Timed /\ [Next]_vars =>
        \A k \in Keys :
          restarts = 0 /\ expiry[k] # NoTtl
            => /\ expiry'[k] <= expiry[k]
               /\ expiry'[k] = NoTtl => counter'[k] = 0
  <2> SUFFICES ASSUME TypeOK, Timed, [Next]_vars,
                      NEW k \in Keys, restarts = 0, expiry[k] # NoTtl
               PROVE  /\ expiry'[k] <= expiry[k]
                      /\ expiry'[k] = NoTtl => counter'[k] = 0
    OBVIOUS
  <2>0. expiry[k] \in 1..Window
    BY DEF TypeOK
  <2>1. ASSUME NEW r \in Requests, Incr(r) \/ ReadTtl(r) \/ Crash(r)
        PROVE  expiry'[k] = expiry[k]
    BY <2>1 DEF Incr, ReadTtl, Crash
  <2>2. ASSUME NEW r \in Requests, Expire(r) PROVE expiry'[k] = expiry[k]
    BY <2>2 DEF Expire, Timed, TypeOK
  <2>3. CASE Tick
    BY <2>0, <2>3, WindowNat DEF Tick, TypeOK, NoTtl
  <2>4. CASE RedisRestart
    BY <2>0, <2>4, WindowNat DEF RedisRestart, NoTtl
  <2>5. CASE UNCHANGED vars
    BY <2>5, <2>0, WindowNat DEF vars
  <2> QED
    BY <2>0, <2>1, <2>2, <2>3, <2>4, <2>5, WindowNat DEF Next
<1> QED
  BY <1>1, TypeCorrect, TimedInductive, PTL DEF Spec, DeadlineStable

(* Unless Redis lost data, a fresh allowance comes at least window_seconds *)
(* after the last one began (rate_limit.py:19, "resets when the key        *)
(* expires").                                                              *)
THEOREM AllowancesSpaced == Spec => WindowsSpaced
<1>1. TypeOK /\ Timed /\ [Next]_vars =>
        \A k \in Keys : restarts = 0 /\ window'[k] # window[k] => age[k] = Window
  BY DEF Timed, TypeOK, Next, Incr, Expire, ReadTtl, Crash, Tick, RedisRestart, vars
<1> QED
  BY <1>1, TypeCorrect, TimedInductive, PTL DEF Spec, WindowsSpaced

LEMMA AwaitedInductive == Spec => []Awaited
<1>1. Init => Awaited
  BY DEF Init, Awaited
<1>2. TypeOK /\ TypeOK' /\ CountInv /\ Timed /\ Awaited /\ [Next]_vars => Awaited'
  <2> SUFFICES ASSUME TypeOK, TypeOK', CountInv, Timed, Awaited, [Next]_vars, restarts' = 0,
                      NEW s \in Requests, pc'[s] = "rejected", ttl'[s] # NoTtl, WindowOpen(s)'
               PROVE  /\ expiry'[key'[s]] # NoTtl
                      /\ 2 * expiry'[key'[s]] <= TicksPerSecond + 2 * wait'[s]
    BY DEF Awaited
  <2>1. restarts = 0 /\ key' = key /\ key[s] \in Keys
    BY DEF Next, Incr, Expire, ReadTtl, Crash, Tick, RedisRestart, vars, TypeOK
  <2>2. pc[s] = "rejected" /\ ttl[s] # NoTtl /\ WindowOpen(s) =>
          expiry[key[s]] # NoTtl /\ 2 * expiry[key[s]] <= TicksPerSecond + 2 * wait[s]
    BY <2>1 DEF Awaited
  <2>3. ASSUME NEW r \in Requests, Incr(r)
        PROVE  /\ expiry'[key'[s]] # NoTtl
               /\ 2 * expiry'[key'[s]] <= TicksPerSecond + 2 * wait'[s]
    <3>1. s # r /\ pc[s] = "rejected" /\ ttl[s] # NoTtl /\ expiry' = expiry /\ wait' = wait
      BY <2>3 DEF Incr, AfterIncr, Verdict, TypeOK
    <3>2. gen'[s] = gen[s] /\ gen[s] <= window[key[s]]
      BY <2>3, <3>1 DEF Incr, TypeOK, CountInv, Ordered, Counted
    \* Had Incr opened a new window on s's key, s's window would not be the open one.
    <3>3. WindowOpen(s)
      <4>1. CASE key[r] = key[s]
        <5>1. counter[key[s]] # 0
          BY <2>1, <2>3, <3>2, <4>1 DEF Incr, TypeOK, WindowOpen
        <5> QED  BY <2>1, <2>3, <3>2, <4>1, <5>1 DEF Incr, TypeOK, WindowOpen
      <4>2. CASE key[r] # key[s]
        BY <2>1, <2>3, <3>2, <4>2 DEF Incr, TypeOK, WindowOpen
      <4> QED  BY <4>1, <4>2
    <3> QED  BY <2>1, <2>2, <3>1, <3>3
  <2>4. ASSUME NEW r \in Requests, Expire(r)
        PROVE  /\ expiry'[key'[s]] # NoTtl
               /\ 2 * expiry'[key'[s]] <= TicksPerSecond + 2 * wait'[s]
    <3>1. pc[s] = "rejected" /\ ttl[s] # NoTtl /\ WindowOpen(s) /\ wait' = wait
      BY <2>4 DEF Expire, Verdict, TypeOK, WindowOpen
    <3>2. expiry[key[s]] # NoTtl
      BY <2>2, <3>1
    <3>3. key[r] # key[s]
      BY <2>1, <2>4, <3>2 DEF Expire, Timed
    <3> QED  BY <2>1, <2>2, <2>4, <3>1, <3>3 DEF Expire, TypeOK
  <2>5. ASSUME NEW r \in Requests, ReadTtl(r)
        PROVE  /\ expiry'[key'[s]] # NoTtl
               /\ 2 * expiry'[key'[s]] <= TicksPerSecond + 2 * wait'[s]
    <3>1. UNCHANGED <<counter, expiry, gen, window>> /\ WindowOpen(s)
      BY <2>1, <2>5 DEF ReadTtl, WindowOpen
    <3>2. CASE s # r
      BY <2>1, <2>2, <2>5, <3>1, <3>2 DEF ReadTtl, TypeOK
    <3>3. CASE s = r
      <4>1. ttl'[s] = TtlReply(key[s]) /\ wait'[s] = RetryAfter(TtlReply(key[s])) * TicksPerSecond
        BY <2>5, <3>3 DEF ReadTtl, TypeOK
      <4>2. counter[key[s]] # 0 /\ expiry[key[s]] # NoTtl
        BY <2>1, <3>1, <4>1 DEF WindowOpen, TtlReply
      <4> DEFINE n == (expiry[key[s]] + TicksPerSecond \div 2) \div TicksPerSecond
      <4>3. TtlReply(key[s]) = n /\ expiry[key[s]] \in Nat
        BY <2>1, <4>2, WindowNat DEF TtlReply, TypeOK
      <4>4. n \in Nat /\ 2 * expiry[key[s]] <= TicksPerSecond + 2 * (n * TicksPerSecond)
        BY <4>3, RoundedNat, RoundedDown, TimeAssumption
      <4> HIDE DEF n
      <4>5. RetryAfter(n) \in Nat /\ n <= RetryAfter(n)
        BY <4>4 DEF RetryAfter
      <4>6. n * TicksPerSecond <= RetryAfter(n) * TicksPerSecond
        BY <4>4, <4>5, ScaleMonotone, TimeAssumption
      <4>7. n * TicksPerSecond \in Nat /\ RetryAfter(n) * TicksPerSecond \in Nat
        BY <4>4, <4>5, TimeAssumption
      <4> DEFINE a == n * TicksPerSecond
                 b == RetryAfter(n) * TicksPerSecond
      <4>8. a \in Nat /\ b \in Nat /\ a <= b /\ wait'[s] = b
            /\ 2 * expiry[key[s]] <= TicksPerSecond + 2 * a
        BY <4>1, <4>3, <4>4, <4>6, <4>7
      <4> HIDE DEF a, b
      <4>9. 2 * expiry[key[s]] <= TicksPerSecond + 2 * wait'[s]
        BY <4>3, <4>8, TimeAssumption
      <4> QED  BY <2>1, <3>1, <4>2, <4>9
    <3> QED  BY <3>2, <3>3
  <2>6. ASSUME NEW r \in Requests, Crash(r)
        PROVE  /\ expiry'[key'[s]] # NoTtl
               /\ 2 * expiry'[key'[s]] <= TicksPerSecond + 2 * wait'[s]
    BY <2>1, <2>2, <2>6 DEF Crash, TypeOK, WindowOpen
  <2>7. CASE Tick
    <3>1. WindowOpen(s) /\ pc[s] = "rejected" /\ ttl[s] # NoTtl /\ expiry[key[s]] # 1
      BY <2>1, <2>7 DEF Tick, WindowOpen
    <3>2. expiry[key[s]] # NoTtl /\ 2 * expiry[key[s]] <= TicksPerSecond + 2 * wait[s]
      BY <2>2, <3>1
    <3>3. expiry[key[s]] \in Nat /\ expiry[key[s]] > 1 /\ wait[s] \in Nat
      BY <2>1, <3>1, <3>2, WindowNat DEF TypeOK
    <3>4. expiry'[key[s]] = expiry[key[s]] - 1 /\ wait'[s] = IF wait[s] > 0 THEN wait[s] - 1 ELSE 0
      BY <2>1, <2>7, <3>3 DEF Tick, Decrement
    <3> QED  BY <2>1, <3>2, <3>3, <3>4, TimeAssumption DEF NoTtl
  <2>8. CASE RedisRestart
    BY <2>1, <2>8 DEF RedisRestart, TypeOK
  <2>9. CASE UNCHANGED vars
    BY <2>2, <2>9 DEF vars, WindowOpen
  <2> QED
    BY <2>3, <2>4, <2>5, <2>6, <2>7, <2>8, <2>9 DEF Next
<1> QED
  BY <1>1, <1>2, TypeCorrect, CountInvInductive, TimedInductive, PTL DEF Spec

(* Unless Redis lost data, a refused client that saw an expiry on its key  *)
(* and waits for its Retry-After (rate_limit.py:50-57) finds the window    *)
(* over, to the half second that TTL's rounding may take away.             *)
THEOREM RetryAfterCovers == Spec => []RetryAfterHonest
<1>1. TypeOK /\ Awaited => RetryAfterHonest
  BY TimeAssumption DEF Awaited, RetryAfterHonest, TypeOK
<1> QED
  BY <1>1, TypeCorrect, AwaitedInductive, PTL

-----------------------------------------------------------------------------
(* A key without an expiry has its first request to blame: it is about to  *)
(* send its EXPIRE (rate_limit.py:48), or it died before it could.         *)
THEOREM UnexpiringExplained == Spec => []ResetPending
<1>1. Init => ResetPending
  BY DEF Init, ResetPending
<1>2. TypeOK /\ CountInv /\ ResetPending /\ [Next]_vars => ResetPending'
  <2> SUFFICES ASSUME TypeOK, CountInv, ResetPending, [Next]_vars,
                      NEW k \in Keys, counter'[k] > 0, expiry'[k] = NoTtl
               PROVE  \E s \in Requests : Opens(s, k)' /\ pc'[s] \in {"expire", "failed"}
    BY DEF ResetPending
  \* A request that opened k's window keeps doing so while it and k keep still.
  <2>1. ASSUME counter[k] > 0, expiry[k] = NoTtl, window'[k] = window[k],
               \A s \in Requests : pc[s] \in {"expire", "failed"} /\ key[s] = k =>
                   /\ key'[s] = key[s] /\ gen'[s] = gen[s] /\ count'[s] = count[s]
                   /\ pc'[s] \in {"expire", "failed"}
        PROVE  \E s \in Requests : Opens(s, k)' /\ pc'[s] \in {"expire", "failed"}
    BY <2>1 DEF ResetPending, Opens
  <2>2. ASSUME NEW r \in Requests, Incr(r)
        PROVE  \E s \in Requests : Opens(s, k)' /\ pc'[s] \in {"expire", "failed"}
    <3>1. CASE key[r] = k /\ counter[k] = 0
      <4>1. Opens(r, k)' /\ pc'[r] = "expire"
        BY <2>2, <3>1 DEF Incr, AfterIncr, Opens, TypeOK
      <4> QED  BY <4>1
    <3>2. CASE ~ (key[r] = k /\ counter[k] = 0)
      <4>1. counter[k] > 0 /\ expiry[k] = NoTtl /\ window'[k] = window[k]
        BY <2>2, <3>2 DEF Incr, TypeOK
      <4>2. \A s \in Requests : pc[s] \in {"expire", "failed"} =>
                /\ key'[s] = key[s] /\ gen'[s] = gen[s] /\ count'[s] = count[s]
                /\ pc'[s] = pc[s]
        BY <2>2 DEF Incr, TypeOK
      <4> QED  BY <2>1, <4>1, <4>2
    <3> QED  BY <3>1, <3>2
  <2>3. ASSUME NEW r \in Requests, Expire(r)
        PROVE  \E s \in Requests : Opens(s, k)' /\ pc'[s] \in {"expire", "failed"}
    <3>1. counter[k] > 0 /\ key[r] # k /\ expiry[k] = NoTtl
      BY <2>3, WindowNat DEF Expire, TypeOK, NoTtl
    <3> QED  BY <2>1, <2>3, <3>1 DEF Expire, TypeOK
  <2>4. ASSUME NEW r \in Requests, ReadTtl(r) \/ Crash(r)
        PROVE  \E s \in Requests : Opens(s, k)' /\ pc'[s] \in {"expire", "failed"}
    BY <2>1, <2>4 DEF ReadTtl, Crash, TypeOK
  <2>5. CASE Tick
    <3>1. counter[k] > 0 /\ expiry[k] = NoTtl
      BY <2>5, WindowNat DEF Tick, TypeOK, NoTtl
    <3> QED  BY <2>1, <2>5, <3>1 DEF Tick
  <2>6. CASE RedisRestart
    BY <2>6 DEF RedisRestart
  <2>7. CASE UNCHANGED vars
    BY <2>1, <2>7 DEF vars
  <2> QED
    BY <2>2, <2>3, <2>4, <2>5, <2>6, <2>7 DEF Next
<1> QED
  BY <1>1, <1>2, TypeCorrect, CountInvInductive, PTL DEF Spec

-----------------------------------------------------------------------------
(* The refinement                                                          *)

\* With restarts too, an expiry never ends a window that is younger than Window.
Aged == \A k \in Keys : expiry[k] # NoTtl => age[k] + expiry[k] >= Window

LEMMA AgedInductive == Spec => []Aged
<1>1. Init => Aged
  BY DEF Init, Aged
<1>2. TypeOK /\ Aged /\ [Next]_vars => Aged'
  <2> SUFFICES ASSUME TypeOK, Aged, [Next]_vars, NEW k \in Keys, expiry'[k] # NoTtl
               PROVE  age'[k] + expiry'[k] >= Window
    BY DEF Aged
  <2>1. ASSUME NEW r \in Requests, Incr(r) PROVE age'[k] + expiry'[k] >= Window
    BY <2>1, WindowNat DEF Incr, Aged, TypeOK, NoTtl
  <2>2. ASSUME NEW r \in Requests, Expire(r) PROVE age'[k] + expiry'[k] >= Window
    BY <2>2, WindowNat DEF Expire, Aged, TypeOK, NoTtl
  <2>3. CASE Tick
    BY <2>3, WindowNat DEF Tick, Aged, TypeOK, NoTtl
  <2>4. CASE RedisRestart
    BY <2>4 DEF RedisRestart
  <2>5. CASE UNCHANGED <<expiry, age>>
    BY <2>5 DEF Aged
  <2> QED
    BY <2>1, <2>2, <2>3, <2>4, <2>5 DEF Next, ReadTtl, Crash, vars
<1> QED
  BY <1>1, <1>2, TypeCorrect, PTL DEF Spec

(* Whatever comes between INCR, EXPIRE and TTL, `_check` does what one     *)
(* atomic step would: initial states are initial states of FixedWindow,    *)
(* and every step is a step of it or a stutter.                            *)
THEOREM LimiterImplementsWindow == Spec => ImplementsFixedWindow
<1>1. Init => Limit!Init
  BY DEF Init, Limit!Init, Decision, Counted
<1>2. TypeOK /\ TypeOK' /\ CountInv /\ CountInv' /\ Aged /\ [Next]_vars => [Limit!Next]_(Limit!vars)
  <2> SUFFICES ASSUME TypeOK, TypeOK', CountInv, CountInv', Aged, [Next]_vars
               PROVE  Limit!Next \/ UNCHANGED Limit!vars
    OBVIOUS
  <2> DEFINE verdict == [r \in Requests |-> Decision(r)]
             answer == [r \in Requests |->
                  IF pc[r] \in {"admitted", "rejected", "failed"} THEN pc[r] ELSE NoAnswer]
  <2>1. ASSUME NEW r \in Requests, Incr(r) PROVE Limit!Decide(r)
    <3>1. key[r] \in Keys /\ counter[key[r]] \in Nat /\ key' = key /\ pc[r] = "start"
      BY <2>1 DEF Incr, TypeOK
    <3>2. count' = [count EXCEPT ![r] = counter[key[r]] + 1]
          /\ pc' = [pc EXCEPT ![r] = AfterIncr(counter[key[r]] + 1)]
          /\ pc'[r] \in {"expire", "ttl", "admitted"}
      BY <2>1 DEF Incr, AfterIncr, Verdict, TypeOK
    <3>3. counter' = [counter EXCEPT ![key[r]] = @ + 1] /\ restarts' = restarts
          /\ age' = [age EXCEPT ![key[r]] = IF counter[key[r]] = 0 THEN 0 ELSE @]
      <4>1. counter[key[r]] + 1 = 1 <=> counter[key[r]] = 0
        BY <3>1
      <4> QED  BY <2>1, <4>1 DEF Incr
    <3>4. verdict' = [verdict EXCEPT ![r] =
                         IF counter[key[r]] < MaxRequests THEN "admitted" ELSE "rejected"]
      <4>1. Decision(r)' = IF counter[key[r]] < MaxRequests THEN "admitted" ELSE "rejected"
        BY <3>1, <3>2, LimitAssumption DEF Decision, Counted, TypeOK
      <4>2. \A s \in Requests : s # r => Decision(s)' = Decision(s)
        BY <3>2 DEF Decision, Counted, TypeOK
      <4> QED  BY <4>1, <4>2
    <3>5. verdict[r] = NoAnswer
      BY <3>1 DEF Decision, Counted
    <3>6. UNCHANGED answer \/ answer' = [answer EXCEPT ![r] = verdict'[r]]
      <4>1. CASE pc'[r] = "admitted"
        <5>1. verdict'[r] = "admitted"
          BY <3>2, <4>1, LimitAssumption DEF Decision, Counted, CountInv, Decided
        <5>2. answer' = [answer EXCEPT ![r] = "admitted"]
          BY <3>2, <4>1 DEF TypeOK
        <5> QED  BY <5>1, <5>2
      <4>2. CASE pc'[r] # "admitted"
        BY <3>1, <3>2, <4>2 DEF TypeOK, NoAnswer
      <4> QED  BY <4>1, <4>2
    <3> HIDE DEF verdict, answer
    <3> QED
      BY <3>1, <3>3, <3>4, <3>5, <3>6 DEF Limit!Decide, verdict, answer
  <2>2. ASSUME NEW r \in Requests, Expire(r) \/ ReadTtl(r) \/ Crash(r)
        PROVE  Limit!Answer(r) \/ UNCHANGED Limit!vars
    <3>1. /\ UNCHANGED <<key, counter, age, count, restarts>>
          /\ pc[r] \in {"expire", "ttl"}
          /\ pc' = [pc EXCEPT ![r] = pc'[r]] /\ pc'[r] # "start"
      BY <2>2 DEF Expire, ReadTtl, Crash, Verdict, TypeOK
    <3>2. UNCHANGED verdict
      BY <3>1 DEF Decision, Counted, TypeOK
    <3>3. verdict[r] # NoAnswer /\ answer[r] = NoAnswer
      BY <3>1 DEF Decision, Counted, NoAnswer
    <3>4. pc'[r] \in {"ttl", "failed"} \/ pc'[r] = verdict[r]
      BY <2>2, <3>1, LimitAssumption
      DEF Expire, ReadTtl, Crash, Verdict, CountInv, Decided, Decision, Counted, TypeOK
    <3>5. \/ UNCHANGED answer
          \/ answer' = [answer EXCEPT ![r] = verdict[r]]
          \/ answer' = [answer EXCEPT ![r] = "failed"]
      <4>1. CASE pc'[r] = "ttl"
        BY <3>1, <4>1 DEF TypeOK, NoAnswer
      <4>2. CASE pc'[r] = "failed"
        BY <3>1, <4>2 DEF TypeOK
      <4>3. CASE pc'[r] = verdict[r] /\ pc'[r] # "ttl"
        <5>1. pc'[r] \in {"admitted", "rejected"}
          BY <3>1, <4>3 DEF Decision, Counted
        <5>2. answer' = [answer EXCEPT ![r] = pc'[r]]
          BY <3>1, <5>1 DEF TypeOK
        <5> QED  BY <4>3, <5>2
      <4> QED  BY <3>4, <4>1, <4>2, <4>3
    <3> HIDE DEF verdict, answer
    <3> QED
      BY <3>1, <3>2, <3>3, <3>5 DEF Limit!Answer, Limit!vars, verdict, answer
  <2>3. CASE Tick
    <3> DEFINE closed == {k \in Keys : expiry[k] = 1}
    <3>1. ASSUME NEW k \in closed PROVE age'[k] = Window
      <4>1. age[k] \in 0..Window /\ age[k] + 1 >= Window
        BY WindowNat DEF Aged, TypeOK, NoTtl
      <4>2. age'[k] = IF age[k] < Window THEN age[k] + 1 ELSE age[k]
        BY <2>3 DEF Tick
      <4> QED  BY <4>1, <4>2, WindowNat
    <3>2. closed \in SUBSET {k \in Keys : age'[k] = Window}
      BY <3>1
    <3>3. counter' = [k \in Keys |-> IF k \in closed THEN 0 ELSE counter[k]]
      BY <2>3 DEF Tick
    <3>4. UNCHANGED <<key, restarts, pc, count>>
      BY <2>3 DEF Tick
    <3>5. UNCHANGED verdict /\ UNCHANGED answer
      BY <3>4 DEF Decision, Counted
    <3>6. age' = [k \in Keys |-> IF age[k] < Window THEN age[k] + 1 ELSE age[k]]
      BY <2>3 DEF Tick
    <3> HIDE DEF closed, verdict, answer
    <3> QED
      BY <3>2, <3>3, <3>4, <3>5, <3>6 DEF Limit!Next, Limit!Tick, verdict, answer
  <2>4. CASE RedisRestart
    <3>1. UNCHANGED <<key, age, pc, count>>
      BY <2>4 DEF RedisRestart
    <3>2. UNCHANGED verdict /\ UNCHANGED answer
      BY <3>1 DEF Decision, Counted
    <3> HIDE DEF verdict, answer
    <3> QED
      BY <2>4, <3>1, <3>2 DEF RedisRestart, Limit!Next, Limit!Lose, verdict, answer
  <2>5. CASE UNCHANGED vars
    BY <2>5 DEF vars, Limit!vars, Decision, Counted
  <2> QED
    BY <2>1, <2>2, <2>3, <2>4, <2>5 DEF Next, Limit!Next
<1> QED
  BY <1>1, <1>2, TypeCorrect, CountInvInductive, AgedInductive, PTL
  DEF Spec, ImplementsFixedWindow, Limit!Spec

=============================================================================
