--------------------------- MODULE AiRequestsProofs ---------------------------
(***************************************************************************)
(* Proofs about AiRequests, for any requests, users, size of the pool and  *)
(* limit.  The argument: where a request is tells whether it has a         *)
(* connection (Held), what is recorded of it and what the AI said          *)
(* (Journey); and the requests granted in one window of the limiter are no *)
(* more than it charged in that window, nor more than the limit (Granted). *)
(***************************************************************************)
EXTENDS AiRequests, FiniteSetTheorems, TLAPS

Before == {"new", "start", "limit", "handle", "ask"}

\* Where a request may be that has a connection.
Holding == {"limit", "handle", "ask", "call", "store", "respond"}

\* What is known of a request where it is.
Journey(r) ==
    /\ pc[r] = "start" => route[r] \in Routes \cup {"health"}
    /\ pc[r] \in {"limit", "handle", "ask", "call"} => route[r] \in Routes
    /\ pc[r] \in {"store", "refresh"} => route[r] \in Routes \ {"cover-letter"}
    /\ pc[r] \in Before \cup {"422", "429"} => r \notin asked
    /\ pc[r] = "call" => r \in asked
    /\ pc[r] \in Before \cup {"call", "422", "429"} => reply[r] = None
    /\ pc[r] \in Before \cup {"call", "store", "422", "429"} => r \notin stored
    /\ reply[r] # None => r \in asked
    /\ reply[r] = "unpresentable" => route[r] = "resume-match"
    /\ reply[r] = "malformed" => route[r] \in {"resume-match", "questions"}
    /\ pc[r] = "refresh" => route[r] = "questions" /\ r \in stored
                            /\ reply[r] # "malformed"
    /\ pc[r] = "respond" => reply[r] # "malformed"
                            /\ (route[r] \in {"resume-match", "questions"} => r \in stored)

Journeys == \A r \in Requests : Journey(r)

TypeInv == TypeOK /\ Journeys

LEMMA Constants ==
    /\ Pool \in Nat \ {0} /\ MaxRequests \in Nat /\ MaxWindows \in Nat \ {0}
    /\ MaxRestarts \in Nat /\ IsFiniteSet(Requests)
    /\ None \notin ReplyKinds /\ None \notin Routes /\ None # "health"
  BY SizesAssumption, BoundsAssumption, RequestsAssumption, NoneAssumption

LEMMA Kinds == \A w : KindsFor(w) \subseteq ReplyKinds
  BY DEF KindsFor, ReplyKinds

-----------------------------------------------------------------------------
(* Connections                                                             *)

\* Those that are not free are held, by requests that may hold one.
PoolInv ==
    /\ free \in Nat
    /\ connected \subseteq Requests
    /\ free + Cardinality(connected) = Pool
    /\ \A r \in connected : pc[r] \in Holding

LEMMA ConnectedFinite ==
    ASSUME PoolInv
    PROVE  IsFiniteSet(connected) /\ Cardinality(connected) \in Nat /\ free \in 0..Pool
<1>1. IsFiniteSet(connected)
  BY Constants, FS_Subset DEF PoolInv
<1>2. Cardinality(connected) \in Nat
  BY <1>1, FS_CardinalityType
<1> QED  BY <1>1, <1>2, Constants DEF PoolInv

\* A request without a connection that takes one is counted once.
LEMMA AcquireCounts ==
    ASSUME PoolInv, NEW r \in Requests, r \notin connected, Acquire(r)
    PROVE  free' \in Nat /\ connected' \subseteq Requests /\ free' + Cardinality(connected') = Pool
<1>1. Cardinality(connected \cup {r}) = Cardinality(connected) + 1
  BY ConnectedFinite, FS_AddElement
<1> QED  BY <1>1, ConnectedFinite, Constants DEF Acquire, PoolInv

\* A connection given back is free, and one that was not held stays so.
LEMMA ReleaseCounts ==
    ASSUME PoolInv, NEW r \in Requests, Release(r)
    PROVE  /\ free' \in Nat /\ connected' \subseteq Requests
           /\ free' + Cardinality(connected') = Pool
           /\ r \notin connected'
<1>1. Cardinality(connected \ {r}) =
        IF r \in connected THEN Cardinality(connected) - 1 ELSE Cardinality(connected)
  BY ConnectedFinite, FS_RemoveElement
<1> QED  BY <1>1, ConnectedFinite, Constants DEF Release, PoolInv

LEMMA InitPool == Init => PoolInv
  BY Constants, FS_EmptySet DEF Init, PoolInv

LEMMA StepPool == TypeOK /\ PoolInv /\ [Next]_vars => PoolInv'
<1> SUFFICES ASSUME TypeOK, PoolInv, [Next]_vars PROVE PoolInv'
  OBVIOUS
<1>1. ASSUME NEW r \in Requests, Start(r) \/ Refresh(r) PROVE PoolInv'
  <2>1. r \notin connected
    BY <1>1 DEF Start, Refresh, PoolInv, Holding
  <2>2. Acquire(r)
    BY <1>1 DEF Start, Refresh
  <2>3. \/ pc' = [pc EXCEPT ![r] = "respond"]
        \/ pc' = [pc EXCEPT ![r] = "limit"]
    BY <1>1 DEF Start, Refresh, Goto
  <2>4. \A q \in connected' : pc'[q] \in Holding
    BY <2>2, <2>3 DEF Acquire, PoolInv, TypeOK, Holding
  <2> QED  BY <2>1, <2>2, <2>4, AcquireCounts DEF PoolInv
<1>2. ASSUME NEW r \in Requests, Release(r), NEW l, pc' = [pc EXCEPT ![r] = l] PROVE PoolInv'
  <2>1. \A q \in connected' : q # r /\ pc'[q] = pc[q] /\ q \in connected
    BY <1>2, ReleaseCounts DEF Release, TypeOK, PoolInv
  <2> QED  BY <1>2, <2>1, ReleaseCounts DEF PoolInv
<1>3. ASSUME NEW r \in Requests, UNCHANGED <<free, connected>>,
             NEW l, pc' = [pc EXCEPT ![r] = l], r \in connected => l \in Holding
      PROVE  PoolInv'
  BY <1>3 DEF PoolInv, TypeOK
<1>4. ASSUME NEW r \in Requests, Arrive(r) \/ PoolTimeout(r) PROVE PoolInv'
  <2>1. r \notin connected /\ UNCHANGED <<free, connected>>
    BY <1>4 DEF Arrive, PoolTimeout, PoolInv, Holding, shared
  <2> QED  BY <1>3, <1>4, <2>1 DEF Arrive, PoolTimeout, Goto
<1>5. ASSUME NEW r \in Requests, Limit(r) PROVE PoolInv'
  BY <1>2, <1>3, <1>5 DEF Limit, Fail, Goto, Holding
<1>6. ASSUME NEW r \in Requests, Handle(r) PROVE PoolInv'
  BY <1>2, <1>3, <1>6 DEF Handle, Fail, Goto, Holding
<1>7. ASSUME NEW r \in Requests, GetOpenai(r) \/ Reply(r) PROVE PoolInv'
  <2>1. UNCHANGED <<free, connected>>
        /\ \E l \in Holding : pc' = [pc EXCEPT ![r] = l]
    BY <1>7 DEF GetOpenai, Reply, Goto, WithResult, Holding, shared
  <2> QED  BY <1>3, <2>1
<1>8. ASSUME NEW r \in Requests, Store(r) \/ Respond(r) PROVE PoolInv'
  BY <1>2, <1>8 DEF Store, Respond, Fail, Goto
<1>9. ASSUME NEW r \in Requests, Fault(r) PROVE PoolInv'
  BY <1>2, <1>3, <1>9 DEF Fault, Fail, Goto, Holding
<1>10. CASE Crash
  BY <1>10, Constants, FS_EmptySet DEF Crash, PoolInv
<1>11. ASSUME UNCHANGED <<free, connected, pc>> PROVE PoolInv'
  BY <1>11 DEF PoolInv
<1>12. ASSUME NEW k, WindowEnds(k) PROVE PoolInv'
  BY <1>11, <1>12 DEF WindowEnds
<1>13. CASE UNCHANGED vars
  BY <1>11, <1>13 DEF vars, shared
<1> QED
  BY <1>1, <1>4, <1>5, <1>6, <1>7, <1>8, <1>9, <1>10, <1>12, <1>13 DEF Next

-----------------------------------------------------------------------------
(* Where requests are                                                      *)

LEMMA InitType == Init => TypeInv
<1>1. Init => TypeOK
  BY Constants DEF Init, TypeOK, Done
<1>2. Init => Journeys
  BY Constants DEF Init, Journeys, Journey, Before, ReplyKinds
<1> QED  BY <1>1, <1>2 DEF TypeInv

\* A step of one request leaves what is known of the others alone.
LEMMA OthersJourneys ==
    ASSUME Journeys, NEW r \in Requests, Journey(r)',
           \A q \in Requests \ {r} :
               /\ pc'[q] = pc[q] /\ route'[q] = route[q] /\ reply'[q] = reply[q]
               /\ q \in asked' <=> q \in asked
               /\ q \in stored' <=> q \in stored
    PROVE  Journeys'
<1> SUFFICES ASSUME NEW q \in Requests \ {r} PROVE Journey(q)'
  BY DEF Journeys
<1>1. Journey(q)
  BY DEF Journeys
<1> QED  BY <1>1 DEF Journey

\* The pool and the client keep their types.
LEMMA SharedTypes ==
    ASSUME TypeOK, PoolInv', [Next]_vars
    PROVE  /\ free' \in 0..Pool /\ connected' \subseteq Requests
           /\ client' \in {"unset", "built", "failed"}
           /\ charged' \in [Routes \X Users -> Nat]
           /\ window' \in [Routes \X Users -> 1..MaxWindows]
           /\ restarts' \in 0..MaxRestarts
<1> USE Constants DEF TypeOK
<1>1. free' \in 0..Pool /\ connected' \subseteq Requests
  <2>1. IsFiniteSet(connected')
    BY FS_Subset DEF PoolInv
  <2>2. Cardinality(connected') \in Nat
    BY <2>1, FS_CardinalityType
  <2> QED  BY <2>2 DEF PoolInv
<1>2. client' \in {"unset", "built", "failed"}
  BY DEF Next, Arrive, Start, PoolTimeout, Limit, Handle, GetOpenai, Reply, Store, Refresh, Respond,
         Fault, Crash, WindowEnds, vars, shared
<1>3. restarts' \in 0..MaxRestarts
  <2>1. CASE UNCHANGED restarts
    BY <2>1
  <2>2. CASE Crash
    BY <2>2 DEF Crash
  <2> QED
    BY <2>1, <2>2
    DEF Next, Arrive, Start, PoolTimeout, Limit, Handle, GetOpenai, Reply, Store, Refresh,
        Respond, Fault, WindowEnds, vars
<1>4. charged' \in [Routes \X Users -> Nat] /\ window' \in [Routes \X Users -> 1..MaxWindows]
  <2>1. CASE UNCHANGED <<charged, window>>
    BY <2>1
  <2>2. ASSUME NEW k \in Routes \X Users, WindowEnds(k) PROVE <1>4
    BY <2>2 DEF WindowEnds
  <2>3. ASSUME NEW r \in Requests, Limit(r) \/ Fault(r) PROVE <1>4
    <3> DEFINE k == <<route[r], user[r]>>
    <3>0. CASE UNCHANGED <<charged, window>>
      BY <3>0
    <3>1. CASE charged' = [charged EXCEPT ![k] = charged[k] + 1] /\ window' = window
      <4> HIDE DEF k
      <4>1. \A x \in Routes \X Users : charged[x] \in Nat
        OBVIOUS
      <4>2. \A x \in Routes \X Users : charged'[x] \in Nat
        BY <3>1, <4>1
      <4>3. charged' \in [Routes \X Users -> Nat]
        BY <3>1, <4>2
      <4> QED  BY <3>1, <4>3
    <3> QED  BY <2>3, <3>0, <3>1 DEF Limit, Fault
  <2> QED
    BY <2>1, <2>2, <2>3
    DEF Next, Arrive, Start, PoolTimeout, Handle, GetOpenai, Reply, Store, Refresh, Respond,
        Crash, vars, shared
<1> QED  BY <1>1, <1>2, <1>3, <1>4

\* The fields of a request keep theirs.
RequestTypes ==
    /\ user \in [Requests -> Users]
    /\ route \in [Requests -> Routes \cup {"health", None}]
    /\ pc \in [Requests -> Done \cup Before \cup {"call", "store", "refresh", "respond"}]
    /\ reply \in [Requests -> ReplyKinds \cup {None}]
    /\ stored \subseteq Requests
    /\ database \in [Requests -> {"ok", "fail"}]
    /\ gen \in [Requests -> 0..MaxWindows]
    /\ asked \subseteq Requests

LEMMA StepRequests == TypeInv /\ [Next]_vars => RequestTypes' /\ Journeys'
<1> SUFFICES ASSUME TypeInv, [Next]_vars PROVE RequestTypes' /\ Journeys'
  OBVIOUS
<1> USE Constants DEF TypeInv, TypeOK, Goto
<1>1. RequestTypes /\ \A r \in Requests : Journey(r)
  BY DEF RequestTypes, Before, Journeys
<1>2. ASSUME NEW r \in Requests, Arrive(r) PROVE RequestTypes' /\ Journeys'
  <2>1. RequestTypes'
    BY <1>1, <1>2 DEF Arrive, RequestTypes, Before
  <2>2. Journey(r)'
    BY <1>1, <1>2 DEF Arrive, Journey, Before, ReplyKinds
  <2> QED  BY <1>2, <2>1, <2>2, OthersJourneys DEF Arrive
<1>3. ASSUME NEW r \in Requests, Start(r) PROVE RequestTypes' /\ Journeys'
  <2>1. RequestTypes'
    BY <1>1, <1>3 DEF Start, RequestTypes, Before
  <2>2. Journey(r)'
    BY <1>1, <1>3 DEF Start, Journey, Before, Routes
  <2> QED  BY <1>3, <2>1, <2>2, OthersJourneys DEF Start
<1>4. ASSUME NEW r \in Requests, PoolTimeout(r) PROVE RequestTypes' /\ Journeys'
  <2>1. RequestTypes'
    BY <1>1, <1>4 DEF PoolTimeout, RequestTypes, Before, Done
  <2>2. Journey(r)'
    BY <1>1, <1>4 DEF PoolTimeout, Journey, Before, Routes
  <2> QED  BY <1>4, <2>1, <2>2, OthersJourneys DEF PoolTimeout
<1>5. ASSUME NEW r \in Requests, Limit(r) PROVE RequestTypes' /\ Journeys'
  <2>1. RequestTypes'
    BY <1>1, <1>5 DEF Limit, Fail, RequestTypes, Before, Done, Journey
  <2>2. Journey(r)'
    BY <1>1, <1>5 DEF Limit, Fail, Journey, Before, Routes
  <2> QED  BY <1>5, <2>1, <2>2, OthersJourneys DEF Limit, Fail
<1>6. ASSUME NEW r \in Requests, Handle(r) PROVE RequestTypes' /\ Journeys'
  <2>1. RequestTypes'
    BY <1>1, <1>6 DEF Handle, Fail, RequestTypes, Before, Done
  <2>2. Journey(r)'
    BY <1>1, <1>6 DEF Handle, Fail, Journey, Before, Routes
  <2> QED  BY <1>6, <2>1, <2>2, OthersJourneys DEF Handle, Fail
<1>7. ASSUME NEW r \in Requests, GetOpenai(r) PROVE RequestTypes' /\ Journeys'
  <2>1. RequestTypes'
    BY <1>1, <1>7 DEF GetOpenai, WithResult, RequestTypes, Before
  <2>2. Journey(r)'
    BY <1>1, <1>7 DEF GetOpenai, WithResult, Journey, Before, Routes, ReplyKinds
  <2> QED  BY <1>7, <2>1, <2>2, OthersJourneys DEF GetOpenai
<1>8. ASSUME NEW r \in Requests, Reply(r) PROVE RequestTypes' /\ Journeys'
  <2>1. PICK kind \in KindsFor(route[r]) : reply' = [reply EXCEPT ![r] = kind]
    BY <1>8 DEF Reply
  <2>2. RequestTypes'
    BY <1>1, <1>8, <2>1, Kinds DEF Reply, WithResult, RequestTypes, Before
  <2>3. Journey(r)'
    BY <1>1, <1>8, <2>1 DEF Reply, WithResult, Journey, Before, Routes, KindsFor, ReplyKinds
  <2> QED  BY <1>8, <2>1, <2>2, <2>3, OthersJourneys DEF Reply
<1>9. ASSUME NEW r \in Requests, Store(r) PROVE RequestTypes' /\ Journeys'
  <2>1. RequestTypes'
    BY <1>1, <1>9 DEF Store, Fail, RequestTypes, Before, Done
  <2>2. Journey(r)'
    BY <1>1, <1>9 DEF Store, Fail, Journey, Before, Routes
  <2> QED  BY <1>9, <2>1, <2>2, OthersJourneys DEF Store, Fail
<1>10. ASSUME NEW r \in Requests, Refresh(r) \/ Respond(r) PROVE RequestTypes' /\ Journeys'
  <2>1. RequestTypes'
    BY <1>1, <1>10 DEF Refresh, Respond, Fail, RequestTypes, Before, Done
  <2>2. Journey(r)'
    BY <1>1, <1>10 DEF Refresh, Respond, Fail, Journey, Before, Routes
  <2> QED  BY <1>10, <2>1, <2>2, OthersJourneys DEF Refresh, Respond, Fail
<1>11. ASSUME NEW r \in Requests, Fault(r) PROVE RequestTypes' /\ Journeys'
  <2>1. RequestTypes'
    BY <1>1, <1>11 DEF Fault, Fail, RequestTypes, Before, Done
  <2>2. Journey(r)'
    BY <1>1, <1>11 DEF Fault, Fail, Journey, Before, Routes
  <2> QED  BY <1>11, <2>1, <2>2, OthersJourneys DEF Fault, Fail
<1>12. CASE Crash
  <2>1. \A r \in Requests : pc'[r] = pc[r] \/ pc'[r] = "crashed"
    BY <1>12 DEF Crash
  <2>2. RequestTypes'
    BY <1>1, <1>12, <2>1 DEF Crash, RequestTypes, Done
  <2>3. ASSUME NEW r \in Requests PROVE Journey(r)'
    BY <1>1, <1>12, <2>1 DEF Crash, Journey, Before
  <2> QED  BY <2>2, <2>3 DEF Journeys
<1>13. ASSUME UNCHANGED <<user, route, pc, reply, stored, database, gen, asked>>
       PROVE  RequestTypes' /\ Journeys'
  BY <1>1, <1>13 DEF RequestTypes, Journeys, Journey
<1> QED
  BY <1>2, <1>3, <1>4, <1>5, <1>6, <1>7, <1>8, <1>9, <1>10, <1>11, <1>12, <1>13
  DEF Next, WindowEnds, vars

LEMMA PoolAndTypes == Spec => [](PoolInv /\ TypeInv)
<1>1. TypeOK /\ PoolInv /\ TypeInv /\ [Next]_vars => PoolInv' /\ TypeInv'
  BY StepPool, SharedTypes, StepRequests DEF TypeInv, TypeOK, RequestTypes, Before
<1> QED
  BY <1>1, InitPool, InitType, PTL DEF Spec, TypeInv

-----------------------------------------------------------------------------
(* What the limiter grants                                                 *)

Key(r) == <<route[r], user[r]>>

\* The requests charged in a window of a route and user and let through.
Granted(k, w) == {q \in Requests : Key(q) = k /\ gen[q] = w /\ pc[q] # "429"}

\* Which requests have been charged, and in which window.
Charged(r) ==
    /\ pc[r] \in {"new", "start", "limit"} => gen[r] = 0
    /\ pc[r] \in {"handle", "ask"} => gen[r] > 0 /\ route[r] \in Routes
    /\ r \in asked => gen[r] > 0 /\ route[r] \in Routes
    /\ \A k \in Routes \X Users : Key(r) = k => gen[r] <= window[k]

\* No window grants more than the limit, and the present one no more than it charged.
Counted(k, w) ==
    /\ Cardinality(Granted(k, w)) <= MaxRequests
    /\ w = window[k] => Cardinality(Granted(k, w)) <= charged[k]

GrantInv ==
    /\ \A r \in Requests : Charged(r)
    /\ \A k \in Routes \X Users, w \in 1..MaxWindows : Counted(k, w)

LEMMA GrantedFinite ==
    ASSUME NEW k, NEW w
    PROVE  IsFiniteSet(Granted(k, w)) /\ Cardinality(Granted(k, w)) \in Nat
<1>1. Granted(k, w) \subseteq Requests
  BY DEF Granted
<1> QED  BY <1>1, Constants, FS_Subset, FS_CardinalityType

LEMMA InitGrants == Init => GrantInv
<1> SUFFICES ASSUME Init PROVE GrantInv
  OBVIOUS
<1>1. \A k, w : w \in 1..MaxWindows => Granted(k, w) = {}
  BY DEF Init, Granted
<1>2. \A r \in Requests : Charged(r)
  BY Constants DEF Init, Charged
<1>3. ASSUME NEW k \in Routes \X Users, NEW w \in 1..MaxWindows PROVE Counted(k, w)
  <2>1. Cardinality(Granted(k, w)) = 0
    BY <1>1, FS_EmptySet
  <2>2. charged[k] = 0
    BY DEF Init
  <2> QED  BY <2>1, <2>2, Constants DEF Counted
<1> QED  BY <1>2, <1>3 DEF GrantInv

\* Steps that let nobody in and end no window; one may charge for nothing.
LEMMA QuietStep ==
    ASSUME TypeOK, GrantInv, UNCHANGED <<user, gen, window>>,
           \A k \in Routes \X Users : charged'[k] \in Nat /\ charged'[k] >= charged[k],
           \A q \in Requests :
               /\ pc'[q] = "429" <=> pc[q] = "429"
               /\ gen[q] > 0 => route'[q] = route[q]
               /\ pc'[q] \in {"new", "start", "limit"} => pc[q] \in {"new", "start", "limit"}
               /\ pc'[q] \in {"handle", "ask"} => pc[q] \in {"handle", "ask"}
               /\ q \in asked' => q \in asked \/ pc[q] = "ask"
    PROVE  GrantInv'
<1>1. \A k, w : w \in 1..MaxWindows => Granted(k, w)' = Granted(k, w)
  BY DEF Granted, Key
<1>2. ASSUME NEW r \in Requests PROVE Charged(r)'
  <2>1. Charged(r) /\ gen[r] \in Nat
    BY Constants DEF GrantInv, TypeOK
  <2>2. gen[r] > 0 => Key(r)' = Key(r)
    BY DEF Key
  <2>3. ASSUME NEW k \in Routes \X Users, Key(r)' = k PROVE gen[r] <= window[k]
    <3>1. window[k] \in 1..MaxWindows
      BY DEF TypeOK
    <3> QED  BY <2>1, <2>2, <2>3, <3>1, Constants DEF Charged
  <2> QED  BY <2>1, <2>3 DEF Charged
<1>3. ASSUME NEW k \in Routes \X Users, NEW w \in 1..MaxWindows PROVE Counted(k, w)'
  <2>1. Counted(k, w) /\ Cardinality(Granted(k, w)) \in Nat /\ charged[k] \in Nat
    BY GrantedFinite DEF GrantInv, TypeOK
  <2> QED  BY <1>1, <2>1 DEF Counted
<1> QED  BY <1>2, <1>3 DEF GrantInv

LEMMA LimitStep ==
    ASSUME TypeInv, GrantInv, NEW r \in Requests, Limit(r)
    PROVE  GrantInv'
<1> DEFINE k == Key(r)
<1>1. k \in Routes \X Users /\ gen[r] = 0 /\ r \notin asked
  BY DEF Limit, TypeInv, TypeOK, Journeys, Journey, GrantInv, Charged, Key, Before
<1>2. charged[k] \in Nat /\ window[k] \in 1..MaxWindows
  BY <1>1 DEF TypeInv, TypeOK
<1>3. /\ charged' = [charged EXCEPT ![k] = charged[k] + 1]
      /\ gen' = [gen EXCEPT ![r] = window[k]]
      /\ UNCHANGED <<user, route, asked, window>>
      /\ \/ charged[k] < MaxRequests /\ pc' = [pc EXCEPT ![r] = "handle"]
         \/ charged[k] >= MaxRequests /\ pc' = [pc EXCEPT ![r] = "429"]
  BY DEF Limit, Fail, Goto, Key
<1>4. charged'[k] = charged[k] + 1 /\ \A x \in Routes \X Users : x # k => charged'[x] = charged[x]
  BY <1>1, <1>3 DEF TypeInv, TypeOK
<1>5. /\ gen'[r] = window[k] /\ gen'[r] > 0
      /\ \A q \in Requests \ {r} : gen'[q] = gen[q] /\ pc'[q] = pc[q]
  BY <1>2, <1>3 DEF TypeInv, TypeOK
<1>6. pc'[r] = IF charged[k] < MaxRequests THEN "handle" ELSE "429"
  BY <1>2, <1>3, Constants DEF TypeInv, TypeOK
<1>7. Key(r)' = k /\ \A q \in Requests : Key(q)' = Key(q)
  BY <1>3 DEF Key
<1>8. ASSUME NEW q \in Requests PROVE Charged(q)'
  <2>1. CASE q = r
    <3>1. route[r] \in Routes
      BY <1>1 DEF Key
    <3>2. \A x \in Routes \X Users : Key(r)' = x => gen'[r] <= window'[x]
      BY <1>2, <1>3, <1>5, <1>7
    <3> HIDE DEF k
    <3> QED  BY <1>1, <1>3, <1>5, <1>6, <2>1, <3>1, <3>2 DEF Charged
  <2>2. CASE q # r
    BY <1>3, <1>5, <1>7, <2>2 DEF GrantInv, Charged
  <2> QED  BY <2>1, <2>2
<1>9. ASSUME NEW x \in Routes \X Users, NEW w \in 1..MaxWindows PROVE Counted(x, w)'
  <2>1. r \notin Granted(x, w)
    BY <1>1 DEF Granted
  <2>2. Granted(x, w)' = IF x = k /\ w = window[k] /\ charged[k] < MaxRequests
                         THEN Granted(x, w) \cup {r} ELSE Granted(x, w)
    BY <1>5, <1>6, <1>7, <2>1 DEF Granted
  <2>3. Cardinality(Granted(x, w) \cup {r}) = Cardinality(Granted(x, w)) + 1
    BY <2>1, GrantedFinite, FS_AddElement
  <2>4. Cardinality(Granted(x, w)) \in Nat /\ Counted(x, w) /\ charged[x] \in Nat
    BY GrantedFinite DEF GrantInv, TypeInv, TypeOK
  <2> HIDE DEF k
  <2> QED  BY <1>2, <1>3, <1>4, <2>2, <2>3, <2>4, Constants DEF Counted
<1> QED  BY <1>8, <1>9 DEF GrantInv

LEMMA WindowStep ==
    ASSUME TypeOK, GrantInv, NEW k \in Routes \X Users, WindowEnds(k)
    PROVE  GrantInv'
<1>1. /\ UNCHANGED <<user, route, pc, gen, asked>>
      /\ window[k] \in 1..MaxWindows /\ window'[k] = window[k] + 1 /\ charged'[k] = 0
      /\ \A x \in Routes \X Users : x # k => window'[x] = window[x] /\ charged'[x] = charged[x]
  BY DEF WindowEnds, TypeOK
<1>2. \A x \in Routes \X Users : window[x] \in Nat /\ window[x] <= window'[x] /\ window'[x] \in Nat
  BY <1>1, Constants DEF TypeOK
<1>3. \A x, w : Granted(x, w)' = Granted(x, w)
  BY <1>1 DEF Granted, Key
<1>4. ASSUME NEW r \in Requests PROVE Charged(r)'
  <2>1. Charged(r) /\ gen[r] \in Nat
    BY Constants DEF GrantInv, TypeOK
  <2>2. ASSUME NEW x \in Routes \X Users, Key(r)' = x PROVE gen[r] <= window'[x]
    BY <1>1, <1>2, <2>1, <2>2 DEF Charged, Key
  <2> QED  BY <1>1, <2>1, <2>2 DEF Charged
<1>5. Granted(k, window[k] + 1) = {}
  <2> SUFFICES ASSUME NEW q \in Requests, Key(q) = k, gen[q] = window[k] + 1 PROVE FALSE
    BY DEF Granted
  <2>1. gen[q] <= window[k]
    BY DEF GrantInv, Charged
  <2> QED  BY <1>1, <2>1
<1>6. ASSUME NEW x \in Routes \X Users, NEW w \in 1..MaxWindows PROVE Counted(x, w)'
  <2>1. Counted(x, w)
    BY DEF GrantInv
  <2>2. CASE x = k /\ w = window[k] + 1
    BY <1>1, <1>3, <1>5, <2>2, FS_EmptySet, Constants DEF Counted
  <2>3. CASE ~ (x = k /\ w = window[k] + 1)
    BY <1>1, <1>3, <2>1, <2>3 DEF Counted
  <2> QED  BY <2>2, <2>3
<1> QED  BY <1>4, <1>6 DEF GrantInv

LEMMA StepGrants == TypeInv /\ GrantInv /\ [Next]_vars => GrantInv'
<1> SUFFICES ASSUME TypeInv, GrantInv, [Next]_vars PROVE GrantInv'
  OBVIOUS
<1>0. TypeOK /\ (\A q \in Requests : Charged(q)) /\ \A k \in Routes \X Users : charged[k] \in Nat
  BY DEF TypeInv, TypeOK, GrantInv
<1>1. ASSUME NEW r \in Requests, Arrive(r) PROVE GrantInv'
  BY <1>0, <1>1, QuietStep DEF Arrive, Goto, TypeOK, Charged, shared
<1>2. ASSUME NEW r \in Requests, Start(r) \/ PoolTimeout(r) PROVE GrantInv'
  BY <1>0, <1>2, QuietStep DEF Start, PoolTimeout, Goto, TypeOK, shared
<1>3. ASSUME NEW r \in Requests, Handle(r) PROVE GrantInv'
  BY <1>0, <1>3, QuietStep DEF Handle, Fail, Goto, TypeOK
<1>4. ASSUME NEW r \in Requests, GetOpenai(r) \/ Reply(r) PROVE GrantInv'
  BY <1>0, <1>4, QuietStep DEF GetOpenai, Reply, WithResult, Goto, TypeOK, shared
<1>5. ASSUME NEW r \in Requests, Store(r) \/ Refresh(r) \/ Respond(r) PROVE GrantInv'
  BY <1>0, <1>5, QuietStep DEF Store, Refresh, Respond, Fail, Goto, TypeOK
<1>6. ASSUME NEW r \in Requests, Fault(r) PROVE GrantInv'
  <2>1. \A k \in Routes \X Users : charged'[k] \in Nat /\ charged'[k] >= charged[k]
    <3> DEFINE own == <<route[r], user[r]>>
    <3>1. charged' = charged \/ charged' = [charged EXCEPT ![own] = charged[own] + 1]
      BY <1>6 DEF Fault
    <3> HIDE DEF own
    <3> QED  BY <1>0, <3>1 DEF TypeOK
  <2> QED  BY <1>0, <1>6, <2>1, QuietStep DEF Fault, Fail, Goto, TypeOK
<1>7. CASE Crash
  BY <1>0, <1>7, QuietStep DEF Crash, Done, TypeOK
<1>8. CASE UNCHANGED vars
  BY <1>0, <1>8, QuietStep DEF vars, shared
<1> QED
  BY <1>0, <1>1, <1>2, <1>3, <1>4, <1>5, <1>6, <1>7, <1>8, LimitStep, WindowStep DEF Next

LEMMA AiInvariant == Spec => [](PoolInv /\ TypeInv /\ GrantInv)
<1>1. Init => GrantInv
  BY InitGrants
<1>2. TypeInv /\ GrantInv /\ [Next]_vars => GrantInv'
  BY StepGrants
<1> QED  BY <1>1, <1>2, PoolAndTypes, PTL DEF Spec

-----------------------------------------------------------------------------
(* The theorems                                                            *)

(* Every state is well typed: whatever fails, the pool hands out no more   *)
(* connections than it has.                                                *)
THEOREM TypeCorrect == Spec => []TypeOK
  BY AiInvariant, PTL DEF TypeInv

(* No path through a request loses a connection or takes two, and nobody   *)
(* waits for one while holding one, for a pool of any size and any number  *)
(* of requests (deps.py:21).                                               *)
THEOREM ConnectionsAreAccounted == Spec => []PoolAccounted
<1>1. PoolInv => PoolAccounted
  BY DEF PoolInv, PoolAccounted, Holding, Done
<1> QED  BY <1>1, AiInvariant, PTL

(* "a usable result instead of a 500" (ai_client.py:5): what a 500 can     *)
(* mean, and what is on record after each outcome.                         *)
THEOREM OutcomesAreExplained == Spec => []OutcomesExplained
<1> DEFINE Answered(r) ==
      /\ pc[r] = "500" =>
            \/ route[r] # "questions" /\ r \notin asked /\ r \notin stored
            \/ /\ r \in asked /\ reply[r] \in {"malformed", "unpresentable"}
               /\ r \in stored <=> reply[r] = "unpresentable"
      /\ pc[r] = "200" /\ route[r] \in {"resume-match", "questions"} =>
            r \in stored /\ reply[r] \notin {"malformed", "unpresentable"}
      /\ pc[r] = "timeout" /\ r \in stored => route[r] = "questions"
      /\ pc[r] = "fault" /\ r \in stored =>
            route[r] \in {"resume-match", "questions"} /\ reply[r] # "malformed"
<1>1. Init => \A r \in Requests : Answered(r)
  BY DEF Init
<1>2. TypeInv /\ (\A r \in Requests : Answered(r)) /\ [Next]_vars
      => (\A r \in Requests : Answered(r))'
  <2> SUFFICES ASSUME TypeInv, \A q \in Requests : Answered(q), [Next]_vars, NEW r \in Requests
               PROVE  Answered(r)'
    OBVIOUS
  <2>0. Journey(r)
    BY DEF TypeInv, Journeys
  <2> USE Constants, <2>0 DEF TypeInv, TypeOK, Goto, Journey, Before
  <2>1. ASSUME NEW q \in Requests, Arrive(q) \/ Start(q) \/ PoolTimeout(q) PROVE Answered(r)'
    BY <2>1 DEF Arrive, Start, PoolTimeout
  <2>2. ASSUME NEW q \in Requests, Limit(q) \/ Handle(q) PROVE Answered(r)'
    BY <2>2 DEF Limit, Handle, Fail
  <2>3. ASSUME NEW q \in Requests, GetOpenai(q) \/ Reply(q) PROVE Answered(r)'
    BY <2>3 DEF GetOpenai, Reply, WithResult
  <2>4. ASSUME NEW q \in Requests, Store(q) PROVE Answered(r)'
    BY <2>4 DEF Store, Fail, ReplyKinds
  <2>5. ASSUME NEW q \in Requests, Refresh(q) \/ Respond(q) PROVE Answered(r)'
    BY <2>5 DEF Refresh, Respond, Fail, ReplyKinds
  <2>6. ASSUME NEW q \in Requests, Fault(q) PROVE Answered(r)'
    BY <2>6 DEF Fault, Fail, Routes
  <2>7. CASE Crash
    BY <2>7 DEF Crash
  <2>8. ASSUME UNCHANGED <<route, pc, reply, stored, asked>> PROVE Answered(r)'
    BY <2>8
  <2> QED
    BY <2>1, <2>2, <2>3, <2>4, <2>5, <2>6, <2>7, <2>8 DEF Next, WindowEnds, vars
<1>3. TypeInv /\ (\A r \in Requests : Answered(r)) => OutcomesExplained
  BY DEF TypeInv, Journeys, Journey, Before, OutcomesExplained
<1> QED  BY <1>1, <1>2, <1>3, AiInvariant, PTL DEF Spec

(* "cost-protection on AI endpoints" (rate_limit.py:22): what one window   *)
(* lets through to OpenAI is bounded by the limit, for any limit, any      *)
(* number of requests and users, and any order of their steps.             *)
THEOREM CostsAreBounded == Spec => []CostBounded
<1>1. TypeInv /\ GrantInv => CostBounded
  <2> SUFFICES ASSUME TypeInv, GrantInv, NEW r \in asked
               PROVE  Cardinality({q \in asked : route[q] = route[r] /\ user[q] = user[r]
                                                   /\ gen[q] = gen[r]}) <= MaxRequests
    BY DEF CostBounded
  <2> DEFINE Same == {q \in asked : route[q] = route[r] /\ user[q] = user[r] /\ gen[q] = gen[r]}
  <2>1. r \in Requests /\ Key(r) \in Routes \X Users /\ gen[r] \in 1..MaxWindows
    BY Constants DEF TypeInv, TypeOK, GrantInv, Charged, Key
  <2>2. Same \subseteq Granted(Key(r), gen[r])
    BY DEF Granted, Key, TypeInv, TypeOK, Journeys, Journey
  <2>3. Cardinality(Same) <= Cardinality(Granted(Key(r), gen[r])) /\ Cardinality(Same) \in Nat
    BY <2>2, GrantedFinite, FS_Subset, FS_CardinalityType
  <2>4. Cardinality(Granted(Key(r), gen[r])) <= MaxRequests
    BY <2>1 DEF GrantInv, Counted
  <2> HIDE DEF Same
  <2>5. Cardinality(Same) <= MaxRequests
    BY <2>3, <2>4, GrantedFinite, Constants
  <2> QED  BY <2>5 DEF Same
<1> QED  BY <1>1, AiInvariant, PTL

=============================================================================
