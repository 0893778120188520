----------------------------- MODULE AiRequests -----------------------------
(***************************************************************************)
(* The AI routes of app/api/v1/ai.py and the health probe of app/main.py   *)
(* in one API process, with what they share: the pool of database          *)
(* connections (app/db/session.py), the lazily built OpenAI client         *)
(* (app/services/ai_client.py), and the allowance of the rate limiter,     *)
(* which judges as FixedWindow does.                                       *)
(*                                                                         *)
(* A session takes a connection with its first statement and gives it back *)
(* with a commit or when the request ends.  The first statement is that of *)
(* get_current_user, so a request has a connection while it waits for AI.  *)
(*                                                                         *)
(* Simplifications.  Tokens are valid (module Accounts).  A reply of the   *)
(* AI is one of four kinds.  What is stored of a request is whether it is; *)
(* sessions and questions are module Interviews.  "422" stands for every   *)
(* refusal of an input, 400 and 413 as well.                               *)
(***************************************************************************)
EXTENDS Naturals, FiniteSets

CONSTANTS
    Requests, Users,
    Pool,          \* pool_size + max_overflow, 15 by default
    MaxRequests,   \* the limit of each route
    HasKey,        \* OPENAI_API_KEY is set
    None,          \* no route, no reply yet
    MaxWindows,    \* bound: windows of the limiter
    MaxRestarts    \* bound: deaths of the process

Routes == {"resume-match", "questions", "cover-letter"}

ASSUME RequestsAssumption == IsFiniteSet(Requests)
ASSUME SizesAssumption == Pool \in Nat \ {0} /\ MaxRequests \in Nat
ASSUME HasKeyAssumption == HasKey \in BOOLEAN
ASSUME BoundsAssumption == MaxWindows \in Nat \ {0} /\ MaxRestarts \in Nat

VARIABLES
    free,       \* connections that nobody has
    connected,  \* the requests whose session has one
    client,     \* _openai_client and _openai_import_failed
    charged,    \* the limiter's count of each route and user
    window,     \* the number of its window
    user,       \* the user of each request
    route,      \* what it asks for
    pc,         \* its next step, or its outcome
    reply,      \* what the AI said
    stored,     \* the requests whose record or session is committed
    database,   \* `db_status` of the health probe
    gen,        \* history: the window whose count let each request in or refused it
    asked,      \* history: the requests that were sent to OpenAI
    restarts

shared == <<free, connected, client, charged, window>>
vars == <<shared, user, route, pc, reply, stored, database, gen, asked, restarts>>

\* `timeout`: 500, no connection within 30 s; `fault`: 500, PostgreSQL or Redis failed.
Done == {"200", "422", "429", "500", "timeout", "fault", "crashed"}

\* Fit to store and to show, fit to store only, fit for neither, and of no use
\* already to the client, which falls back to the stub.
ReplyKinds == {"good", "unpresentable", "malformed", "unusable"}

ASSUME NoneAssumption == None \notin ReplyKinds \cup Routes \cup {"health"}

TypeOK ==
    /\ free \in 0..Pool
    /\ connected \subseteq Requests
    /\ client \in {"unset", "built", "failed"}
    /\ charged \in [Routes \X Users -> Nat]
    /\ window \in [Routes \X Users -> 1..MaxWindows]
    /\ user \in [Requests -> Users]
    /\ route \in [Requests -> Routes \cup {"health", None}]
    /\ pc \in [Requests -> Done \cup
                 {"new", "start", "limit", "handle", "ask", "call", "store", "refresh",
                  "respond"}]
    /\ reply \in [Requests -> ReplyKinds \cup {None}]
    /\ stored \subseteq Requests
    /\ database \in [Requests -> {"ok", "fail"}]
    /\ gen \in [Requests -> 0..MaxWindows]
    /\ asked \subseteq Requests
    /\ restarts \in 0..MaxRestarts

Init ==
    /\ free = Pool
    /\ connected = {}
    /\ client = "unset"
    /\ charged = [k \in Routes \X Users |-> 0]
    /\ window = [k \in Routes \X Users |-> 1]
    /\ user \in [Requests -> Users]
    /\ route = [r \in Requests |-> None]
    /\ pc = [r \in Requests |-> "new"]
    /\ reply = [r \in Requests |-> None]
    /\ stored = {}
    /\ database = [r \in Requests |-> "ok"]
    /\ gen = [r \in Requests |-> 0]
    /\ asked = {}
    /\ restarts = 0

Goto(r, label) == pc' = [pc EXCEPT ![r] = label]

-----------------------------------------------------------------------------
(* The pool                                                                *)

\* A statement of a session without a connection takes one.
Acquire(r) ==
    /\ free > 0
    /\ free' = free - 1
    /\ connected' = connected \cup {r}

ReleaseNothing(r) == UNCHANGED <<free, connected>>
ReleaseUnheld(r) == free' = free + 1 /\ connected' = connected \ {r}

\* A commit, or the exit of get_db however the request ended, gives it back.
Release(r) ==
    /\ free' = IF r \in connected THEN free + 1 ELSE free
    /\ connected' = connected \ {r}

\* The request ends with an error: get_db closes its session.
Fail(r, outcome) == Release(r) /\ Goto(r, outcome)

-----------------------------------------------------------------------------
(* Before the handler                                                      *)

Arrive(r) ==
    /\ pc[r] = "new"
    /\ \E w \in Routes \cup {"health"} : route' = [route EXCEPT ![r] = w]
    /\ Goto(r, "start")
    /\ UNCHANGED <<shared, user, reply, stored, database, gen, asked, restarts>>

\* get_current_user loads the user; the health probe runs its SELECT 1.
Start(r) ==
    /\ pc[r] = "start"
    /\ Acquire(r)
    /\ Goto(r, IF route[r] = "health" THEN "respond" ELSE "limit")
    /\ UNCHANGED <<client, charged, window, user, route, reply, stored, database, gen,
                   asked, restarts>>

\* No connection for 30 s; the health probe reports that, everybody else fails.
PoolTimeout(r) ==
    /\ pc[r] \in {"start", "refresh"} /\ free = 0
    /\ database' = [database EXCEPT ![r] = IF route[r] = "health" THEN "fail" ELSE @]
    /\ Goto(r, IF route[r] = "health" THEN "respond" ELSE "timeout")
    /\ UNCHANGED <<shared, user, route, reply, stored, gen, asked, restarts>>

LimitOneTooMany(r) ==
    LET k == <<route[r], user[r]>>
    IN  /\ pc[r] = "limit"
        /\ charged' = [charged EXCEPT ![k] = @ + 1]
        /\ gen' = [gen EXCEPT ![r] = window[k]]
        /\ \/ /\ charged[k] <= MaxRequests
              /\ Goto(r, "handle")
              /\ UNCHANGED <<free, connected>>
           \/ /\ charged[k] > MaxRequests
              /\ Fail(r, "429")
        /\ UNCHANGED <<client, window, user, route, reply, stored, database, asked,
                       restarts>>

\* The dependencies of the decorator come first: the limiter charges, and judges.
Limit(r) ==
    LET k == <<route[r], user[r]>>
    IN  /\ pc[r] = "limit"
        /\ charged' = [charged EXCEPT ![k] = @ + 1]
        /\ gen' = [gen EXCEPT ![r] = window[k]]
        /\ \/ /\ charged[k] < MaxRequests
              /\ Goto(r, "handle")
              /\ UNCHANGED <<free, connected>>
           \/ /\ charged[k] >= MaxRequests
              /\ Fail(r, "429")
        /\ UNCHANGED <<client, window, user, route, reply, stored, database, asked, restarts>>

-----------------------------------------------------------------------------
(* The handlers                                                            *)

\* The body is validated and the PDF parsed after the charge: 422, or on to the AI;
\* resume_parser.py catches PdfReadError, and no other exception of pypdf.
Handle(r) ==
    /\ pc[r] = "handle"
    /\ \/ Fail(r, "422")
       \/ route[r] # "questions" /\ Fail(r, "500")
       \/ Goto(r, "ask") /\ UNCHANGED <<free, connected>>
    /\ UNCHANGED <<client, charged, window, user, route, reply, stored, database, gen,
                   asked, restarts>>

\* Where a handler goes with a result.
WithResult(r) == IF route[r] = "cover-letter" THEN "respond" ELSE "store"

\* _get_openai: no client without a key or once its construction has failed, which
\* is the stub's turn; no await comes between its checks and its assignments.
GetOpenai(r) ==
    /\ pc[r] = "ask"
    /\ \/ /\ ~ HasKey \/ client = "failed"
          /\ Goto(r, WithResult(r))
          /\ UNCHANGED <<client, asked>>
       \/ /\ HasKey /\ client = "unset"
          /\ client' = "failed"
          /\ Goto(r, WithResult(r))
          /\ UNCHANGED asked
       \/ /\ HasKey /\ client # "failed"
          /\ client' = "built"
          /\ asked' = asked \cup {r}
          /\ Goto(r, "call")
    /\ UNCHANGED <<free, connected, charged, window, user, route, reply, stored, database,
                   gen, restarts>>

\* A letter is any text; a list of questions is normalised.
KindsFor(w) ==
    CASE w = "resume-match" -> ReplyKinds
      [] w = "questions" -> ReplyKinds \ {"unpresentable"}
      [] OTHER -> {"good", "unusable"}

\* The call returns, or raises and the stub steps in.
Reply(r) ==
    /\ pc[r] = "call"
    /\ \E kind \in KindsFor(route[r]) : reply' = [reply EXCEPT ![r] = kind]
    /\ Goto(r, WithResult(r))
    /\ UNCHANGED <<shared, user, route, stored, database, gen, asked, restarts>>

StoreUnchecked(r) ==
    /\ pc[r] = "store"
    /\ stored' = stored \cup {r}
    /\ Fail(r, IF route[r] = "questions" THEN "refresh" ELSE "respond")
    /\ UNCHANGED <<client, charged, window, user, route, reply, database, gen, asked, restarts>>

StoreInOwnSession(r) ==
    /\ pc[r] = "store"
    /\ \/ /\ reply[r] = "malformed"
          /\ Fail(r, "500")
          /\ UNCHANGED stored
       \/ /\ reply[r] # "malformed" /\ free > 0
          /\ stored' = stored \cup {r}
          /\ Goto(r, "respond")
          /\ UNCHANGED <<free, connected>>
    /\ UNCHANGED <<client, charged, window, user, route, reply, database, gen, asked, restarts>>

\* The record, or the session with its questions, is committed unless the reply
\* lacks a key or no column can hold it; either way the connection goes back.
Store(r) ==
    /\ pc[r] = "store"
    /\ \/ /\ reply[r] = "malformed"
          /\ Fail(r, "500")
          /\ UNCHANGED stored
       \/ /\ reply[r] # "malformed"
          /\ stored' = stored \cup {r}
          /\ Release(r)
          /\ Goto(r, IF route[r] = "questions" THEN "refresh" ELSE "respond")
    /\ UNCHANGED <<client, charged, window, user, route, reply, database, gen, asked, restarts>>

\* db.refresh of the questions needs a connection again.
Refresh(r) ==
    /\ pc[r] = "refresh"
    /\ Acquire(r)
    /\ Goto(r, "respond")
    /\ UNCHANGED <<client, charged, window, user, route, reply, stored, database, gen,
                   asked, restarts>>

\* FastAPI validates the response against the route's model.
Respond(r) ==
    /\ pc[r] = "respond"
    /\ Fail(r, IF reply[r] = "unpresentable" THEN "500" ELSE "200")
    /\ UNCHANGED <<client, charged, window, user, route, reply, stored, database, gen,
                   asked, restarts>>

-----------------------------------------------------------------------------
(* Failures                                                                *)

\* A statement or a Redis command fails, or its acknowledgement is lost: the commit
\* may be done by then, and the charge; the health probe carries on.
Fault(r) ==
    /\ pc[r] \in {"start", "limit", "store", "refresh"}
    /\ \/ /\ route[r] # "health"
          /\ Fail(r, "fault")
          /\ UNCHANGED database
       \/ /\ route[r] = "health"
          /\ database' = [database EXCEPT ![r] = "fail"]
          /\ Goto(r, "respond")
          /\ UNCHANGED <<free, connected>>
    /\ \/ UNCHANGED stored
       \/ pc[r] = "store" /\ reply[r] # "malformed" /\ stored' = stored \cup {r}
    /\ \/ UNCHANGED charged
       \/ pc[r] = "limit" /\ charged' = [charged EXCEPT ![<<route[r], user[r]>>] = @ + 1]
    /\ UNCHANGED <<client, window, user, route, reply, gen, asked, restarts>>

\* The process dies, and another with a pool and a latch of its own takes over.
Crash ==
    /\ restarts < MaxRestarts
    /\ free' = Pool /\ connected' = {} /\ client' = "unset"
    /\ pc' = [r \in Requests |-> IF pc[r] \in Done \cup {"new"} THEN pc[r] ELSE "crashed"]
    /\ restarts' = restarts + 1
    /\ UNCHANGED <<charged, window, user, route, reply, stored, database, gen, asked>>

\* A window of the limiter ends.
WindowEnds(k) ==
    /\ charged[k] > 0 /\ window[k] < MaxWindows
    /\ charged' = [charged EXCEPT ![k] = 0]
    /\ window' = [window EXCEPT ![k] = @ + 1]
    /\ UNCHANGED <<free, connected, client, user, route, pc, reply, stored, database, gen,
                   asked, restarts>>

Next ==
    \/ \E r \in Requests :
          \/ Arrive(r) \/ Start(r) \/ PoolTimeout(r) \/ Limit(r) \/ Handle(r)
          \/ GetOpenai(r) \/ Reply(r) \/ Store(r) \/ Refresh(r) \/ Respond(r) \/ Fault(r)
    \/ \E k \in Routes \X Users : WindowEnds(k)
    \/ Crash

Spec == Init /\ [][Next]_vars

\* What a request does unless something fails.
Serve(r) ==
    \/ Start(r) \/ Limit(r) \/ Handle(r) \/ GetOpenai(r) \/ Reply(r)
    \/ Store(r) \/ Refresh(r) \/ Respond(r)

(* The event loop goes on with every request that can go on, and the call  *)
(* to OpenAI ends, by the client's own timeout if need be.  Nobody has to  *)
(* send a request, no timeout of the pool has to strike, nothing to fail.  *)
FairSpec == Spec /\ \A r \in Requests : WF_vars(Serve(r))

-----------------------------------------------------------------------------
(* Properties                                                              *)

(* No path through a request loses a connection or takes two: those that   *)
(* are not free are with requests that are under way, one each (deps.py:21 *)
(* "handles commit/rollback/close on exit"), and nobody holds one while it *)
(* waits for one.                                                          *)
PoolAccounted ==
    /\ free + Cardinality(connected) = Pool
    /\ \A r \in connected : pc[r] \notin Done \cup {"new", "start", "refresh"}

(* However few connections there are, and though every one of them stays   *)
(* with its request while the AI thinks, a request that has arrived is     *)
(* answered: no two wait for each other, even if the pool were to let them *)
(* wait for ever.                                                          *)
EveryoneAnswered == \A r \in Requests : pc[r] = "start" ~> pc[r] \in Done

(* "a usable result instead of a 500" (ai_client.py:5): a 500 that neither *)
(* the pool nor a fault accounts for comes from a PDF, before anything was *)
(* asked or stored, or from a reply the client did not check, and then the *)
(* request is on record exactly when that reply fits its columns.  A 200   *)
(* always is on record, unless it was for a letter.  Of those that time    *)
(* out, only a generation can be, in its refresh; of those a fault ends,   *)
(* only one whose reply fits its columns.                                  *)
OutcomesExplained ==
    \A r \in Requests :
        /\ pc[r] = "500" =>
              \/ route[r] # "questions" /\ r \notin asked /\ r \notin stored
              \/ /\ r \in asked /\ reply[r] \in {"malformed", "unpresentable"}
                 /\ r \in stored <=> reply[r] = "unpresentable"
        /\ pc[r] = "200" /\ route[r] \in {"resume-match", "questions"} =>
              r \in stored /\ reply[r] \notin {"malformed", "unpresentable"}
        /\ pc[r] = "timeout" /\ r \in stored => route[r] = "questions"
        /\ pc[r] = "fault" /\ r \in stored =>
              route[r] \in {"resume-match", "questions"} /\ reply[r] # "malformed"
        /\ pc[r] \in {"422", "429"} => r \notin stored /\ r \notin asked

(* "cost-protection on AI endpoints" (rate_limit.py:22): of the requests   *)
(* charged to one window of a route and user, at most MaxRequests reach    *)
(* OpenAI, in whatever order they get there.                               *)
CostBounded ==
    \A r \in asked :
        Cardinality({q \in asked : route[q] = route[r] /\ user[q] = user[r] /\ gen[q] = gen[r]})
            <= MaxRequests

=============================================================================
