------------------------------ MODULE JobsApi ------------------------------
(***************************************************************************)
(* The job endpoints of app/api/v1/jobs.py with the analytics cache they   *)
(* invalidate: each handler is a few database statements and Redis calls   *)
(* with an `await` between any two, and the handlers of several requests,  *)
(* even of one user, run interleaved.  The cache side is AnalyticsCache,   *)
(* whose constants, variables and steps this module builds on.             *)
(*                                                                         *)
(* Simplifications.  A row is its owner and the fields a client may set;   *)
(* which of them accept NULL is a constant.  A flush and the commit after  *)
(* it are one step: between them PostgreSQL holds the row's lock.  Reads   *)
(* that change nothing (the list of jobs) are left out.  The user row and  *)
(* the JWT are checked before any step modelled here.                      *)
(***************************************************************************)
EXTENDS AnalyticsCache, UnitOfWork

CONSTANTS
    JobIds,      \* primary keys, never handed out twice
    Fields,      \* the columns a client may set
    NotNull,     \* those of them that are NOT NULL
    Values,      \* what they may hold
    Null,        \* SQL NULL, JSON null
    Unborn,      \* an id not handed out yet
    Deleted,     \* the id of a deleted row
    NoJob,       \* the target of a request that has not named one
    Bodies,      \* the bodies of requests: a value, or null, per field set
    Seeds        \* the rows that may be there when the requests come in

Data == [Fields -> Values \cup {Null}]
Row == [owner : Users, data : Data]

\* What a NOT NULL column admits.
Storable(d) == \A f \in NotNull \cap DOMAIN d : d[f] # Null

\* A payload that sets nothing.
NoBody == [f \in {} |-> Null]

Ops == {"none", "create", "get", "update", "delete", "analytics"}

ASSUME SchemaAssumption ==
    /\ NotNull \subseteq Fields
    /\ Null \notin Values
    /\ Bodies \subseteq UNION {[S -> Values \cup {Null}] : S \in SUBSET Fields}
    /\ Seeds \subseteq {row \in Row : Storable(row.data)}
    /\ Unborn \notin Row /\ Deleted \notin Row /\ Unborn # Deleted

VARIABLES
    jobs,     \* the table: Unborn, Deleted or a row for each id
    op,       \* the endpoint each request calls
    target,   \* the job_id in the path (for create: the id it was given)
    body,     \* the fields of the payload
    pc,       \* the next step of each request, or its HTTP outcome
    loaded,   \* the row `db.get` loaded into the request's session
    base,     \* history: the rows that a reader's first query found
    shows     \* history: the rows that a cached summary was computed from

history == <<base, shows>>
vars == <<jobs, op, target, body, pc, loaded, history, cacheVars>>

Done == {"ok", "404", "500", "crashed"}
Pcs == {"start", "loaded", "refresh", "wipe", "compute"} \cup Done

Exists(j) == jobs[j] \in Row

\* What the summary of a user is computed from.
RowsOf(u) == {<<j, jobs[j].data>> : j \in {i \in JobIds : Exists(i) /\ jobs[i].owner = u}}

TypeOK ==
    /\ jobs \in [JobIds -> Row \cup {Unborn, Deleted}]
    /\ \A j \in JobIds : Exists(j) => Storable(jobs[j].data)
    /\ op \in [Requests -> Ops]
    /\ target \in [Requests -> JobIds \cup {NoJob}]
    /\ body \in [Requests -> Bodies \cup {NoBody}]
    /\ pc \in [Requests -> Pcs]
    /\ loaded \in [Requests -> Data]
    /\ base \in [Requests -> SUBSET (JobIds \X Data)]
    /\ shows \in [Keys -> SUBSET (JobIds \X Data)]
    /\ CacheTypeOK

Init ==
    /\ jobs \in [JobIds -> Seeds \cup {Unborn}]
    /\ op = [r \in Requests |-> "none"]
    /\ target = [r \in Requests |-> NoJob]
    /\ body = [r \in Requests |-> NoBody]
    /\ pc = [r \in Requests |-> "start"]
    /\ loaded = [r \in Requests |-> [f \in Fields |-> Null]]
    /\ base = [r \in Requests |-> {}]
    /\ shows = [k \in Keys |-> {}]
    /\ CacheInit

-----------------------------------------------------------------------------
(* The handlers                                                            *)

Goto(r, label) == pc' = [pc EXCEPT ![r] = label]

\* create_job: insert and commit.
CreateJob(r) ==
    /\ pc[r] = "start"
    /\ op' = [op EXCEPT ![r] = "create"]
    /\ \E j \in JobIds, d \in Bodies \cap Data :
          /\ jobs[j] = Unborn
          /\ Storable(d)
          /\ jobs' = [jobs EXCEPT ![j] = [owner |-> user[r], data |-> d]]
          /\ target' = [target EXCEPT ![r] = j]
          /\ body' = [body EXCEPT ![r] = d]
    /\ Goto(r, "refresh")
    /\ Write(r)
    /\ UNCHANGED <<loaded, history>>

\* The requests for a job: what they do with it, and the payload of a PATCH.
JobRequests ==
    {<<o, NoBody>> : o \in {"get", "delete"}} \cup ({"update"} \X (Bodies \cup {NoBody}))

\* The check of _get_owned_job; a job of someone else is as good as none.
Owned(r, j) == Exists(j) /\ jobs[j].owner = user[r]

\* _get_owned_job, all that get_job does.
LoadJob(r) ==
    /\ pc[r] = "start"
    /\ \E j \in JobIds, q \in JobRequests :
          /\ op' = [op EXCEPT ![r] = q[1]]
          /\ body' = [body EXCEPT ![r] = q[2]]
          /\ target' = [target EXCEPT ![r] = j]
          /\ \/ /\ Owned(r, j)
                /\ loaded' = [loaded EXCEPT ![r] = jobs[j].data]
                /\ Goto(r, IF q[1] = "get" THEN "ok" ELSE "loaded")
             \/ /\ ~ Owned(r, j)
                /\ Goto(r, "404")
                /\ UNCHANGED loaded
    /\ UNCHANGED <<jobs, history, cacheVars>>

\* The columns that the UPDATE of a PATCH names.
Changed(r) == NetChanges(loaded[r], body[r])

WrittenWhole(r, d) ==
    [f \in Fields |-> IF f \in DOMAIN body[r] THEN body[r][f] ELSE loaded[r][f]]

\* A row's data after that UPDATE.
Written(r, d) == Flushed(d, loaded[r], body[r])

FailsIfGone(r) == Changed(r) # {} /\ ~ Exists(target[r])

\* The UPDATE fails on NULL in a NOT NULL column, or on a row deleted meanwhile.
UpdateFails(r) ==
    Changed(r) # {} /\ (~ Exists(target[r]) \/ ~ Storable([f \in Changed(r) |-> body[r][f]]))

UpdateJobWipesFirst(r) ==
    /\ pc[r] = "loaded" /\ op[r] = "update"
    /\ \/ /\ \/ WriteNothing(r) \/ StartWipe(r) \/ EndWipe(r)
             \/ \E k \in Keys : WipeKey(r, k)
          /\ UNCHANGED <<jobs, pc>>
       \/ /\ step[r] = "wiped" /\ ~ UpdateFails(r) /\ Changed(r) # {}
          /\ jobs' = [jobs EXCEPT ![target[r]].data = Written(r, @)]
          /\ rev' = [rev EXCEPT ![user[r]] = @ + 1]
          /\ mine' = [mine EXCEPT ![r] = rev[user[r]] + 1]
          /\ Goto(r, "ok")
          /\ UNCHANGED <<user, cache, step, must, range, seen>>
    /\ UNCHANGED <<op, target, body, loaded, history>>

\* update_job and update_job_status: set the attributes, flush and commit.
UpdateJob(r) ==
    LET j == target[r]
    IN  /\ pc[r] = "loaded" /\ op[r] = "update"
        /\ \/ /\ UpdateFails(r)
              /\ Goto(r, "500")
              /\ UNCHANGED <<jobs, cacheVars>>
           \/ /\ ~ UpdateFails(r) /\ Changed(r) # {}
              /\ jobs' = [jobs EXCEPT ![j].data = Written(r, @)]
              /\ Goto(r, "refresh")
              /\ Write(r)
           \/ /\ Changed(r) = {}
              /\ Goto(r, "refresh")
              /\ WriteNothing(r)
              /\ UNCHANGED jobs
        /\ UNCHANGED <<op, target, body, loaded, history>>

DeleteJobNoWipe(r) ==
    LET j == target[r]
    IN  /\ pc[r] = "loaded" /\ op[r] = "delete"
        /\ \/ /\ Exists(j)
              /\ jobs' = [jobs EXCEPT ![j] = Deleted]
              /\ Write(r)
              /\ Goto(r, "ok")
           \/ /\ ~ Exists(j)
              /\ WriteNothing(r)
              /\ Goto(r, "wipe")
              /\ UNCHANGED jobs
        /\ UNCHANGED <<op, target, body, loaded, history>>

\* delete_job: a row that is gone already is no error; there is no refresh.
DeleteJob(r) ==
    LET j == target[r]
    IN  /\ pc[r] = "loaded" /\ op[r] = "delete"
        /\ \/ /\ Exists(j)
              /\ jobs' = [jobs EXCEPT ![j] = Deleted]
              /\ Write(r)
           \/ /\ ~ Exists(j)
              /\ WriteNothing(r)
              /\ UNCHANGED jobs
        /\ Goto(r, "wipe")
        /\ UNCHANGED <<op, target, body, loaded, history>>

\* db.refresh: the row may be gone again; then the wipe is skipped.
Refresh(r) ==
    /\ pc[r] = "refresh"
    /\ \/ /\ Exists(target[r])
          /\ Goto(r, "wipe")
          /\ UNCHANGED cacheVars
       \/ /\ ~ Exists(target[r])
          /\ Goto(r, "500")
          /\ Fail(r)
    /\ UNCHANGED <<jobs, op, target, body, loaded, history>>

\* _invalidate_analytics, then the response.
Invalidate(r) ==
    /\ pc[r] = "wipe"
    /\ \/ (StartWipe(r) \/ \E k \in Keys : WipeKey(r, k)) /\ UNCHANGED pc
       \/ EndWipe(r) /\ Goto(r, "ok")
    /\ UNCHANGED <<jobs, op, target, body, loaded, history>>

\* get_summary: the lookup, and on a miss the queries and the store.
Summary(r) ==
    /\ \/ /\ pc[r] = "start"
          /\ op' = [op EXCEPT ![r] = "analytics"]
          /\ Lookup(r)
          /\ Goto(r, IF step'[r] = "missed" THEN "compute" ELSE "ok")
          /\ UNCHANGED history
       \/ /\ pc[r] = "compute"
          /\ Query(r)
          /\ base' = [base EXCEPT ![r] = RowsOf(user[r])]
          /\ UNCHANGED <<pc, op, shows>>
       \/ /\ pc[r] = "compute"
          /\ Fill(r) /\ Goto(r, "ok")
          /\ shows' = [shows EXCEPT ![KeyRead(r)] = base[r]]
          /\ UNCHANGED <<op, base>>
    /\ UNCHANGED <<jobs, target, body, loaded>>

-----------------------------------------------------------------------------
(* Failures and time                                                       *)

\* The process dies, or the database or Redis fails a call, at any point.
Crash(r) ==
    /\ pc[r] \notin Done
    /\ Goto(r, "crashed")
    /\ Fail(r)
    /\ UNCHANGED <<jobs, op, target, body, loaded, history>>

Environment ==
    /\ (\E k \in Keys : Expire(k)) \/ RedisRestart
    /\ UNCHANGED <<jobs, op, target, body, pc, loaded, history>>

Next ==
    \/ \E r \in Requests :
          \/ CreateJob(r) \/ LoadJob(r) \/ UpdateJob(r) \/ DeleteJob(r)
          \/ Refresh(r) \/ Invalidate(r) \/ Summary(r) \/ Crash(r)
    \/ Environment

Spec == Init /\ [][Next]_vars

-----------------------------------------------------------------------------
(* Properties                                                              *)

(* "call after any job write" (jobs.py:20): a cached summary that was      *)
(* computed from other rows than the table has now had a write committed   *)
(* between its query and its SET; or the user's last committed write is    *)
(* that of a request which still has to delete this very key, or which     *)
(* crashed before it could.                                                *)
OutdatedExplained ==
    \A k \in Keys : cache[k] # Miss /\ shows[k] # RowsOf(k[1]) =>
        \/ cache[k].ver < cache[k].at
        \/ \E r \in Requests :
              /\ user[r] = k[1] /\ mine[r] = rev[k[1]]
              /\ \/ pc[r] = "refresh"
                 \/ pc[r] = "wipe" /\ (step[r] = "wiping" => k \in must[r])
                 \/ pc[r] = "crashed"

(* A handler that fails after its commit skips its wipe (jobs.py:104), but *)
(* the user's last committed write does not: as long as nothing crashed,   *)
(* a summary stored before that write is still to be wiped by the very     *)
(* request that made it.                                                   *)
LastWriterWipes ==
    \A k \in Keys :
        cache[k] # Miss /\ cache[k].at < rev[k[1]] =>
            \E r \in Requests :
                /\ user[r] = k[1] /\ mine[r] = rev[k[1]]
                /\ \/ pc[r] \in {"refresh", "wipe"} /\ (step[r] = "wiping" => k \in must[r])
                   \/ pc[r] = "crashed"

(* A step changes rows of one user only, that of the request that takes    *)
(* it; an id keeps its owner for ever and a deleted id stays deleted; a    *)
(* request changes no field it did not send, although it writes from a     *)
(* copy that other requests may have overtaken (jobs.py:97-103).           *)
WritesConfined ==
    [][\A j \in JobIds : jobs'[j] # jobs[j] =>
          \E r \in Requests :
              /\ pc'[r] # pc[r]
              /\ \/ jobs[j] = Unborn /\ jobs'[j] = [owner |-> user[r], data |-> body'[r]]
                 \/ /\ Exists(j) /\ jobs[j].owner = user[r]
                    /\ \/ jobs'[j] = Deleted /\ op[r] = "delete"
                       \/ /\ jobs'[j] \in Row /\ jobs'[j].owner = user[r]
                          /\ \A f \in Fields : jobs'[j].data[f] # jobs[j].data[f] =>
                                f \in DOMAIN body[r] /\ jobs'[j].data[f] = body[r][f]]_vars

(* A write stays until someone asks for another value: when the row no      *)
(* longer holds what a create or PATCH committed, a PATCH of the same user  *)
(* sent the value found there, and not a request that saved a stale copy    *)
(* of a field it never named (jobs.py:97-103).                              *)
UndoneOnlyByPatch ==
    \A r \in Requests, f \in Fields :
        /\ op[r] \in {"create", "update"} /\ pc[r] \in {"refresh", "wipe", "ok"}
        /\ f \in DOMAIN body[r] /\ Exists(target[r])
        /\ jobs[target[r]].data[f] # body[r][f]
        => \E q \in Requests \ {r} :
              /\ op[q] = "update" /\ target[q] = target[r] /\ user[q] = user[r]
              /\ pc[q] \notin {"start", "loaded", "404"}
              /\ f \in DOMAIN body[q] /\ body[q][f] = jobs[target[r]].data[f]

=============================================================================
