----------------------------- MODULE Migrations -----------------------------
(***************************************************************************)
(* How a container of the production image starts (entrypoint.sh): read    *)
(* the settings (app/core/config.py), run `alembic upgrade head`           *)
(* (alembic/env.py, alembic/versions) unless SKIP_MIGRATIONS is set, then  *)
(* start the app; the platform restarts a container that exits.            *)
(*                                                                         *)
(* Alembic reads its heads, then runs all the migrations it lacks and the  *)
(* updates of alembic_version in one transaction.  It takes no lock: the   *)
(* first DDL of a second container waits for the transaction of the first  *)
(* and then finds its table or column there.  A migration of the existing  *)
(* table users also waits for every request that has read the user and not *)
(* ended its transaction, and requests that come later wait behind it.     *)
(*                                                                         *)
(* Simplifications.  Revision n is the n-th migration; an image knows the  *)
(* revisions 1..image, and its models need all of them.  One request per   *)
(* container stands for those that hold a lock on users.  PostgreSQL       *)
(* notices at once that a client is gone.                                  *)
(***************************************************************************)
EXTENDS Naturals

CONSTANTS
    Containers,
    Skippers,      \* those with SKIP_MIGRATIONS=1, the worker
    Images,        \* the images that are deployed, by their last revision
    Urls,          \* connection strings an operator may paste
    None,          \* nobody, and no version
    MaxCrashes,    \* bound: containers that die
    MaxFaults,     \* bound: connections that are refused or lost
    MaxDeploys     \* bound: containers replaced by one of another image

\* A query parameter.  `option` is any that asyncpg knows under the same name;
\* `foreign` one that it refuses, for its name, its value, or because it comes
\* twice (ssl and sslmode are one).  `text` is what it says once unescaped: nothing,
\* only what a query may hold as it is, or also what urlencode escapes; `escaped`
\* whether it is written with a %.
Param == [key : {"sslmode", "ssl", "channel_binding", "option", "foreign"},
          text : {"blank", "word", "reserved"}, escaped : BOOLEAN]

\* `encoded`: a % in the part before the query, as in an escaped password.
Url == [scheme : {"postgres", "postgresql", "postgresql+asyncpg", "other"},
        encoded : BOOLEAN, params : SUBSET Param]

ASSUME ImagesAssumption == Images \subseteq Nat \ {0}
ASSUME UrlsAssumption == Urls \subseteq Url
ASSUME ContainersAssumption ==
    Skippers \subseteq Containers /\ None \notin Containers /\ None \notin Nat
ASSUME BoundsAssumption == MaxCrashes \in Nat /\ MaxFaults \in Nat /\ MaxDeploys \in Nat

VARIABLES
    version,   \* alembic_version, 0 when the database is empty
    schema,    \* the revisions whose DDL is committed
    holder,    \* the container whose open transaction has run DDL, or None
    readers,   \* the containers with a request that has users locked
    url,       \* the DATABASE_URL of the environment
    image,     \* the image of each container
    pc,        \* where it is
    read,      \* the version that its alembic read since the start, or None
    done,      \* the last revision run in its transaction
    crashes, faults, deploys

vars == <<version, schema, holder, readers, url, image, pc, read, done, crashes, faults, deploys>>

TypeOK ==
    /\ version \in Images \cup {0}
    /\ schema \subseteq UNION {1..n : n \in Images}
    /\ holder \in Containers \cup {None}
    /\ readers \subseteq Containers
    /\ url \in Urls
    /\ image \in [Containers -> Images]
    /\ pc \in [Containers -> {"boot", "heads", "upgrade", "waiting", "migrate", "exec",
                              "serving", "failed", "lost", "died"}]
    /\ read \in [Containers -> Images \cup {0, None}]
    /\ done \in [Containers -> UNION {0..n : n \in Images}]
    /\ crashes \in 0..MaxCrashes /\ faults \in 0..MaxFaults /\ deploys \in 0..MaxDeploys

Init ==
    /\ version \in Images \cup {0}
    /\ schema = 1..version
    /\ holder = None
    /\ readers = {}
    /\ url \in Urls
    /\ image \in [Containers -> Images]
    /\ pc = [c \in Containers |-> "boot"]
    /\ read = [c \in Containers |-> None]
    /\ done = [c \in Containers |-> 0]
    /\ crashes = 0 /\ faults = 0 /\ deploys = 0

Goto(c, label) == pc' = [pc EXCEPT ![c] = label]

\* The alembic of a container is gone, and what it knew.
Forget(c) ==
    /\ read' = [read EXCEPT ![c] = None]
    /\ done' = [done EXCEPT ![c] = 0]

-----------------------------------------------------------------------------
(* Settings                                                                *)

FixedKey(key) == IF key = "sslmode" THEN "ssl" ELSE key

\* The driver's scheme for the two that providers hand out.
FixedScheme(scheme) ==
    IF scheme \in {"postgres", "postgresql"} THEN "postgresql+asyncpg" ELSE scheme

\* parse_qsl unescapes a parameter, and urlencode escapes what it has to.
Rewritten(p) == [p EXCEPT !.key = FixedKey(p.key), !.escaped = p.text = "reserved"]

FixDbSchemeKeepsBinding(u) ==
    [u EXCEPT !.scheme = FixedScheme(u.scheme),
              !.params = {Rewritten(p) : p \in {q \in u.params : q.text # "blank"}}]

FixDbSchemeOfOneKind(u) ==
    [u EXCEPT !.scheme = IF @ = "postgresql" THEN "postgresql+asyncpg" ELSE @,
              !.params = {Rewritten(p) :
                 p \in {q \in u.params : q.text # "blank" /\ q.key # "channel_binding"}}]

\* _fix_db_scheme: the driver's scheme, `ssl` for `sslmode`, no `channel_binding`;
\* parse_qsl drops blank values.
FixDbScheme(u) ==
    [u EXCEPT !.scheme = FixedScheme(u.scheme),
              !.params = {Rewritten(p) :
                 p \in {q \in u.params : q.text # "blank" /\ q.key # "channel_binding"}}]

\* set_main_option of env.py: ConfigParser takes a % for an interpolation.
Interpolates(u) == u.encoded \/ \E p \in u.params : p.escaped

\* What SQLAlchemy makes an async engine for here, and what asyncpg connects with.
MakesEngine(u) == u.scheme = "postgresql+asyncpg"

Connects(u) == MakesEngine(u) /\ \A p \in u.params : p.key \in {"ssl", "option"}

FailureIgnored == "exec"

\* `set -e`: a command that fails ends the container.
Failure == "failed"

\* entrypoint.sh up to alembic's connection.
Boot(c) ==
    /\ pc[c] = "boot"
    /\ Goto(c, IF c \in Skippers THEN "exec"
               ELSE IF Interpolates(FixDbScheme(url)) \/ ~ Connects(FixDbScheme(url)) THEN Failure
               ELSE "heads")
    /\ UNCHANGED <<version, schema, holder, readers, url, image, read, done, crashes, faults, deploys>>

-----------------------------------------------------------------------------
(* alembic upgrade head                                                    *)

\* The heads: at the head nothing is left to do, and a version that the image does
\* not know is an error.
ReadHeads(c) ==
    /\ pc[c] = "heads"
    /\ read' = [read EXCEPT ![c] = version]
    /\ Goto(c, IF version > image[c] THEN Failure
               ELSE IF version = image[c] THEN "exec" ELSE "upgrade")
    /\ UNCHANGED <<version, schema, holder, readers, url, image, done, crashes, faults, deploys>>

\* The first DDL is sent, and queues for its locks.
Upgrade(c) ==
    /\ pc[c] = "upgrade"
    /\ Goto(c, "waiting")
    /\ UNCHANGED <<version, schema, holder, readers, url, image, read, done, crashes, faults, deploys>>

\* The locks are there: the DDL of the first revision that was missing, which
\* fails when somebody else has committed it since.
FirstRevision(c) ==
    /\ pc[c] = "waiting" /\ holder = None
    /\ read[c] > 0 => readers = {}
    /\ \/ /\ read[c] + 1 \in schema
          /\ Goto(c, Failure)
          /\ UNCHANGED <<holder, done>>
       \/ /\ read[c] + 1 \notin schema
          /\ holder' = c
          /\ done' = [done EXCEPT ![c] = read[c] + 1]
          /\ Goto(c, "migrate")
    /\ UNCHANGED <<version, schema, readers, url, image, read, crashes, faults, deploys>>

NextRevisionCommits(c) ==
    /\ pc[c] = "migrate" /\ done[c] < image[c]
    /\ done' = [done EXCEPT ![c] = @ + 1]
    /\ schema' = schema \cup {done[c]}
    /\ UNCHANGED <<version, holder, readers, url, image, pc, read, crashes, faults, deploys>>

\* The next one, in the same transaction.
NextRevision(c) ==
    /\ pc[c] = "migrate" /\ done[c] < image[c]
    /\ done' = [done EXCEPT ![c] = @ + 1]
    /\ UNCHANGED <<version, schema, holder, readers, url, image, pc, read, crashes, faults, deploys>>

\* The commit of the revisions together with their version.
Commit(c) ==
    /\ pc[c] = "migrate" /\ done[c] = image[c]
    /\ version' = image[c]
    /\ schema' = schema \cup (read[c] + 1)..image[c]
    /\ holder' = None
    /\ Goto(c, "exec")
    /\ UNCHANGED <<readers, url, image, read, done, crashes, faults, deploys>>

\* exec "$@": the program imports db/session.py, which makes the engine and does
\* not connect.
Exec(c) ==
    /\ pc[c] = "exec"
    /\ Goto(c, IF MakesEngine(FixDbScheme(url)) THEN "serving" ELSE Failure)
    /\ Forget(c)
    /\ UNCHANGED <<version, schema, holder, readers, url, image, crashes, faults, deploys>>

-----------------------------------------------------------------------------
(* Requests, and the platform                                              *)

\* A container whose DDL holds or awaits the exclusive lock on users.
Alters(c) == pc[c] \in {"waiting", "migrate"} /\ read[c] > 0

StartRequest(c) ==
    /\ pc[c] = "serving" /\ c \notin readers
    /\ 1 \in schema
    /\ \A d \in Containers : ~ Alters(d)
    /\ readers' = readers \cup {c}
    /\ UNCHANGED <<version, schema, holder, url, image, pc, read, done, crashes, faults, deploys>>

EndRequest(c) ==
    /\ c \in readers
    /\ readers' = readers \ {c}
    /\ UNCHANGED <<version, schema, holder, url, image, pc, read, done, crashes, faults, deploys>>

\* A container ends: PostgreSQL rolls its transactions back.
Rollback(c) ==
    /\ holder' = IF holder = c THEN None ELSE holder
    /\ readers' = readers \ {c}
    /\ Forget(c)
    /\ UNCHANGED <<version, schema, url>>

Crash(c) ==
    /\ crashes < MaxCrashes
    /\ pc[c] \notin {"failed", "lost", "died"}
    /\ Goto(c, "died")
    /\ crashes' = crashes + 1
    /\ Rollback(c)
    /\ UNCHANGED <<image, faults, deploys>>

\* The database refuses or drops alembic's connection, or Redis that of the app's
\* lifespan: the container ends.  A commit may have been done by then, its
\* acknowledgement lost.
LoseConnection(c) ==
    /\ faults < MaxFaults
    /\ pc[c] \in {"heads", "upgrade", "waiting", "migrate", "exec"}
    /\ Goto(c, "lost")
    /\ faults' = faults + 1
    /\ \/ UNCHANGED <<version, schema>>
       \/ /\ pc[c] = "migrate" /\ done[c] = image[c]
          /\ version' = image[c]
          /\ schema' = schema \cup (read[c] + 1)..image[c]
    /\ holder' = IF holder = c THEN None ELSE holder
    /\ Forget(c)
    /\ UNCHANGED <<readers, url, image, crashes, deploys>>

\* Another image is rolled out, or back.
Deploy(c) ==
    /\ deploys < MaxDeploys
    /\ \E n \in Images \ {image[c]} : image' = [image EXCEPT ![c] = n]
    /\ Goto(c, "boot")
    /\ deploys' = deploys + 1
    /\ Rollback(c)
    /\ UNCHANGED <<crashes, faults>>

Restart(c) ==
    /\ pc[c] \in {"failed", "lost", "died"}
    /\ Goto(c, "boot")
    /\ Forget(c)
    /\ UNCHANGED <<version, schema, holder, readers, url, image, crashes, faults, deploys>>

Progress(c) ==
    \/ Boot(c) \/ ReadHeads(c) \/ Upgrade(c) \/ FirstRevision(c) \/ NextRevision(c)
    \/ Commit(c) \/ Exec(c) \/ Restart(c)

Next == \E c \in Containers :
    \/ Boot(c) \/ ReadHeads(c) \/ Upgrade(c) \/ FirstRevision(c) \/ NextRevision(c)
    \/ Commit(c) \/ Exec(c) \/ Restart(c)
    \/ StartRequest(c) \/ EndRequest(c) \/ Crash(c) \/ LoseConnection(c) \/ Deploy(c)

Spec == Init /\ [][Next]_vars

(* A container's commands go on, one that ended is restarted, and requests *)
(* end.  Nobody has to send one, to crash, or to deploy, and no connection *)
(* has to fail.                                                            *)
Fairness == \A c \in Containers : WF_vars(Progress(c)) /\ WF_vars(EndRequest(c))

FairSpec == Spec /\ Fairness

-----------------------------------------------------------------------------
(* Properties                                                              *)

(* However many containers migrate at once, and wherever one dies, what is *)
(* committed is exactly the schema of the committed version: no revision   *)
(* is there without those before it, none twice and none by halves.        *)
SchemaAtVersion == schema = 1..version

(* "blocks the start of the app until migrations finish" (entrypoint.sh:6): *)
(* an app that did not skip them runs on a schema that has what its models *)
(* need, though images older and newer than its own come and go.           *)
ServingMigrated ==
    \A c \in Containers \ Skippers : pc[c] = "serving" => 1..image[c] \subseteq schema

\* A URL of PostgreSQL with no % before its query and, once config.py has dropped and
\* renamed what it knows, no parameter that the driver refuses or that needs a %.
Supported(u) ==
    /\ u.scheme # "other" /\ ~ u.encoded
    /\ \A p \in u.params :
          p.key # "channel_binding" /\ p.text # "blank" => p.key # "foreign" /\ p.text = "word"

(* "Multiple replicas starting at once is safe" (entrypoint.sh:10), though *)
(* no row is locked: a container that is not cut off from its database     *)
(* and got as far as reading the version fails only because its image is   *)
(* older than what it read, or because another has migrated since.  One    *)
(* that did not get so far has a URL that is not supported.                *)
FailuresExplained ==
    \A c \in Containers : pc[c] = "failed" =>
        \/ read[c] = None /\ ~ Supported(url)
        \/ read[c] # None /\ (read[c] > image[c] \/ version > read[c])

(* "they restart the container until it stays healthy" (entrypoint.sh:7):  *)
(* once deployments cease, every container whose image is not older than   *)
(* the database comes to serve and stays, whatever races its start lost.   *)
EventuallyServing ==
    \A c \in Containers : Supported(url) =>
        <>[](image[c] >= version => pc[c] = "serving")

=============================================================================
