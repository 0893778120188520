# JobTracker backend: TLA+ models and proofs

JobTracker is a FastAPI service with PostgreSQL (SQLAlchemy, asyncio), Redis (a
cache, rate-limit counters and the arq queue) and one arq worker. The API runs as
several processes, and within each process handlers interleave at every `await`.
This directory models what that concurrency, together with failures, can do to the
data the service keeps, and what it cannot.

Paths below are relative to the repository.

## The system

| Component | Source | State | Operations | What makes it correct |
|---|---|---|---|---|
| Rate limiter | `app/core/rate_limit.py` | Redis keys `rl:{scope}:{user}` with a count and an expiry | `_check`: INCR, EXPIRE, TTL | a window admits exactly `max_requests`, ends when it should, and Retry-After is true |
| Analytics cache | `app/core/cache.py`, `app/api/v1/analytics.py` | Redis keys `analytics:user:{id}:{range}` | lookup, compute, store; SCAN and DELETE | no summary outlives a write unexplained, and none for ever |
| Jobs API | `app/api/v1/jobs.py` | table `jobs` | create, get, update, status, delete, list | writes stay with the owner and with the fields sent; every write wipes the cache |
| Follow-up reminders | `app/workers/`, `app/api/v1/admin.py`, `app/core/queue.py` | arq's queue | daily or manual scan, one reminder task per stale job | reminders go to the owner, do not multiply without bound, and do come |
| Accounts | `app/api/v1/auth.py`, `app/api/deps.py`, `app/core/security.py` | table `users`, JWTs held by clients | signup, login, `get_current_user` | one account per email; nobody acts as somebody else or after expiry |
| Profile resume | `app/api/v1/profile.py`, `app/services/resume_parser.py` | two columns of `users` | save, delete, get; fallback of the cover letter | text and file name belong together |
| Interview preparation | `app/api/v1/interview.py`, `app/api/v1/ai.py` | sessions, questions, answers | generate, list, save an answer | sessions are whole, answers are one per question and the owner's |
| AI routes and client | `app/api/v1/ai.py`, `app/services/ai_client.py` | `_openai_client`, `_openai_import_failed`, `resume_matches` | resume match, questions, cover letter | a usable result whatever the AI does, a record that agrees with it, bounded cost |
| Analytics computation | `app/services/analytics.py` | none (reads `jobs` four times) | `compute_summary` | numbers that fit together |
| ORM sessions | `app/db/` | sessions, connection pool | load, flush, commit, close | what is flushed is what was asked; connections come back |
| Migrations, start-up | `entrypoint.sh`, `alembic/` | `alembic_version`, the schema, locks on `users` | `upgrade head`, then the app | replicas that start together end at the head and serve |
| Configuration | `app/core/config.py` | none | URL rewriting | the URL asyncpg gets is one it accepts |
| Health probe | `app/main.py` | none (needs a connection) | `health` | it says whether the database answers |
| Email, schemas, deployment files | `app/services/email.py`, `app/schemas/` | none | | |

Interactions. Every route but signup and login runs `get_current_user` first
(`Accounts`), in the same session as the handler: the user row is loaded before the
handler begins, which `Profile` shows to matter. The AI routes run the rate limiter
next (`RateLimiter`), and keep the connection of that first statement while they wait
for the AI (`AiRequests`); the same open transaction is what a migration of `users` has
to wait for (`Migrations`). The job handlers wipe the cache that the analytics endpoint
fills (`JobsApi` composes both). The worker reads the `jobs` table that the job
handlers change (`Reminders`), and its queue is in the same Redis, which
`docker-compose.yml` runs without a volume: when it restarts, counters, cache and
queue are gone.

Hard behaviours. (1) Any two requests of one user interleave between statements and
Redis commands. (2) A session loads a row, and its UPDATE later names only the columns
whose value differs from what it loaded; a value that another request has changed in
the meantime is neither noticed nor overwritten. (3) Processes die, and calls to Redis
or PostgreSQL fail, between two commands that belong together. (4) Redis loses its
data. (5) arq runs a task again when the worker died over it, does not when it raised,
and removes no duplicates. (6) Keys expire under the feet of a handler. (7) The AI
replies what it likes, late, and its reply is checked in some places and not in others.
(8) A response is made of several statements, each with a snapshot of its own.
(9) Containers of different images start, die and are replaced while they share one
database.

## Modules

| Module | Models | Extends or uses |
|---|---|---|
| `FixedWindow` | what the limiter promises: charge and judge in one step, an allowance per window | |
| `RateLimiter` | `_check`, one action per Redis command, with ticks, restarts and handlers that die half way | `Limit == INSTANCE FixedWindow` |
| `AnalyticsCache` | the cache-aside protocol: what a writer and a reader promise each other; rows are abstracted to the number of writes committed | |
| `UnitOfWork` | what a SQLAlchemy session flushes | |
| `JobsApi` | the handlers of `jobs.py` on real rows, with the steps of `AnalyticsCache` for what they do to the cache, and which rows each cached summary was computed from | `AnalyticsCache`, `UnitOfWork` |
| `Reminders` | scans, reminder tasks, the queue, and users changing jobs meanwhile | |
| `Accounts` | signup, login, tokens, `get_current_user` | |
| `Profile` | the saved resume | `UnitOfWork` |
| `Interviews` | generating sessions, saving answers and listing both, on one state | |
| `AiRequests` | the AI routes and the health probe in one process: limiter, connection pool, OpenAI client, reply, record, response | |
| `AnalyticsSummary` | `compute_summary`: its four queries and its arithmetic, while jobs change | |
| `Migrations` | containers from `entrypoint.sh` to serving, alembic's transaction, the rewriting of `DATABASE_URL`, requests that hold a lock, deaths, lost connections and deployments | |
| `*Proofs` | theorems about the modules they extend: `JobsApiProofs` covers `AnalyticsCache` too, `AccountsProofs` covers `Profile` | `TLAPS` |
| `MC*` | values and symmetry for TLC, where a component needs them | the module they instantiate |

How to read them. `pc[r]` (`step[r]` in `AnalyticsCache`, `at[r]` in `Profile`, so that
these can be extended together with others) is where the handler of
request `r` is suspended, or its outcome. One action is what a handler does between
two points where others may come in: a statement with the commit that follows it
(PostgreSQL holds the row or the index entry in between), or one Redis command. A
request is made once; a client that retries is another request. Variables whose
comment says "history" are read by properties, never by guards. Definitions that
stand before another one and differ from it by a plausible mistake (`VerdictOneTooMany`
before `Verdict`, `InsertUserUnchecked` before `InsertUser`) are used by no action:
they are mutants, and for each property of a passing run PROJECT.json names one under
which TLC finds it violated.

What the models take from outside the repository is marked external in PROJECT.json:
Redis (INCR keeps an expiry, EXPIRE does nothing without a key, TTL rounds to the
nearest second and says -1 without expiry, -2 without key; SCAN returns every key that
is there throughout, and perhaps others), SQLAlchemy (`UnitOfWork`; an UPDATE of a row
that is gone raises, a DELETE does not; refresh of a row that is gone raises),
PostgreSQL (READ COMMITTED, constraints, DDL in transactions that waits for locks) and
arq (five tries for a task, one for a cron job).

Abstractions stand between some modules. `AiRequests` charges and judges in one step,
as `FixedWindow` does, and `RateLimiter` is shown to implement `FixedWindow`.
`JobsApi` is built from the steps of `AnalyticsCache`, so that what is proved of the
cache holds of it; that rows and cache belong together, which does not follow from that,
is `OutdatedExplained`. The cache's single "compute" step is dated by the first query of
`AnalyticsSummary`. `AiRequests` only says that a
reply is usable or not; what becomes of a list of questions is `Interviews`. Tokens are
valid everywhere but in `Accounts`.

## Runs

Runs that must pass, one per component:

| Run | Shows | Instance, and why it is enough |
|---|---|---|
| `limiter_safety` | `TypeOK`, `AdmittedPerWindow`, `LimitExact`, `RetryAfterHonest`, `ResetPending`, `DeadlineStable`, `WindowsSpaced`, `ImplementsFixedWindow` | four requests, two users, a limit of 2, windows of two seconds at three ticks to a second, so that TTL rounds both ways; one restart, one death: a window can overflow by two requests, be lost half way and begin again. Proved for all instances |
| `cache_safety` | `SurvivorsStoredLater`, `StaleExplained`; `EventuallyFresh` under fairness | three requests, two users, two ranges, failures and restarts: two writers and a reader of one user, or any mixture. The safety properties are proved for all instances |
| `jobs_safety` | `TypeOK`, `OutdatedExplained`, `LastWriterWipes`, `UndoneOnlyByPatch`, `WritesConfined` | three requests, two users, two ids: a writer overtaken by an update and a deletion, or a chain of two PATCHes over a create. Bodies cover a full body, single fields, a null that is allowed and one that is not. Proved for all instances |
| `reminders_safety` | `RemindersAddressed`, `EmailsBounded`; `StaleReminded` under fairness | one job that either of two users may own, room for a scan and a reminder at once, endless days and scans, three faults: every try of a scan and of its reminders can be used up. The safety properties are proved for all instances |
| `accounts_safety` | `OneAccountPerEmail`, `ActsAsOwner` | three requests: two racing signups and a login, or a signup, its token and its expiry. Proved for all instances |
| `profile_safety` | `WholeUnlessShared` | three requests, four resumes of which pairs share a text or a name. Proved for all instances |
| `interviews_safety` | `TypeOK`, `SessionsWhole`, `ListingWhole`, `AnswersOwned`, `RepliesTrue` | three requests of two users, each of any kind; one session from the start, so that three answers can race, or two race while a listing is between its snapshots; replies that are too long, misnumbered, or without a text within or beyond the count. Proved for all instances |
| `migrations_safety` | `SchemaAtVersion`, `ServingMigrated`, `FailuresExplained`; `EventuallyServing` under fairness | two containers that migrate and one that does not, images of either of the two revisions, an empty or older database, one death, one lost connection and one deployment: a race for either revision, a loser that dies as well, a commit nobody heard of, a rollout and a rollback. Seven URLs: a local one, a provider's with `sslmode` and `channel_binding`, a word that is escaped without need, an escaped password, `?host=/cloudsql/...`, a parameter of libpq only, another driver's. The safety properties are proved for all instances |
| `ai_safety` | `TypeOK`, `PoolAccounted`, `OutcomesExplained`, `CostBounded`; `EveryoneAnswered` under fairness | two requests of one user or two, on any route; one connection, so that one starves the other and a request that took two would wait for itself; one request per window, two windows; one death of the process. The safety properties are proved for all instances |
| `summary_safety` | `TypeOK`, `StagesOrdered`, `RatesNearest`, `DriftBounded` | four tables, of none to eight jobs: thirds, eighths that end in half a per cent, jobs on both ends of every period, after `now`, and of somebody else; any two changes between the queries. Proved for all instances |

Symmetry is used where a run checks no liveness property.

Bounds. `MaxRestarts`, `MaxCrashes` and `MaxFaults` bound failures; `MaxScans` and
`MaxEmails` are where counters saturate, so that `Reminders` can go on for ever;
`Days`, `age`, `expiry` and `wait` saturate or end at the first value that no property
tells from later ones. `Reminders` has bounded room for tasks and keeps one place for
reminders, since scans that fill the room would block each other, which arq's queue
does not do. `MaxWindows` and `MaxDeploys` bound windows and deployments, `MaxWrites`
the changes during one summary. Everything else is finite because requests are.
Deadlock is not checked where every request may have ended and nothing else moves
(`Profile`, `Interviews`, `AiRequests`, `AnalyticsSummary`); elsewhere time goes on, or
containers do.

Runs that must find a violation, each of what the repository says of itself:

| Run | Statement | What happens |
|---|---|---|
| `limiter_lost_expire` | `rate_limit.py:47`: "set TTL so the key auto-resets" | a handler dies between INCR and EXPIRE; the key never resets and the user is refused for ever |
| `reminders_applied` | `tasks.py:20`: stale means "in `applied` for this many days" | a job without `applied_at` is never stale, and the server never sets it |

Other disagreements, seen in the source while modelling; the models contain the
behaviour, and no run is kept for them:

* `rate_limit.py:55`, "Try again in {max(ttl, 1)}s.": a refusal that reads the TTL before
  the window's first request has sent its EXPIRE gets -1 and announces one second.
  `RetryAfterHonest` excludes it.
* `jobs.py:20`, "Wipe any cached analytics for this user": a reader that queried before
  a write and stores after its wipe leaves the old numbers for up to five minutes.
  `StaleExplained` names this as one of two causes, and `EventuallyFresh` says it ends.
* `jobs.py:112`, "Change just the status": a PATCH to the value it loaded sends no
  UPDATE, and another request's value stays. So may any PATCH be undone, but
  only by one that asked for another value (`UndoneOnlyByPatch`).
* `profile.py:27`, "Upload and save resume to profile": in the same way a save that
  shares its text or its name with the resume it loaded leaves that column to whoever
  changed it meanwhile. `WholeUnlessShared` says when this cannot tear a resume.
* `auth.py:33`, "a clean 409 instead of a generic IntegrityError": two signups that both
  pass the check; one gets a 500 (`InsertUser`).
* `interview.py:30`, "Upsert the answer": two first answers race; one gets a 500 (`Insert`
  of `Interviews`).
* `resume_parser.py:13`, "Raises 400 on failure": only `PdfReadError` is caught. Whatever else
  pypdf raises on an odd PDF is a 500, on the AI routes after the limiter has charged the
  request (`Handle` of `AiRequests`, `Parse` of `Profile`).
* `ai_client.py:5`, "a usable result instead of a 500": a reply without the expected keys,
  an item without a text, or a score that no column holds gets a 500, and a score outside
  0-100 gets one after it was stored. `OutcomesExplained` says which, and what is on record.
* `entrypoint.sh:10`, "Alembic uses a row lock on the `alembic_version` table": it takes
  none. Of two containers that start together on an older database one fails at its
  first DDL and is restarted, so the conclusion, that it is safe, holds
  (`SchemaAtVersion`, `EventuallyServing`), though not for the stated reason.
* `config.py:30`, "so the app works on both local Docker [...] and cloud providers": the app
  takes a URL with an escaped password, but `env.py:31` hands it to a ConfigParser, which
  refuses the `%`; the container fails in every start. So it does with a query that had no
  `%` when it was pasted, such as `?host=/cloudsql/p:r:i`: `config.py:54` puts it together
  again with `urlencode`, which escapes the slashes and colons. And of the libpq-only
  parameters that asyncpg refuses only two are dealt with. `Supported`, in
  `FailuresExplained` and `EventuallyServing`, says of the pasted URL what it takes.
* `schemas/analytics.py:25`, "% of jobs that reached 'interview' or beyond": a job that was
  rejected after its interview does not count, because only the present status is kept.
* `mixins.py:12`, "client clocks don't matter": the server's does. A job dated by the database
  after the server's `now` is in the weekly chart, which has no upper bound, and in no
  total (`late` in `DriftBounded`).
* `analytics.py:22` rounds a quotient of floats: 23 of 40 is 57 per cent although
  57.5 rounds to the even 58. `AnalyticsSummary` leaves the ties open (`TieUp`).
* `main.py:88`, "DB + Redis connectivity probe": it also reports `fail` when the process has
  no free connection, with the database in good health (`PoolTimeout`).
* `admin.py:7`, "they only operate on their own data": a manual scan covers the jobs of
  all users (`StartScan`).

Fairness. Handlers that are not dead go on (asyncio resumes them), keys expire and
days pass: weak fairness on each. The cron job is strongly fair, because in the model
the place it needs can be taken and freed again for ever. Clients owe nothing, and
failures are never fair. `WindowsReset` fails although every handler that lives
reaches its EXPIRE; `EventuallyFresh` needs expiry and that handlers finish.
`StaleReminded` needs a worker that is restarted when it dies (`restart:
unless-stopped` in `docker-compose.yml`); `render.yaml` deploys without a worker, and
there no reminder is ever sent. `EventuallyServing` needs what `entrypoint.sh:7` says of
the platform, that containers are restarted, and that requests end, without which an
ALTER TABLE waits for ever; connections may be lost, but not for ever (`MaxFaults`): the
database can be reached in the end. It holds although nobody keeps a loser of a race from losing
another, because each of these is won by somebody and there are finitely many
revisions. `EveryoneAnswered` needs that the event loop goes on with every request that can
go on and that a call to OpenAI ends, for which its client has a timeout; it needs no
timeout of the pool, which the specification allows but does not force.

## Proofs

TLAPS proves, for all values of the constants that satisfy the named assumptions:

* `RateLimiterProofs`: `TypeCorrect`, `AdmissionBounded`, `RefusalJustified`,
  `DeadlineNeverMoves`, `AllowancesSpaced`, `RetryAfterCovers`, `UnexpiringExplained`,
  `LimiterImplementsWindow`. Neither admission bound
  is inductive. The strengthening `CountInv` says that the requests of one window
  have distinct counts (`Distinct`), at most the key's counter while the window is
  current (`Ordered`), that every number up to a count was handed out in its window (`Gapless`), and that
  the verdict follows the count (`Decided`). At most `MaxRequests` distinct counts
  lie in `1..MaxRequests`, which bounds admission; and a refusal has a count above the limit
  and below it no gap, so the limit is exact. The deadline theorems rest on `Timed`: as
  long as no data was lost, a window that has an expiry is exactly `Window - expiry`
  ticks old, and an EXPIRE still to come belongs to the window that is open.
  `RetryAfterCovers` adds `Awaited`, which ties a client's wait to the expiry it was read from.
  The refinement of `FixedWindow` maps INCR to `Decide`, the commands after it to stutters
  or `Answer`, and a tick to `Tick`, which may close only windows that are old
  enough: again `Timed`.
* `JobsApiProofs`, of the cache: `CacheTypeCorrect`, `WipesAreComplete`, `StalenessHasACause`. The
  strengthening `WipeInv` says that what is left in the cache from before a writer's
  commit is on the list of keys its SCAN must still return (`must`), until the wipe is
  over and the list is empty; `Authored` says that every rev was committed by some
  request, which names the writer that `StaleExplained` needs.
* `JobsApiProofs`, of the handlers: `TypeCorrect` (with NOT NULL), `OutdatedHasACause`,
  `LastWriterOwes`, `WritesAreConfined`, `UndoingIsAsked`. `ApiInv` links a handler's
  place to its writer's place in the protocol (`Linked`), keeps a loaded row's owner
  equal to the requester for as long as the id exists (`Targeted`, which is why an
  ownership check and a later write need not be one transaction), and says that a
  handler that fails in its refresh was overtaken by a later write (`Overtaken`).
  The invariants of the cache hold of the handlers by a lemma (`ImplementsCache`): the
  handlers are built from its steps.
  For `OutdatedHasACause`, `Recorded` ties the rows to the revs: what a reader found is
  what the table still has of its user, as long as nobody has committed a write since
  (`WritesNumbered`: no step changes a user's rows without a new rev). So an entry that shows
  other rows is older than the last write or was overtaken before its SET, and
  of the last writer `LastWriterKnown` says where it is: before its wipe of that key, or crashed.
  For `UndoingIsAsked`, `Accounted` says that a field has the value its writer
  loaded or sent, unless another PATCH of the same user sent what is there; an
  UPDATE that names only changed columns preserves that.
* `InterviewsProofs`: `TypeCorrect`, `SessionsAreWhole`, `AnswersAreOwned`,
  `ListingsAreWhole`, `RepliesAreTrue`. What a handler holds between two statements stays
  true of the tables: a committed session never changes, an answer never changes its
  question, who changed its text since it was read is on the list `during` (`Traced`), and
  what the row has held since a save committed is in its `held` (`Stored`).
* `AccountsProofs`: `TypeCorrect`, `EmailsAreUnique`, `OwnersAct`. A row is what one signup
  sent, and a token names a row that equals the form it was answered to and
  loses a tick whenever its age gains one.
* `AccountsProofs`, of the resume: `ResumeTypeCorrect`, `ResumesStayWhole`. The invariant adds
  that every row a session holds is whole: between two whole resumes that share nothing,
  or that are the same, a flush writes all or nothing.
* `RemindersProofs`: `TypeCorrect`, `OwnersReminded`, `RetriesBounded`. A row's owner never changes and a
  deleted id is not given out again, so what a scan or a queued task says of a job was read from the
  row and is true until the id is deleted (`Known`).
  `RetriesBounded` is `EmailsBounded`, which is not inductive, because it says nothing of the emails
  that queued tasks will still send. `Left` is what a task may yet send about a job: for a reminder its
  remaining tries; for a scan, for each of its remaining tries, a reminder with all of its
  own. What was sent and what is left are within the bound (`WithinBudget`), as every try
  is paid for by the task that spends it. The sum over a queue of any size is
  written without recursion: each task is laid out in as many `Tokens` as it has left, and the
  tokens are counted, so that a step changes the sum by what it changes of one task
  (`TokensChange`).
* `AiRequestsProofs`: `TypeCorrect`, `ConnectionsAreAccounted`, `OutcomesAreExplained`,
  `CostsAreBounded`. `PoolInv` says that the free connections and those in
  use are the pool, and that only requests at certain places have one. `Journeys` says for
  every place what is known there of the route, the reply and the record. `GrantInv`
  is the limiter's argument in one step: the requests granted in a window are no more than the
  limiter charged in it, nor than the limit; and a request that asked the AI was granted.
* `AnalyticsSummaryProofs`: `TypeCorrect`, `StagesInOrder`, `RatesAreNearest`,
  `SnapshotsDriftLittle`. The first three rest on facts about `Pct` for all naturals,
  whichever way `TieUp` sends the halves: it is within half a per cent (`PctNearest`, from which `PctIsNearest` for both rates and `DeltaComparable` for a
  delta that is missing),
  monotone (`PctMonotone`) and at most 100 for a part of the whole (`PctType`). For
  the last, `Drift` relates, after each query, the numbers already read to the table as it
  is now, with the changes since in between; each query then replaces the table by what it read.
  A COUNT(*) is the cardinality of the rows selected (`Rows`), so that
  counts add up over disjoint sets (`RowsApart`) and a write moves a count by one
  (`RowsChange`); `ChartComplete` says that the weekly bars have all the jobs of the weeks they cover.
* `MigrationsProofs`: `TypeCorrect`, `SchemaIsAtVersion`, `AppsServeMigrated`,
  `FailuresHaveACause`. A transaction that has run DDL started from the version that is still
  committed, because the first DDL of any other fails (`Upgrading`); so versions
  only grow. A commit whose acknowledgement is lost is a commit (`CommitStep`), and a container
  that dies or loses its connection otherwise leaves what is committed alone (`GoneStep`).

The type invariants of `AnalyticsCache`, `Reminders`, `Accounts`, `Profile` and
`Migrations` are proved and in no run. The strengthenings of `AiRequests`, `AnalyticsSummary` and of the
budget of `Reminders` were checked by TLC on their components' instances before they were proved.

Assumptions. Each is named in the module that declares the constant. They say that the sets
of requests, jobs and tasks that are counted are finite, that bounds and limits are naturals
(some of them positive); that the marks `None` stand apart from the values they
replace; and, in `AnalyticsSummary`, that a table has finitely many rows and that what commits
during a summary is dated on days that tables may have. `TieUp` is any operator: nothing is
assumed about how floats round a half. Elsewhere `Pct` is exact, and so is the code's double: a share
of `d` jobs is at least `1/(2d)` per cent away from a half, which is more than the error
of the division and the product for any `d` below 10^12.

Only model-checked: the four liveness properties, `EventuallyFresh`, `StaleReminded`,
`EventuallyServing` and `EveryoneAnswered`, which rest on fairness and so on ENABLED, which these provers do not
reason about. Every other property of a passing run is the statement of a theorem: each
invariant, each action property, and the refinement (`ImplementsFixedWindow`). The two runs that find a violation are counterexamples and need no proof.

## Not modelled

`list_jobs`, the fixed pages of `main.py` and the lifespan, which opens and closes clients,
change nothing. The email sender is a stub that logs; `Reminders` counts its calls. Schemas
beyond the bodies the models read, routers, aliases, CORS and deployment files are
declarations. Bcrypt and HS256 are trusted to do what they say; a PDF may be refused, or make its parser
raise. `CostBounded` counts the calls of the app: what the SDK of OpenAI repeats by itself
after a failure is not seen. A refusal that reads TTL = -1 is excluded from
`RetryAfterHonest`, as said above. The keyword
scorer (`_stub_match_resume`) is a computation on the words of two texts with no state, whose
score of 5 to 98 is a good reply to `AiRequests`. Alembic's downgrades and its
offline mode are run by nothing in the repository. A manual scan covers all users' jobs
(`admin.py:28`), and a cover letter uses the resume that was saved when its request began
(`ai.py:128`): both are in the models, and no property says that they should be otherwise.

## Plan

Done: the cache and the jobs API first, because every user action goes through them;
the limiter and the reminders, which have the subtlest interleavings; the modules
about users' own data; then the limiter's abstract specification, the AI routes with their
pool, the summary's arithmetic, and start-up; then proofs of every safety property.

Next, in this order:

1. `AiRequests` with the three commands of `RateLimiter` in place of its one step, so
   that what `FixedWindow` hides is shown to be harmless there too.
2. The keyword scorer as a pure module, against a definition that does not count words.
