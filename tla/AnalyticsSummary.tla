-------------------------- MODULE AnalyticsSummary --------------------------
(***************************************************************************)
(* compute_summary of app/services/analytics.py: four queries over a       *)
(* user's jobs and the arithmetic on their results.  The queries are       *)
(* statements of one READ COMMITTED transaction, each with a snapshot of   *)
(* its own, and jobs.py commits inserts, updates and deletions in between. *)
(*                                                                         *)
(* Simplifications.  Of a job only the owner, the status and the day of    *)
(* its creation matter, counted from the `now` that the summary reads      *)
(* first; the table says how many jobs there are of each kind.  A day may  *)
(* be 0 or later: created_at is the database's clock, `now` the server's.  *)
(***************************************************************************)
EXTENDS Integers, FiniteSets

CONSTANTS
    User,        \* whose summary it is
    Others,      \* the other users
    Times,       \* the days on which jobs may have been created
    Recent,      \* those on which a job committed from now on may have been
    RangeKeys,   \* the values of `range` in the request
    TieUp(_, _), \* whether n of d, half-way between two per cents, goes up
    None,        \* Python's None
    Tables,      \* the tables there may be when the summary begins
    MaxWrites    \* bound: changes of the table while it is computed

Statuses == {"applied", "interview", "offer", "rejected"}
Jobs == [owner : Others \cup {User}, status : Statuses, created : Times]

\* As many of each x as f says, told apart: <<x, 1>> to <<x, f[x]>>.
Rows(f, S) == UNION {{x} \X (1 .. f[x]) : x \in S}

ASSUME SummaryAssumption ==
    /\ Times \subseteq Int /\ Recent \subseteq Times
    /\ User \notin Others
    /\ \A t \in Tables : t \in [Jobs -> Nat] /\ IsFiniteSet(Rows(t, Jobs))
    /\ None \notin Int
    /\ MaxWrites \in Nat

VARIABLES
    table,     \* how many jobs there are of each kind
    days,      \* the length of the period, in days
    next,      \* the next query, or "done"
    curr,      \* jobs of the period per status
    prev,      \* jobs of the period before it per status
    weekly,    \* jobs of the period per week
    all,       \* jobs per status
    since,     \* history: the user's jobs inserted, changed and deleted since
               \* the first query, and those it found created at `now` or later
    writes     \* history: all changes since then

vars == <<table, days, next, curr, prev, weekly, all, since, writes>>

Queries == <<"current", "previous", "weekly", "funnel", "done">>

Zero(S) == [x \in S |-> 0]

\* to_char(created_at, 'IYYY-"W"IW'), week 0 being that of day 0.
Week(t) == t \div 7
Weeks == {Week(t) : t \in Times}

RangeToDays(key) ==
    CASE key = "7d" -> 7 [] key = "90d" -> 90 [] OTHER -> 30

Init ==
    /\ table \in Tables
    /\ \E key \in RangeKeys : days = RangeToDays(key)
    /\ next = 1
    /\ curr = Zero(Statuses) /\ prev = Zero(Statuses) /\ all = Zero(Statuses)
    /\ weekly = Zero(Weeks)
    /\ since = [inserted |-> 0, changed |-> 0, deleted |-> 0, late |-> 0]
    /\ writes = 0

-----------------------------------------------------------------------------
(* The queries                                                             *)

\* COUNT(*)
CountOf(js) == Cardinality(Rows(table, js))

\* Job.user_id == user_id
Own(j) == j.owner = User

\* Job.created_at >= start
Since(j, start) == j.created >= start

\* The query of counts_in, over [start, end).
CountsIn(start, end) ==
    [s \in Statuses |->
        CountOf({j \in Jobs : Own(j) /\ j.status = s /\ Since(j, start) /\ ~ Since(j, end)})]

CountCurrent ==
    /\ Queries[next] = "current"
    /\ curr' = CountsIn(- days, 0)
    /\ since' = [since EXCEPT !.late = CountOf({j \in Jobs : Own(j) /\ Since(j, 0)})]
    /\ UNCHANGED <<prev, weekly, all>>

CountPrevious ==
    /\ Queries[next] = "previous"
    /\ prev' = CountsIn(-2 * days, - days)
    /\ UNCHANGED <<curr, weekly, all, since>>

CountWeeklyOfAnyone ==
    /\ Queries[next] = "weekly"
    /\ weekly' = [w \in Weeks |-> CountOf({j \in Jobs : Week(j.created) = w /\ Since(j, - days)})]
    /\ UNCHANGED <<curr, prev, all, since>>

\* GROUP BY week; unlike counts_in it has no upper bound.
CountWeekly ==
    /\ Queries[next] = "weekly"
    /\ weekly' = [w \in Weeks |->
          CountOf({j \in Jobs : Own(j) /\ Week(j.created) = w /\ Since(j, - days)})]
    /\ UNCHANGED <<curr, prev, all, since>>

CountFunnel ==
    /\ Queries[next] = "funnel"
    /\ all' = [s \in Statuses |-> CountOf({j \in Jobs : Own(j) /\ j.status = s})]
    /\ UNCHANGED <<curr, prev, weekly, since>>

Query ==
    /\ CountCurrent \/ CountPrevious \/ CountWeekly \/ CountFunnel
    /\ next' = next + 1
    /\ UNCHANGED <<table, days, writes>>

-----------------------------------------------------------------------------
(* The summary                                                             *)

\* sum(d.values())
Total(d) == d["applied"] + d["interview"] + d["offer"] + d["rejected"]

PctTruncated(n, d) == IF d = 0 THEN 0 ELSE (100 * n) \div d

\* _pct: the nearest per cent; of two, the one that float arithmetic makes it.
Pct(n, d) ==
    LET down == (100 * n) \div d
        rest == 2 * ((100 * n) % d)
    IN  IF d = 0 THEN 0
        ELSE IF rest > d \/ (rest = d /\ TieUp(n, d)) THEN down + 1
        ELSE down

DeltaOfZero(c, p) == IF c = 0 THEN None ELSE c - p

\* _delta
Delta(c, p) == IF p = 0 THEN None ELSE c - p

ReachedResponse(d) == d["interview"] + d["offer"] + d["rejected"]
ReachedInterview(d) == d["interview"] + d["offer"]

ResponseRate(d) == Pct(ReachedResponse(d), Total(d))
InterviewRate(d) == Pct(ReachedInterview(d), Total(d))

FunnelOfEach == <<Total(all), all["interview"], all["offer"]>>

\* The counts of the three stages.
Funnel == <<Total(all), ReachedInterview(all), all["offer"]>>

Summary ==
    [ total_applications |-> Total(curr),
      applications_delta |-> Delta(Total(curr), Total(prev)),
      response_rate |-> ResponseRate(curr),
      response_delta |-> Delta(ResponseRate(curr), ResponseRate(prev)),
      interview_rate |-> InterviewRate(curr),
      interview_delta |-> Delta(InterviewRate(curr), InterviewRate(prev)),
      weekly |-> weekly,
      funnel |-> Funnel ]

-----------------------------------------------------------------------------
(* Writers                                                                 *)

\* Jobs come and go; the history counts the user's, from the first query on.
Recount(new, own) ==
    /\ writes < MaxWrites /\ writes' = writes + 1
    /\ Queries[next] # "done"
    /\ table' = new
    /\ since' = IF next = 1 THEN since ELSE own
    /\ UNCHANGED <<days, next, curr, prev, weekly, all>>

\* create_job: created_at is when its transaction began.
Insert(j) ==
    /\ j.created \in Recent
    /\ Recount([table EXCEPT ![j] = @ + 1],
               IF j.owner = User THEN [since EXCEPT !.inserted = @ + 1] ELSE since)

\* update_job, update_job_status: another status, the same created_at.
Change(j, s) ==
    LET k == [j EXCEPT !.status = s]
    IN  /\ table[j] > 0 /\ s # j.status
        /\ Recount([table EXCEPT ![j] = @ - 1, ![k] = @ + 1],
                   IF j.owner = User THEN [since EXCEPT !.changed = @ + 1] ELSE since)

\* delete_job
Delete(j) ==
    /\ table[j] > 0
    /\ Recount([table EXCEPT ![j] = @ - 1],
               IF j.owner = User THEN [since EXCEPT !.deleted = @ + 1] ELSE since)

Next ==
    \/ Query
    \/ \E j \in Jobs : Insert(j) \/ Delete(j) \/ \E s \in Statuses : Change(j, s)

Spec == Init /\ [][Next]_vars

-----------------------------------------------------------------------------
(* Properties                                                              *)

Done == Queries[next] = "done"

\* A missing delta says that the rate compared with, n of d, was 0.
Comparable(delta, n, d) == (n = 0 => delta = None) /\ (delta = None => 200 * n <= d)

(* The summary has the shape of schemas/analytics.py, with rates that are  *)
(* percentages.  The number of applications has no delta exactly when the  *)
(* period before had none; a rate has none when none of that period's jobs *)
(* got so far, and otherwise only if so few did that the rate rounded to 0.*)
TypeOK ==
    /\ table \in [Jobs -> Nat]
    /\ next \in DOMAIN Queries
    /\ since \in [{"inserted", "changed", "deleted", "late"} -> Nat]
    /\ Summary \in
          [ total_applications : Nat, applications_delta : Int \cup {None},
            response_rate : 0 .. 100, response_delta : -100 .. 100 \cup {None},
            interview_rate : 0 .. 100, interview_delta : -100 .. 100 \cup {None},
            weekly : [Weeks -> Nat], funnel : Nat \X Nat \X Nat ]
    /\ (Summary.applications_delta = None) <=> (Total(prev) = 0)
    /\ Comparable(Summary.response_delta, ReachedResponse(prev), Total(prev))
    /\ Comparable(Summary.interview_delta, ReachedInterview(prev), Total(prev))

(* Numbers on one page that contradict each other (analytics.py:51): the   *)
(* rates round separately and the funnel is counted apart, and still no    *)
(* more jobs are shown to have reached an interview than an answer, nor an *)
(* offer than an interview.                                                *)
StagesOrdered ==
    /\ Summary.interview_rate <= Summary.response_rate
    /\ Summary.funnel[3] <= Summary.funnel[2] /\ Summary.funnel[2] <= Summary.funnel[1]

\* rate % of d and n differ by half a per cent of d at most.
Nearest(rate, n, d) ==
    LET off == 100 * n - rate * d
    IN  -d <= 2 * off /\ 2 * off <= d

(* The rates of a period and the shares they stand for, jobs answered and  *)
(* jobs that got to an interview, differ by half a per cent at most,       *)
(* whatever the number of jobs (analytics.py:22).                          *)
RatesNearest ==
    \A d \in {curr, prev} :
        /\ Nearest(ResponseRate(d), Total(d) - d["applied"], Total(d))
        /\ Nearest(InterviewRate(d), Total(d) - d["applied"] - d["rejected"], Total(d))

(* The four snapshots of one summary (analytics.py:51) disagree by no more *)
(* than what the user's own requests committed since the first of them,    *)
(* and by the jobs that the database dates after the server's `now`, which *)
(* the weekly chart counts and the total does not.                         *)
DriftBounded ==
    LET chart == Cardinality(Rows(Summary.weekly, Weeks))
        applied == Summary.funnel[1]
    IN  Done =>
          /\ Total(curr) <= chart + since.deleted
          /\ chart <= Total(curr) + since.inserted + since.late
          /\ Total(curr) + Total(prev) <= applied + since.deleted
          /\ chart <= applied + since.deleted
          /\ ReachedInterview(curr) + ReachedInterview(prev)
                <= Summary.funnel[2] + since.changed + since.deleted

=============================================================================
