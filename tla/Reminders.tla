----------------------------- MODULE Reminders -----------------------------
(***************************************************************************)
(* The follow-up reminders of app/workers: a daily cron job, or any user   *)
(* through POST /admin/scan-followups, enqueues a scan for stale jobs; the *)
(* scan enqueues one reminder task per stale job; each reminder looks at   *)
(* the job again and sends an email.  Tasks live in arq's Redis queue and  *)
(* run concurrently in the worker, while users go on changing their jobs.  *)
(*                                                                         *)
(* Of arq (external) the model keeps what the tasks rely on: a task stays  *)
(* queued until it ends, one that was running when the worker died is run  *)
(* again, up to MaxTries starts in all, one that raised is not, and        *)
(* nothing removes duplicates.  scans and emails saturate at their bounds, *)
(* so the daily scans can go on for ever in a finite model.                *)
(***************************************************************************)
EXTENDS Naturals, FiniteSets

CONSTANTS
    JobIds,      \* primary keys of jobs
    Users,
    TaskIds,     \* room in the queue
    StaleDays,   \* STALE_DAYS
    MaxTries,    \* arq: how often a task is started at most
    MaxFaults,   \* bound: crashes, restarts and exceptions
    MaxScans,    \* scans saturates here
    MaxEmails,   \* emails saturates here
    None,        \* no applied_at; no such job (yet, any more); a free slot
    Gone,
    Free,
    Cron         \* who triggered a scan that no user triggered

ASSUME DaysAssumption == StaleDays \in Nat
ASSUME BoundsAssumption ==
    MaxTries \in Nat \ {0} /\ MaxFaults \in Nat /\ MaxScans \in Nat \ {0} /\ MaxEmails \in Nat \ {0}
ASSUME NamesAssumption == None \notin Nat /\ Cron \notin Users

\* A number of days, told apart up to the first that is too many.
Days == 0..(StaleDays + 1)
NextDay(d) == IF d <= StaleDays THEN d + 1 ELSE d

\* A job: its owner, whether its status is "applied", the age of applied_at, and
\* (history) the days for which it has been in that status.
Row == [owner : Users, applied : BOOLEAN, age : Days \cup {None}, held : Days]

Scan == [kind : {"scan"}, by : Users \cup {Cron}, phase : {"queued", "running"},
         tries : 0..MaxTries, todo : SUBSET (JobIds \X Users)]
Reminder == [kind : {"remind"}, job : JobIds, user : Users,
             phase : {"queued", "checked", "sent"}, tries : 0..MaxTries]

ASSUME RecordAssumption == Gone \notin Row /\ Free \notin Scan \cup Reminder

VARIABLES
    jobs,     \* the jobs table; Gone before creation and after deletion
    deleted,  \* the ids that have been deleted: they are not handed out again
    tasks,    \* the queue and the tasks running
    scans,    \* how many scans were enqueued
    emails,   \* how many reminders were sent for each job
    faults    \* how many faults there were

vars == <<jobs, deleted, tasks, scans, emails, faults>>

TypeOK ==
    /\ jobs \in [JobIds -> Row \cup {Gone}]
    /\ deleted \subseteq JobIds
    /\ tasks \in [TaskIds -> Scan \cup Reminder \cup {Free}]
    /\ scans \in 0..MaxScans
    /\ emails \in [JobIds -> 0..MaxEmails]
    /\ faults \in 0..MaxFaults

Init ==
    /\ jobs = [j \in JobIds |-> Gone]
    /\ deleted = {}
    /\ tasks = [t \in TaskIds |-> Free]
    /\ scans = 0
    /\ emails = [j \in JobIds |-> 0]
    /\ faults = 0

Exists(j) == jobs[j] # Gone
Is(t, kind, phase) == tasks[t] # Free /\ tasks[t].kind = kind /\ tasks[t].phase = phase

-----------------------------------------------------------------------------
(* Users and time                                                          *)

\* A user adds a job, applied for today, long ago, or with no date given.
CreateJob(j) ==
    /\ ~ Exists(j) /\ j \notin deleted
    /\ \E u \in Users, a \in BOOLEAN, d \in {0, StaleDays + 1, None} :
          jobs' = [jobs EXCEPT ![j] =
             [owner |-> u, applied |-> a, age |-> d, held |-> IF a /\ d # None THEN d ELSE 0]]
    /\ UNCHANGED <<deleted, tasks, scans, emails, faults>>

\* A PATCH of the status, which leaves applied_at alone.
ChangeStatus(j) ==
    /\ Exists(j)
    /\ jobs' = [jobs EXCEPT ![j].applied = ~ @, ![j].held = 0]
    /\ UNCHANGED <<deleted, tasks, scans, emails, faults>>

\* A PATCH of applied_at: today, or erased.
ChangeDate(j) ==
    /\ Exists(j)
    /\ \E d \in {0, None} : jobs' = [jobs EXCEPT ![j].age = d, ![j].held = 0]
    /\ UNCHANGED <<deleted, tasks, scans, emails, faults>>

DeleteJob(j) ==
    /\ Exists(j)
    /\ jobs' = [jobs EXCEPT ![j] = Gone]
    /\ deleted' = deleted \cup {j}
    /\ UNCHANGED <<tasks, scans, emails, faults>>

\* A day goes by.
Day ==
    /\ jobs' = [j \in JobIds |->
          IF ~ Exists(j) THEN Gone
          ELSE [jobs[j] EXCEPT !.age = IF @ = None THEN None ELSE NextDay(@),
                               !.held = IF jobs[j].applied THEN NextDay(@) ELSE 0]]
    /\ UNCHANGED <<deleted, tasks, scans, emails, faults>>

-----------------------------------------------------------------------------
(* scan_stale_jobs                                                         *)

\* The cron job, or trigger_followup_scan for a user, enqueues a scan.  Of the
\* bounded room here, one place is kept for reminders: arq's queue never fills up.
Trigger(t, by) ==
    /\ tasks[t] = Free
    /\ \E s \in TaskIds \ {t} : tasks[s] \in Reminder \cup {Free}
    /\ tasks' = [tasks EXCEPT ![t] =
          [kind |-> "scan", by |-> by, phase |-> "queued", tries |-> 0, todo |-> {}]]
    /\ scans' = IF scans < MaxScans THEN scans + 1 ELSE scans
    /\ UNCHANGED <<jobs, deleted, emails, faults>>

StaleReversed(j) ==
    Exists(j) /\ jobs[j].applied /\ jobs[j].age # None /\ jobs[j].age < StaleDays

\* The WHERE clause: status "applied", applied_at not NULL and before the cutoff.
Stale(j) ==
    /\ Exists(j)
    /\ jobs[j].applied
    /\ jobs[j].age # None
    /\ jobs[j].age > StaleDays

\* The query; the list it returns is worked off from memory.
StartScan(t) ==
    /\ Is(t, "scan", "queued")
    /\ tasks' = [tasks EXCEPT ![t].phase = "running", ![t].tries = @ + 1,
          ![t].todo = {<<j, jobs[j].owner>> : j \in {i \in JobIds : Stale(i)}}]
    /\ UNCHANGED <<jobs, deleted, scans, emails, faults>>

ReminderToFirst(p) ==
    [kind |-> "remind", job |-> p[1], user |-> CHOOSE u \in Users : TRUE,
     phase |-> "queued", tries |-> 0]

\* The task enqueued for a row of the list, a job and its owner.
ReminderFor(p) ==
    [kind |-> "remind", job |-> p[1], user |-> p[2], phase |-> "queued", tries |-> 0]

\* enqueue_job for one stale job of the list.
EnqueueReminder(t) ==
    /\ Is(t, "scan", "running")
    /\ \E p \in tasks[t].todo, s \in TaskIds :
          /\ tasks[s] = Free
          /\ tasks' = [tasks EXCEPT ![t].todo = @ \ {p}, ![s] = ReminderFor(p)]
    /\ UNCHANGED <<jobs, deleted, scans, emails, faults>>

FinishScan(t) ==
    /\ Is(t, "scan", "running")
    /\ tasks[t].todo = {}
    /\ tasks' = [tasks EXCEPT ![t] = Free]
    /\ UNCHANGED <<jobs, deleted, scans, emails, faults>>

-----------------------------------------------------------------------------
(* send_followup_reminder                                                  *)

\* What the second look at the job skips: it is missing, of another owner, or no
\* longer in "applied".
Skipped(task) ==
    \/ ~ Exists(task.job)
    \/ jobs[task.job].owner # task.user
    \/ ~ jobs[task.job].applied

CheckReminder(t) ==
    /\ Is(t, "remind", "queued")
    /\ IF Skipped(tasks[t])
       THEN tasks' = [tasks EXCEPT ![t] = Free]
       ELSE tasks' = [tasks EXCEPT ![t].phase = "checked", ![t].tries = @ + 1]
    /\ UNCHANGED <<jobs, deleted, scans, emails, faults>>

\* The session is closed by now: the job may have changed since the check.
SendEmail(t) ==
    /\ Is(t, "remind", "checked")
    /\ LET j == tasks[t].job
       IN  emails' = [emails EXCEPT ![j] = IF @ < MaxEmails THEN @ + 1 ELSE @]
    /\ tasks' = [tasks EXCEPT ![t].phase = "sent"]
    /\ UNCHANGED <<jobs, deleted, scans, faults>>

FinishReminder(t) ==
    /\ Is(t, "remind", "sent")
    /\ tasks' = [tasks EXCEPT ![t] = Free]
    /\ UNCHANGED <<jobs, deleted, scans, emails, faults>>

-----------------------------------------------------------------------------
(* arq and its failures                                                    *)

Running(t) == tasks[t] # Free /\ tasks[t].phase # "queued"

RequeuedForever(task) ==
    IF task.kind = "scan" THEN [task EXCEPT !.phase = "queued", !.todo = {}, !.tries = 0]
    ELSE [task EXCEPT !.phase = "queued", !.tries = 0]

\* arq.cron starts a cron job once unless told otherwise, and it is not.
TriesLeft(task) ==
    task.tries < (IF task.kind = "scan" /\ task.by = Cron THEN 1 ELSE MaxTries)

\* A task that was running starts over, unless it has been started too often.
Requeued(task) ==
    IF ~ TriesLeft(task) THEN Free
    ELSE IF task.kind = "scan" THEN [task EXCEPT !.phase = "queued", !.todo = {}]
    ELSE [task EXCEPT !.phase = "queued"]

Fault == faults < MaxFaults /\ faults' = faults + 1

\* The worker dies, or is stopped by a deployment, with all its running tasks.
WorkerCrash ==
    /\ Fault
    /\ tasks' = [t \in TaskIds |-> IF Running(t) THEN Requeued(tasks[t]) ELSE tasks[t]]
    /\ UNCHANGED <<jobs, deleted, scans, emails>>

\* A running task raises (the database or the mail fails): arq does not retry.
TaskRaises(t) ==
    /\ Fault
    /\ Running(t)
    /\ tasks' = [tasks EXCEPT ![t] = Free]
    /\ UNCHANGED <<jobs, deleted, scans, emails>>

\* Redis loses the queue.  Tasks that run go on; with their entries gone they
\* will not be started again.
RedisRestart ==
    /\ Fault
    /\ tasks' = [t \in TaskIds |->
          IF Running(t) THEN [tasks[t] EXCEPT !.tries = MaxTries] ELSE Free]
    /\ UNCHANGED <<jobs, deleted, scans, emails>>

UserStep == \E j \in JobIds : CreateJob(j) \/ ChangeStatus(j) \/ ChangeDate(j) \/ DeleteJob(j)

WorkerStep(t) ==
    StartScan(t) \/ EnqueueReminder(t) \/ FinishScan(t)
        \/ CheckReminder(t) \/ SendEmail(t) \/ FinishReminder(t)

CronFires == \E t \in TaskIds : Trigger(t, Cron)

Next ==
    \/ UserStep
    \/ Day
    \/ CronFires
    \/ \E t \in TaskIds, u \in Users : Trigger(t, u)
    \/ \E t \in TaskIds : WorkerStep(t) \/ TaskRaises(t)
    \/ WorkerCrash
    \/ RedisRestart

Spec == Init /\ [][Next]_vars

(* Days go by, the cron job fires again and again, and the worker, which   *)
(* its container restarts, keeps running tasks.  Users owe nothing, and    *)
(* faults are not fair.  The cron job is strongly fair: another scan may   *)
(* hold the last room in the model's bounded queue.                        *)
Fairness ==
    /\ WF_vars(Day)
    /\ SF_vars(CronFires)
    /\ \A t \in TaskIds : WF_vars(WorkerStep(t))

FairSpec == Spec /\ Fairness

-----------------------------------------------------------------------------
(* Properties                                                              *)

(* The check "skipped: ownership mismatch" (tasks.py:35) never has to      *)
(* fire: from the scan's list to the reminder in the queue, through        *)
(* retries and deletions, a job's user is the owner of the row.            *)
RemindersAddressed ==
    \A t \in TaskIds :
        /\ tasks[t] \in Reminder /\ Exists(tasks[t].job)
              => jobs[tasks[t].job].owner = tasks[t].user
        /\ tasks[t] \in Scan =>
              \A p \in tasks[t].todo : Exists(p[1]) => jobs[p[1]].owner = p[2]

(* Nothing removes duplicates (tasks.py:74), so a scan that is retried     *)
(* enqueues again and a reminder that is retried sends again, but retries  *)
(* multiply in no other way: the first MaxScans - 1 scans send at most     *)
(* MaxTries * MaxTries emails each per job.                                *)
EmailsBounded ==
    scans < MaxScans => \A j \in JobIds : emails[j] <= scans * MaxTries * MaxTries

\* Applied for longer ago than StaleDays, and nothing heard of since.
Overdue(j) ==
    Exists(j) /\ jobs[j].applied /\ jobs[j].age \in Nat /\ jobs[j].age > StaleDays

(* The daily scan makes up for what crashes, exceptions and a lost queue   *)
(* swallow: a job that stays overdue is reminded of in the end.            *)
StaleReminded == \A j \in JobIds : Overdue(j) ~> (emails[j] > 0 \/ ~ Overdue(j))

(* "A job is stale if it's been in `applied` for this many days without    *)
(* progress" (tasks.py:20): such a job is reminded of in the end.          *)
AppliedReminded ==
    \A j \in JobIds :
        (Exists(j) /\ jobs[j].held > StaleDays)
            ~> (emails[j] > 0 \/ ~ Exists(j) \/ jobs[j].held <= StaleDays)

=============================================================================
