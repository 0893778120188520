--------------------------- MODULE RemindersProofs ---------------------------
(***************************************************************************)
(* Proofs about Reminders, for any jobs, users, queue and numbers of days, *)
(* tries and faults.  The argument: what a task or a scan's list says of a *)
(* job and its owner was read from the row.  A row's owner never changes,  *)
(* and an id that was deleted is not handed out again, so what was read    *)
(* stays true until the id is deleted, and says nothing afterwards.        *)
(*                                                                         *)
(* The emails are bounded by a budget: a scan brings MaxTries * MaxTries   *)
(* with it, a step of a task uses up what is left to it or hands it on to  *)
(* a reminder, and a fault only takes away.                                *)
(***************************************************************************)
EXTENDS Reminders, FiniteSetTheorems, TLAPS

\* The row of a job names its owner, or the id has been deleted.
Known(j, u) == j \in deleted \/ (Exists(j) /\ jobs[j].owner = u)

LivingIds == \A j \in JobIds : Exists(j) => j \notin deleted

\* What one task says of jobs is known, and one that is queued may still be started.
TaskKnown(task) ==
    /\ task \in Scan \cup Reminder /\ task.phase = "queued" => task.tries < MaxTries
    /\ task \in Reminder => Known(task.job, task.user)
    /\ task \in Scan => \A p \in task.todo : Known(p[1], p[2])

RemindersInv ==
    TypeOK /\ LivingIds /\ (\A t \in TaskIds : TaskKnown(tasks[t]))

LEMMA NamesAreNew ==
    /\ Gone \notin Row /\ Free \notin Scan /\ Free \notin Reminder /\ None \notin Nat
    /\ StaleDays \in Nat /\ MaxTries \in Nat \ {0} /\ MaxFaults \in Nat
    /\ MaxScans \in Nat \ {0} /\ MaxEmails \in Nat \ {0}
    /\ MaxTries \in 0..MaxTries
    /\ 0 \in Days /\ StaleDays + 1 \in Days /\ \A d \in Days : NextDay(d) \in Days
  BY DaysAssumption, BoundsAssumption, NamesAssumption, RecordAssumption DEF Days, NextDay

LEMMA KindsDiffer ==
    /\ \A task \in Scan : task.kind = "scan" /\ task \notin Reminder
    /\ \A task \in Reminder : task.kind = "remind" /\ task \notin Scan
  BY DEF Scan, Reminder

LEMMA InitReminders == Init => RemindersInv
  BY NamesAreNew DEF Init, RemindersInv, TypeOK, LivingIds, TaskKnown, Exists

-----------------------------------------------------------------------------
(* Steps that leave the queue alone                                        *)

\* A change of rows after which what was known is known still.
LEMMA RowsChange ==
    ASSUME RemindersInv, UNCHANGED tasks, jobs' \in [JobIds -> Row \cup {Gone}],
           deleted' \subseteq JobIds, LivingIds', deleted \subseteq deleted',
           \A j \in JobIds : Exists(j) =>
              j \in deleted' \/ (jobs'[j] # Gone /\ jobs'[j].owner = jobs[j].owner)
    PROVE  \A t \in TaskIds : TaskKnown(tasks[t])'
<1>1. \A j \in JobIds, u \in Users : Known(j, u) => Known(j, u)'
  BY DEF Known, Exists, RemindersInv, TypeOK
<1>2. ASSUME NEW t \in TaskIds PROVE TaskKnown(tasks[t])'
  <2>1. TaskKnown(tasks[t]) /\ tasks'[t] = tasks[t]
    BY DEF RemindersInv
  <2>2. ASSUME tasks[t] \in Reminder PROVE Known(tasks[t].job, tasks[t].user)'
    <3>1. tasks[t].job \in JobIds /\ tasks[t].user \in Users
      BY <2>2 DEF Reminder
    <3> QED  BY <1>1, <2>1, <2>2, <3>1 DEF TaskKnown, Known, Exists
  <2>3. ASSUME tasks[t] \in Scan, NEW p \in tasks[t].todo PROVE Known(p[1], p[2])'
    <3>1. p[1] \in JobIds /\ p[2] \in Users
      BY <2>3 DEF Scan
    <3> QED  BY <1>1, <2>1, <2>3, <3>1 DEF TaskKnown, Known, Exists
  <2> QED  BY <2>1, <2>2, <2>3 DEF TaskKnown, Known, Exists
<1> QED  BY <1>2

LEMMA RowSteps ==
    ASSUME RemindersInv, UserStep \/ Day
    PROVE  RemindersInv'
<1> USE NamesAreNew
<1>1. ASSUME NEW j \in JobIds, CreateJob(j) PROVE RemindersInv'
  <2>1. PICK row \in Row : jobs' = [jobs EXCEPT ![j] = row]
    BY <1>1 DEF CreateJob, Row
  <2>2. /\ ~ Exists(j) /\ j \notin deleted
        /\ UNCHANGED <<deleted, tasks, scans, emails, faults>>
    BY <1>1 DEF CreateJob
  <2>3. TypeOK' /\ LivingIds'
    BY <2>1, <2>2 DEF RemindersInv, TypeOK, LivingIds, Exists
  <2>4. \A t \in TaskIds : TaskKnown(tasks[t])'
    BY <2>1, <2>2, <2>3, RowsChange DEF RemindersInv, TypeOK, Exists
  <2> QED  BY <2>3, <2>4 DEF RemindersInv
<1>2. ASSUME NEW j \in JobIds, ChangeStatus(j) \/ ChangeDate(j) PROVE RemindersInv'
  <2>1. PICK row \in Row : jobs' = [jobs EXCEPT ![j] = row] /\ row.owner = jobs[j].owner
    <3>1. jobs[j] \in Row
      BY <1>2 DEF RemindersInv, TypeOK, Exists, ChangeStatus, ChangeDate
    <3>2. CASE ChangeStatus(j)
      <4>1. jobs' = [jobs EXCEPT ![j] =
               [jobs[j] EXCEPT !.applied = ~ jobs[j].applied, !.held = 0]]
        BY <3>2 DEF ChangeStatus, RemindersInv, TypeOK
      <4>2. (~ jobs[j].applied) \in BOOLEAN
        OBVIOUS
      <4> DEFINE row == [jobs[j] EXCEPT !.applied = ~ jobs[j].applied, !.held = 0]
      <4>3. row \in Row /\ row.owner = jobs[j].owner
        BY <3>1, <4>2 DEF Row
      <4> QED  BY <4>1, <4>3
    <3>3. CASE ChangeDate(j)
      <4>1. PICK d \in {0, None} :
               jobs' = [jobs EXCEPT ![j] = [jobs[j] EXCEPT !.age = d, !.held = 0]]
        BY <3>3 DEF ChangeDate, RemindersInv, TypeOK
      <4> DEFINE row == [jobs[j] EXCEPT !.age = d, !.held = 0]
      <4>2. row \in Row /\ row.owner = jobs[j].owner
        BY <3>1, <4>1 DEF Row
      <4> QED  BY <4>1, <4>2
    <3> QED  BY <1>2, <3>2, <3>3
  <2>2. Exists(j) /\ UNCHANGED <<deleted, tasks, scans, emails, faults>>
    BY <1>2 DEF ChangeStatus, ChangeDate
  <2>3. TypeOK' /\ LivingIds'
    BY <2>1, <2>2 DEF RemindersInv, TypeOK, LivingIds, Exists
  <2>4. \A t \in TaskIds : TaskKnown(tasks[t])'
    BY <2>1, <2>2, <2>3, RowsChange DEF RemindersInv, TypeOK, Exists
  <2> QED  BY <2>3, <2>4 DEF RemindersInv
<1>3. ASSUME NEW j \in JobIds, DeleteJob(j) PROVE RemindersInv'
  <2>1. /\ jobs' = [jobs EXCEPT ![j] = Gone] /\ deleted' = deleted \cup {j}
        /\ UNCHANGED <<tasks, scans, emails, faults>>
    BY <1>3 DEF DeleteJob
  <2>2. TypeOK' /\ LivingIds'
    BY <2>1 DEF RemindersInv, TypeOK, LivingIds, Exists
  <2>3. \A t \in TaskIds : TaskKnown(tasks[t])'
    BY <2>1, <2>2, RowsChange DEF RemindersInv, TypeOK, Exists
  <2> QED  BY <2>2, <2>3 DEF RemindersInv
<1>4. ASSUME Day PROVE RemindersInv'
  <2>1. UNCHANGED <<deleted, tasks, scans, emails, faults>>
    BY <1>4 DEF Day
  <2>2. ASSUME NEW j \in JobIds
        PROVE  \/ ~ Exists(j) /\ jobs'[j] = Gone
               \/ Exists(j) /\ jobs'[j] \in Row /\ jobs'[j].owner = jobs[j].owner
    <3>1. CASE ~ Exists(j)
      BY <1>4, <3>1 DEF Day
    <3>2. CASE Exists(j)
      <4>1. jobs[j] \in Row
        BY <3>2 DEF RemindersInv, TypeOK, Exists
      <4> DEFINE age == IF jobs[j].age = None THEN None ELSE NextDay(jobs[j].age)
                 held == IF jobs[j].applied THEN NextDay(jobs[j].held) ELSE 0
      <4>2. jobs'[j] = [jobs[j] EXCEPT !.age = age, !.held = held]
        BY <1>4, <3>2 DEF Day
      <4>3. age \in Days \cup {None} /\ held \in Days
        BY <4>1 DEF Row
      <4> HIDE DEF age, held
      <4> QED  BY <3>2, <4>1, <4>2, <4>3 DEF Row
    <3> QED  BY <3>1, <3>2
  <2>3. jobs' \in [JobIds -> Row \cup {Gone}]
    <3>1. jobs' = [j \in JobIds |-> jobs'[j]]
      BY <1>4 DEF Day
    <3> QED  BY <2>2, <3>1
  <2>4. TypeOK' /\ LivingIds'
    BY <2>1, <2>2, <2>3 DEF RemindersInv, TypeOK, LivingIds, Exists
  <2>5. \A t \in TaskIds : TaskKnown(tasks[t])'
    BY <2>1, <2>2, <2>3, <2>4, RowsChange DEF RemindersInv, TypeOK, Exists
  <2> QED  BY <2>4, <2>5 DEF RemindersInv
<1> QED  BY <1>1, <1>2, <1>3, <1>4 DEF UserStep

-----------------------------------------------------------------------------
(* Steps of the queue                                                      *)

\* A step of the queue is right when each new task is, and is free or known.
LEMMA QueueChange ==
    ASSUME RemindersInv, UNCHANGED <<jobs, deleted>>,
           tasks' \in [TaskIds -> Scan \cup Reminder \cup {Free}],
           scans' \in 0..MaxScans, emails' \in [JobIds -> 0..MaxEmails], faults' \in 0..MaxFaults,
           \A t \in TaskIds : TaskKnown(tasks'[t])
    PROVE  RemindersInv'
<1>1. \A t \in TaskIds : TaskKnown(tasks[t])'
  BY DEF TaskKnown, Known, Exists
<1> QED  BY <1>1 DEF RemindersInv, TypeOK, LivingIds, Exists

\* Later tries of a task say of jobs what the task said, or less.
LEMMA LaterKnown ==
    /\ TaskKnown(Free)
    /\ \A task \in Reminder, phase \in {"queued", "checked", "sent"}, n \in 0..MaxTries :
          LET next == [task EXCEPT !.phase = phase, !.tries = n]
          IN  TaskKnown(task) /\ (phase = "queued" => n < MaxTries)
                 => next \in Reminder /\ TaskKnown(next)
    /\ \A task \in Scan, phase \in {"queued", "running"}, n \in 0..MaxTries,
          todo \in SUBSET (JobIds \X Users) :
          LET next == [task EXCEPT !.phase = phase, !.tries = n, !.todo = todo]
          IN  (\A p \in todo : Known(p[1], p[2])) /\ (phase = "queued" => n < MaxTries)
                 => next \in Scan /\ TaskKnown(next)
<1>1. TaskKnown(Free)
  BY NamesAreNew DEF TaskKnown
<1>2. ASSUME NEW task \in Reminder, NEW phase \in {"queued", "checked", "sent"},
             NEW n \in 0..MaxTries, TaskKnown(task), phase = "queued" => n < MaxTries
      PROVE  LET next == [task EXCEPT !.phase = phase, !.tries = n]
             IN  next \in Reminder /\ TaskKnown(next)
  <2> DEFINE next == [task EXCEPT !.phase = phase, !.tries = n]
  <2>1. next \in Reminder /\ next.job = task.job /\ next.user = task.user
        /\ next.phase = phase /\ next.tries = n
    BY <1>2 DEF Reminder
  <2> HIDE DEF next
  <2>2. TaskKnown(next)
    BY <1>2, <2>1, KindsDiffer DEF TaskKnown
  <2> QED  BY <2>1, <2>2 DEF next
<1>3. ASSUME NEW task \in Scan, NEW phase \in {"queued", "running"}, NEW n \in 0..MaxTries,
             NEW todo \in SUBSET (JobIds \X Users), \A p \in todo : Known(p[1], p[2]),
             phase = "queued" => n < MaxTries
      PROVE  LET next == [task EXCEPT !.phase = phase, !.tries = n, !.todo = todo]
             IN  next \in Scan /\ TaskKnown(next)
  <2> DEFINE next == [task EXCEPT !.phase = phase, !.tries = n, !.todo = todo]
  <2>1. next \in Scan /\ next.todo = todo /\ next.phase = phase /\ next.tries = n
    BY <1>3 DEF Scan
  <2> HIDE DEF next
  <2>2. TaskKnown(next)
    BY <1>3, <2>1, KindsDiffer DEF TaskKnown
  <2> QED  BY <2>1, <2>2 DEF next
<1> QED  BY <1>1, <1>2, <1>3

LEMMA QueueSteps ==
    ASSUME RemindersInv, NEW t \in TaskIds,
           (\E by \in Users \cup {Cron} : Trigger(t, by)) \/ WorkerStep(t)
    PROVE  RemindersInv'
<1> USE NamesAreNew
<1>0. /\ \A s \in TaskIds : TaskKnown(tasks[s]) /\ tasks[s] \in Scan \cup Reminder \cup {Free}
      /\ TypeOK /\ tasks = [s \in TaskIds |-> tasks[s]]
      /\ faults \in 0..MaxFaults /\ scans \in 0..MaxScans /\ emails \in [JobIds -> 0..MaxEmails]
  BY DEF RemindersInv, TypeOK
\* A step that gives one slot a new content.
<1>1. ASSUME NEW task \in Scan \cup Reminder \cup {Free}, TaskKnown(task),
             tasks' = [tasks EXCEPT ![t] = task], UNCHANGED <<jobs, deleted, faults>>,
             scans' \in 0..MaxScans, emails' \in [JobIds -> 0..MaxEmails]
      PROVE  RemindersInv'
  <2>1. \A s \in TaskIds : tasks'[s] = IF s = t THEN task ELSE tasks[s]
    BY <1>0, <1>1
  <2>2. \A s \in TaskIds : TaskKnown(tasks'[s])
    BY <1>0, <1>1, <2>1
  <2>3. tasks' \in [TaskIds -> Scan \cup Reminder \cup {Free}]
    BY <1>0, <1>1
  <2> QED  BY <1>0, <1>1, <2>2, <2>3, QueueChange
<1>2. ASSUME NEW by \in Users \cup {Cron}, Trigger(t, by) PROVE RemindersInv'
  <2> DEFINE task == [kind |-> "scan", by |-> by, phase |-> "queued", tries |-> 0, todo |-> {}]
  <2>1. task \in Scan /\ task.tries = 0 /\ task.todo = {}
    BY DEF Scan
  <2>2. tasks' = [tasks EXCEPT ![t] = task] /\ UNCHANGED <<jobs, deleted, faults, emails>>
        /\ scans' \in 0..MaxScans
    BY <1>0, <1>2 DEF Trigger
  <2> HIDE DEF task
  <2>3. TaskKnown(task)
    BY <2>1, KindsDiffer DEF TaskKnown
  <2> QED  BY <1>0, <1>1, <2>1, <2>2, <2>3
<1>3. ASSUME StartScan(t) PROVE RemindersInv'
  <2>1. tasks[t] \in Scan /\ tasks[t].phase = "queued" /\ tasks[t].tries + 1 \in 0..MaxTries
    <3>1. tasks[t] \in Scan /\ tasks[t].phase = "queued"
      BY <1>0, <1>3, KindsDiffer DEF StartScan, Is
    <3>2. tasks[t].tries \in 0..MaxTries
      BY <3>1 DEF Scan
    <3> QED  BY <1>0, <3>1, <3>2 DEF TaskKnown
  <2> DEFINE todo == {<<j, jobs[j].owner>> : j \in {i \in JobIds : Stale(i)}}
             task == [tasks[t] EXCEPT !.phase = "running", !.tries = tasks[t].tries + 1,
                                      !.todo = todo]
  <2>2. todo \in SUBSET (JobIds \X Users) /\ \A p \in todo : Known(p[1], p[2])
    <3>1. \A j \in JobIds : Stale(j) => jobs[j].owner \in Users /\ Known(j, jobs[j].owner)
      BY <1>0 DEF TypeOK, Row, Stale, Exists, Known
    <3> QED  BY <3>1
  <2>3. tasks' = [tasks EXCEPT ![t] = task] /\ UNCHANGED <<jobs, deleted, faults, emails, scans>>
    BY <1>0, <1>3 DEF StartScan
  <2> HIDE DEF todo
  <2>4. task \in Scan /\ TaskKnown(task)
    BY <2>1, <2>2, LaterKnown
  <2> QED  BY <1>0, <1>1, <2>3, <2>4
<1>4. ASSUME EnqueueReminder(t) PROVE RemindersInv'
  <2>1. tasks[t] \in Scan /\ tasks[t].phase = "running" /\ tasks[t].tries \in 0..MaxTries
        /\ tasks[t].todo \in SUBSET (JobIds \X Users)
    <3>1. tasks[t] \in Scan /\ tasks[t].phase = "running"
      BY <1>0, <1>4, KindsDiffer DEF EnqueueReminder, Is
    <3> QED  BY <3>1 DEF Scan
  <2>2. PICK p \in tasks[t].todo, s \in TaskIds :
          /\ tasks[s] = Free
          /\ tasks' = [tasks EXCEPT ![t].todo = @ \ {p}, ![s] = ReminderFor(p)]
    BY <1>4 DEF EnqueueReminder
  <2>3. UNCHANGED <<jobs, deleted, faults, emails, scans>> /\ s # t
    BY <1>4, <2>1, <2>2 DEF EnqueueReminder
  <2> DEFINE rest == tasks[t].todo \ {p}
             scan == [tasks[t] EXCEPT !.todo = rest]
  <2>4. p \in JobIds \X Users /\ Known(p[1], p[2])
        /\ \A q \in rest : Known(q[1], q[2])
    BY <1>0, <2>1, <2>2 DEF TaskKnown
  <2>5. scan \in Scan /\ scan.todo = rest /\ scan.phase = "running"
    BY <2>1 DEF Scan
  <2>6. ReminderFor(p) \in Reminder /\ ReminderFor(p).job = p[1] /\ ReminderFor(p).user = p[2]
        /\ ReminderFor(p).tries = 0
    BY <2>4 DEF ReminderFor, Reminder
  <2>7. \A q \in TaskIds : tasks'[q] = IF q = s THEN ReminderFor(p)
                                       ELSE IF q = t THEN scan ELSE tasks[q]
    BY <1>0, <2>2, <2>3
  <2>8. TaskKnown(scan) /\ TaskKnown(ReminderFor(p))
    <3> HIDE DEF scan, rest
    <3> QED  BY <2>4, <2>5, <2>6, KindsDiffer DEF TaskKnown
  <2>9. tasks' \in [TaskIds -> Scan \cup Reminder \cup {Free}]
    <3>1. tasks' = [q \in TaskIds |-> tasks'[q]]
      BY <1>0, <2>2
    <3> HIDE DEF scan
    <3> QED  BY <1>0, <2>5, <2>6, <2>7, <3>1
  <2>10. \A q \in TaskIds : TaskKnown(tasks'[q])
    <3> HIDE DEF scan
    <3> QED  BY <1>0, <2>7, <2>8
  <2> QED  BY <1>0, <2>3, <2>9, <2>10, QueueChange
<1>5. ASSUME FinishScan(t) \/ FinishReminder(t) PROVE RemindersInv'
  <2>1. tasks' = [tasks EXCEPT ![t] = Free] /\ UNCHANGED <<jobs, deleted, faults, emails, scans>>
    BY <1>5 DEF FinishScan, FinishReminder
  <2> QED  BY <1>0, <1>1, <2>1, LaterKnown
<1>6. ASSUME CheckReminder(t) PROVE RemindersInv'
  <2>1. tasks[t] \in Reminder /\ tasks[t].phase = "queued" /\ tasks[t].tries + 1 \in 0..MaxTries
    <3>1. tasks[t] \in Reminder /\ tasks[t].phase = "queued"
      BY <1>0, <1>6, KindsDiffer DEF CheckReminder, Is
    <3>2. tasks[t].tries \in 0..MaxTries
      BY <3>1 DEF Reminder
    <3> QED  BY <1>0, <3>1, <3>2 DEF TaskKnown
  <2> DEFINE task == [tasks[t] EXCEPT !.phase = "checked", !.tries = tasks[t].tries + 1]
  <2>2. /\ tasks' = [tasks EXCEPT ![t] = Free] \/ tasks' = [tasks EXCEPT ![t] = task]
        /\ UNCHANGED <<jobs, deleted, faults, emails, scans>>
    BY <1>0, <1>6, <2>1 DEF CheckReminder
  <2>3. task \in Reminder /\ TaskKnown(task)
    BY <1>0, <2>1, LaterKnown
  <2> HIDE DEF task
  <2> QED  BY <1>0, <1>1, <2>2, <2>3, LaterKnown
<1>7. ASSUME SendEmail(t) PROVE RemindersInv'
  <2>1. tasks[t] \in Reminder /\ tasks[t].phase = "checked"
    BY <1>0, <1>7, KindsDiffer DEF SendEmail, Is
  <2>2. tasks[t].tries \in 0..MaxTries /\ tasks[t].job \in JobIds
    BY <2>1 DEF Reminder
  <2> DEFINE task == [tasks[t] EXCEPT !.phase = "sent", !.tries = tasks[t].tries]
  <2>3. task \in Reminder /\ TaskKnown(task)
    BY <1>0, <2>1, <2>2, LaterKnown
  <2>4. task = [tasks[t] EXCEPT !.phase = "sent"]
    BY <2>1 DEF Reminder
  <2>5. emails' \in [JobIds -> 0..MaxEmails]
    BY <1>0, <1>7, <2>2 DEF SendEmail
  <2>6. tasks' = [tasks EXCEPT ![t] = task] /\ UNCHANGED <<jobs, deleted, faults, scans>>
    BY <1>0, <1>7, <2>4 DEF SendEmail
  <2> HIDE DEF task
  <2> QED  BY <1>0, <1>1, <2>3, <2>5, <2>6
<1> QED  BY <1>2, <1>3, <1>4, <1>5, <1>6, <1>7 DEF WorkerStep

-----------------------------------------------------------------------------
(* Faults                                                                  *)

LEMMA FaultSteps ==
    ASSUME RemindersInv, WorkerCrash \/ RedisRestart \/ (\E t \in TaskIds : TaskRaises(t))
    PROVE  RemindersInv'
<1> USE NamesAreNew
<1>0. /\ \A s \in TaskIds : TaskKnown(tasks[s]) /\ tasks[s] \in Scan \cup Reminder \cup {Free}
      /\ tasks = [s \in TaskIds |-> tasks[s]]
      /\ faults \in 0..MaxFaults /\ scans \in 0..MaxScans /\ emails \in [JobIds -> 0..MaxEmails]
  BY DEF RemindersInv, TypeOK
<1>1. faults' \in 0..MaxFaults /\ UNCHANGED <<jobs, deleted, scans, emails>>
  BY <1>0 DEF WorkerCrash, RedisRestart, TaskRaises, Fault
<1>2. /\ tasks' = [t \in TaskIds |-> tasks'[t]]
      /\ \A t \in TaskIds :
            \/ tasks'[t] \in {tasks[t], Free}
            \/ /\ Running(t)
               /\ tasks'[t] \in {Requeued(tasks[t]), [tasks[t] EXCEPT !.tries = MaxTries]}
  BY <1>0 DEF WorkerCrash, RedisRestart, TaskRaises
<1>3. ASSUME NEW t \in TaskIds
      PROVE  tasks'[t] \in Scan \cup Reminder \cup {Free} /\ TaskKnown(tasks'[t])
  <2>1. CASE tasks'[t] \in {tasks[t], Free}
    BY <1>0, <2>1, LaterKnown
  <2>2. CASE Running(t) /\ tasks[t] \in Reminder
    <3>1. tasks[t].phase \in {"checked", "sent"} /\ tasks[t].tries \in 0..MaxTries
      BY <2>2 DEF Running, Reminder
    <3> DEFINE again == [tasks[t] EXCEPT !.phase = "queued", !.tries = tasks[t].tries]
               last == [tasks[t] EXCEPT !.phase = tasks[t].phase, !.tries = MaxTries]
    <3>2. tasks[t].tries < MaxTries => again \in Reminder /\ TaskKnown(again)
      BY <1>0, <2>2, <3>1, LaterKnown
    <3>3. last \in Reminder /\ TaskKnown(last)
      BY <1>0, <2>2, <3>1, LaterKnown
    <3>4. /\ Requeued(tasks[t]) = Free \/ (Requeued(tasks[t]) = again /\ tasks[t].tries < MaxTries)
          /\ [tasks[t] EXCEPT !.tries = MaxTries] = last
      BY <2>2, KindsDiffer DEF Requeued, TriesLeft, Reminder
    <3> HIDE DEF again, last
    <3> QED  BY <1>0, <1>2, <3>2, <3>3, <3>4, LaterKnown
  <2>3. CASE Running(t) /\ tasks[t] \in Scan
    <3>1. tasks[t].phase = "running" /\ tasks[t].tries \in 0..MaxTries
          /\ tasks[t].todo \in SUBSET (JobIds \X Users)
          /\ \A p \in tasks[t].todo : Known(p[1], p[2])
      BY <1>0, <2>3 DEF Running, Scan, TaskKnown
    <3> DEFINE again == [tasks[t] EXCEPT !.phase = "queued", !.tries = tasks[t].tries, !.todo = {}]
               last == [tasks[t] EXCEPT !.phase = "running", !.tries = MaxTries,
                                        !.todo = tasks[t].todo]
    <3>2. tasks[t].tries < MaxTries => again \in Scan /\ TaskKnown(again)
      BY <2>3, <3>1, LaterKnown
    <3>3. last \in Scan /\ TaskKnown(last)
      BY <2>3, <3>1, LaterKnown
    <3>4. /\ Requeued(tasks[t]) = Free \/ (Requeued(tasks[t]) = again /\ tasks[t].tries < MaxTries)
          /\ [tasks[t] EXCEPT !.tries = MaxTries] = last
      <4>1. tasks[t].kind = "scan"
        BY <2>3, KindsDiffer
      <4>2. TriesLeft(tasks[t]) => tasks[t].tries < MaxTries
        BY <3>1, <4>1 DEF TriesLeft
      <4>3. [tasks[t] EXCEPT !.tries = MaxTries] = last
        BY <2>3, <3>1 DEF Scan
      <4>4. again = [tasks[t] EXCEPT !.phase = "queued", !.todo = {}]
        BY <2>3 DEF Scan
      <4> HIDE DEF again, last
      <4> QED  BY <4>1, <4>2, <4>3, <4>4 DEF Requeued
    <3> HIDE DEF again, last
    <3> QED  BY <1>0, <1>2, <3>2, <3>3, <3>4, LaterKnown
  <2>4. CASE Running(t) /\ tasks[t] = Free
    BY <2>4 DEF Running
  <2> QED  BY <1>0, <1>2, <2>1, <2>2, <2>3, <2>4
<1>4. tasks' \in [TaskIds -> Scan \cup Reminder \cup {Free}]
  BY <1>2, <1>3
<1> QED  BY <1>0, <1>1, <1>3, <1>4, QueueChange

LEMMA StepReminders == RemindersInv /\ [Next]_vars => RemindersInv'
<1>1. ASSUME RemindersInv, Next PROVE RemindersInv'
  BY <1>1, RowSteps, QueueSteps, FaultSteps DEF Next, CronFires
<1>2. ASSUME RemindersInv, UNCHANGED vars PROVE RemindersInv'
  BY <1>2 DEF vars, RemindersInv, TypeOK, LivingIds, TaskKnown, Known, Exists
<1> QED  BY <1>1, <1>2

-----------------------------------------------------------------------------
(* The budget of emails.  A scan that may still be started a times, of     *)
(* MaxTries, and each time enqueues a reminder for a job that may be       *)
(* started MaxTries times, leads to a * MaxTries emails at most; what a    *)
(* task does uses up what is left to it or hands it on to a reminder.      *)

\* The most emails about job j that a task and its reminders may still send.
Left(task, j) ==
    IF task = Free THEN 0
    ELSE IF task.kind = "scan"
    THEN (MaxTries - task.tries) * MaxTries
            + (IF \E p \in task.todo : p[1] = j THEN MaxTries ELSE 0)
    ELSE IF task.job # j THEN 0
    ELSE (MaxTries - task.tries) + (IF task.phase = "checked" THEN 1 ELSE 0)

LeftOf(queue, j) == [t \in TaskIds |-> Left(queue[t], j)]

\* The numbers of a function, counted out: for each t the pairs <<t, 1>> .. <<t, f[t]>>.
Tokens(f) == {x \in TaskIds \X (Nat \ {0}) : x[2] <= f[x[1]]}

\* A scan's list names a job once.
ListedOnce(task) ==
    task \in Scan => \A p, q \in task.todo : p[1] = q[1] => p = q

\* What was sent and what may still be sent is within the bound of EmailsBounded.
WithinBudget(j) ==
    /\ IsFiniteSet(Tokens(LeftOf(tasks, j)))
    /\ scans < MaxScans =>
          emails[j] + Cardinality(Tokens(LeftOf(tasks, j))) <= scans * (MaxTries * MaxTries)

BudgetInv ==
    /\ RemindersInv
    /\ \A t \in TaskIds : ListedOnce(tasks[t])
    /\ \A j \in JobIds : WithinBudget(j)

\* Changing one number changes the tokens by as much.
LEMMA TokensChange ==
    ASSUME NEW f \in [TaskIds -> Nat], NEW g \in [TaskIds -> Nat], NEW s \in TaskIds,
           \A t \in TaskIds \ {s} : g[t] = f[t], IsFiniteSet(Tokens(f))
    PROVE  /\ IsFiniteSet(Tokens(g))
           /\ Cardinality(Tokens(f)) \in Nat /\ Cardinality(Tokens(g)) \in Nat
           /\ Cardinality(Tokens(g)) + f[s] = Cardinality(Tokens(f)) + g[s]
<1> DEFINE rest == {x \in Tokens(f) : x[1] # s}
           column(n) == {s} \X (1..n)
<1>1. ASSUME NEW n \in Nat
      PROVE  IsFiniteSet(column(n)) /\ Cardinality(column(n)) = n
  <2> DEFINE pair == [k \in 1..n |-> <<s, k>>]
  <2>1. pair \in Bijection(1..n, column(n))
    <3>1. pair \in [1..n -> column(n)] /\ DOMAIN pair = 1..n
      OBVIOUS
    <3>2. \A a, b \in 1..n : pair[a] = pair[b] => a = b
      OBVIOUS
    <3>3. \A x \in column(n) : \E k \in 1..n : pair[k] = x
      OBVIOUS
    <3> HIDE DEF pair, column
    <3> QED  BY <3>1, <3>2, <3>3 DEF Bijection, Injection, Surjection, IsInjective
  <2>2. IsFiniteSet(1..n) /\ Cardinality(1..n) = n
    <3>1. 1 \in Int /\ n \in Int
      OBVIOUS
    <3>2. IsFiniteSet(1..n) /\ Cardinality(1..n) = IF 1 > n THEN 0 ELSE n - 1 + 1
      BY <3>1, FS_Interval, Zenon
    <3> QED  BY <3>2
  <2> HIDE DEF pair, column
  <2>3. ExistsBijection(1..n, column(n))
    BY <2>1 DEF ExistsBijection
  <2> QED  BY <2>2, <2>3, FS_Bijection
<1>2. IsFiniteSet(rest)
  BY FS_Subset
<1>3. Tokens(f) = rest \cup column(f[s]) /\ Tokens(g) = rest \cup column(g[s])
  <2>1. Tokens(f) = rest \cup column(f[s])
    BY DEF Tokens
  <2>2. \A x \in TaskIds \X (Nat \ {0}) :
           (x \in Tokens(g)) = (IF x[1] = s THEN x[2] <= g[s] ELSE x[2] <= f[x[1]])
    BY DEF Tokens
  <2>3. Tokens(g) = rest \cup column(g[s])
    BY <2>2 DEF Tokens
  <2> QED  BY <2>1, <2>3
<1>4. \A n \in Nat : rest \cap column(n) = {}
  OBVIOUS
<1>5. ASSUME NEW n \in Nat
      PROVE  IsFiniteSet(rest \cup column(n))
             /\ Cardinality(rest \cup column(n)) = Cardinality(rest) + n
  <2>1. IsFiniteSet(column(n)) /\ Cardinality(column(n)) = n /\ rest \cap column(n) = {}
    BY <1>1, <1>4
  <2>2. Cardinality(rest \cap column(n)) = 0
    BY <2>1, FS_EmptySet
  <2> HIDE DEF rest, column
  <2>3. Cardinality(rest) \in Nat
    BY <1>2, FS_CardinalityType
  <2>4. IsFiniteSet(rest \cup column(n))
        /\ Cardinality(rest \cup column(n))
              = Cardinality(rest) + Cardinality(column(n)) - Cardinality(rest \cap column(n))
    BY <1>2, <2>1, FS_Union, Zenon
  <2> QED  BY <2>1, <2>2, <2>3, <2>4
<1>6. Cardinality(rest) \in Nat /\ f[s] \in Nat /\ g[s] \in Nat
  BY <1>2, FS_CardinalityType
<1> HIDE DEF rest, column
<1>7. Cardinality(Tokens(f)) = Cardinality(rest) + f[s]
      /\ Cardinality(Tokens(g)) = Cardinality(rest) + g[s] /\ IsFiniteSet(Tokens(g))
  BY <1>3, <1>5, <1>6
<1> QED  BY <1>6, <1>7

\* Numbers that are no greater have no more tokens.
LEMMA TokensLess ==
    ASSUME NEW f \in [TaskIds -> Nat], NEW g \in [TaskIds -> Nat],
           \A t \in TaskIds : g[t] <= f[t], IsFiniteSet(Tokens(f))
    PROVE  /\ IsFiniteSet(Tokens(g))
           /\ Cardinality(Tokens(f)) \in Nat /\ Cardinality(Tokens(g)) \in Nat
           /\ Cardinality(Tokens(g)) <= Cardinality(Tokens(f))
<1>1. Tokens(g) \subseteq Tokens(f)
  BY DEF Tokens
<1> QED  BY <1>1, FS_Subset, FS_CardinalityType

\* The product of the tries, for one try less.
LEMMA TryTaken ==
    ASSUME NEW n \in 0..MaxTries, n < MaxTries
    PROVE  /\ (MaxTries - n) * MaxTries = (MaxTries - (n + 1)) * MaxTries + MaxTries
           /\ (MaxTries - (n + 1)) * MaxTries \in Nat
<1> USE NamesAreNew
<1> DEFINE a == MaxTries - (n + 1)
<1>1. a \in Nat /\ MaxTries - n = a + 1
  OBVIOUS
<1> HIDE DEF a
<1>2. (a + 1) * MaxTries = a * MaxTries + MaxTries /\ a * MaxTries \in Nat
  BY <1>1
<1> QED  BY <1>1, <1>2 DEF a

LEMMA LeftType ==
    \A j : \A task \in Scan \cup Reminder \cup {Free} : Left(task, j) \in Nat
<1> USE NamesAreNew
<1> SUFFICES ASSUME NEW j, NEW task \in Scan \cup Reminder \cup {Free}
             PROVE  Left(task, j) \in Nat
  OBVIOUS
<1>1. CASE task = Free
  BY <1>1 DEF Left
<1>2. CASE task \in Scan
  <2>1. task.tries \in 0..MaxTries /\ task.kind = "scan" /\ task # Free
    BY <1>2 DEF Scan
  <2>2. MaxTries - task.tries \in Nat
    BY <2>1
  <2>3. (MaxTries - task.tries) * MaxTries \in Nat
    BY <2>2
  <2> QED  BY <2>1, <2>3 DEF Left
<1>3. CASE task \in Reminder
  <2>1. task.tries \in 0..MaxTries /\ task.kind = "remind" /\ task # Free
    BY <1>3 DEF Reminder
  <2>2. MaxTries - task.tries \in Nat
    BY <2>1
  <2> QED  BY <2>1, <2>2 DEF Left
<1> QED  BY <1>1, <1>2, <1>3

\* A step that leaves no task more than it had, sends nothing and adds no scan.
LEMMA BudgetKept ==
    ASSUME BudgetInv, RemindersInv', NEW j \in JobIds,
           \A t \in TaskIds : Left(tasks'[t], j) <= Left(tasks[t], j),
           emails'[j] = emails[j], scans' = scans
    PROVE  WithinBudget(j)'
<1> DEFINE f == LeftOf(tasks, j)
           g == LeftOf(tasks', j)
<1>1. f \in [TaskIds -> Nat] /\ g \in [TaskIds -> Nat]
  BY LeftType DEF LeftOf, BudgetInv, RemindersInv, TypeOK
<1>2. \A t \in TaskIds : g[t] <= f[t]
  BY DEF LeftOf
<1>3. IsFiniteSet(Tokens(f))
      /\ (scans < MaxScans => emails[j] + Cardinality(Tokens(f)) <= scans * (MaxTries * MaxTries))
  BY DEF BudgetInv, WithinBudget
<1> HIDE DEF f, g
<1>4. /\ IsFiniteSet(Tokens(g)) /\ Cardinality(Tokens(f)) \in Nat /\ Cardinality(Tokens(g)) \in Nat
      /\ Cardinality(Tokens(g)) <= Cardinality(Tokens(f))
  BY <1>1, <1>2, <1>3, TokensLess
<1>5. emails[j] \in Nat /\ scans * (MaxTries * MaxTries) \in Nat
  BY NamesAreNew DEF BudgetInv, RemindersInv, TypeOK
<1>6. scans' < MaxScans =>
         emails'[j] + Cardinality(Tokens(g)) <= scans' * (MaxTries * MaxTries)
  BY <1>3, <1>4, <1>5
<1> QED  BY <1>4, <1>6 DEF WithinBudget, LeftOf, g, Tokens

\* A step that gives one task something else to send.
LEMMA BudgetMoved ==
    ASSUME BudgetInv, RemindersInv', NEW j \in JobIds, NEW s \in TaskIds,
           \A t \in TaskIds \ {s} : Left(tasks'[t], j) = Left(tasks[t], j),
           scans' < MaxScans =>
              /\ scans < MaxScans
              /\ emails'[j] + Left(tasks'[s], j) + scans * (MaxTries * MaxTries)
                    <= emails[j] + Left(tasks[s], j) + scans' * (MaxTries * MaxTries)
    PROVE  WithinBudget(j)'
<1> DEFINE f == LeftOf(tasks, j)
           g == LeftOf(tasks', j)
<1>1. f \in [TaskIds -> Nat] /\ g \in [TaskIds -> Nat]
  BY LeftType DEF LeftOf, BudgetInv, RemindersInv, TypeOK
<1>2. /\ \A t \in TaskIds \ {s} : g[t] = f[t]
      /\ f[s] = Left(tasks[s], j) /\ g[s] = Left(tasks'[s], j)
  BY DEF LeftOf
<1>3. IsFiniteSet(Tokens(f))
      /\ (scans < MaxScans => emails[j] + Cardinality(Tokens(f)) <= scans * (MaxTries * MaxTries))
  BY DEF BudgetInv, WithinBudget
<1> HIDE DEF f, g
<1>4. /\ IsFiniteSet(Tokens(g)) /\ Cardinality(Tokens(f)) \in Nat /\ Cardinality(Tokens(g)) \in Nat
      /\ Cardinality(Tokens(g)) + f[s] = Cardinality(Tokens(f)) + g[s]
  BY <1>1, <1>2, <1>3, TokensChange
<1>5. /\ emails[j] \in Nat /\ emails'[j] \in Nat /\ f[s] \in Nat /\ g[s] \in Nat
      /\ scans * (MaxTries * MaxTries) \in Nat /\ scans' * (MaxTries * MaxTries) \in Nat
  <2>1. /\ emails[j] \in Nat /\ emails'[j] \in Nat /\ scans \in Nat /\ scans' \in Nat
    BY NamesAreNew DEF BudgetInv, RemindersInv, TypeOK
  <2>2. MaxTries * MaxTries \in Nat
    BY NamesAreNew
  <2> QED  BY <1>1, <2>1, <2>2
<1>6. ASSUME scans' < MaxScans
      PROVE  emails'[j] + Cardinality(Tokens(g)) <= scans' * (MaxTries * MaxTries)
  <2> DEFINE before == scans * (MaxTries * MaxTries)
             after == scans' * (MaxTries * MaxTries)
  <2>1. emails[j] + Cardinality(Tokens(f)) <= before
        /\ emails'[j] + g[s] + before <= emails[j] + f[s] + after
    BY <1>2, <1>3, <1>6
  <2>2. before \in Nat /\ after \in Nat
    BY <1>5
  <2> HIDE DEF before, after
  <2>3. emails'[j] + Cardinality(Tokens(g)) <= after
    BY <1>4, <1>5, <2>1, <2>2
  <2> QED  BY <2>3 DEF after
<1> QED  BY <1>4, <1>6 DEF WithinBudget, LeftOf, g, Tokens

LEMMA InitBudget == Init => BudgetInv
<1> SUFFICES ASSUME Init PROVE BudgetInv
  OBVIOUS
<1>1. RemindersInv
  BY InitReminders
<1>2. ASSUME NEW j \in JobIds PROVE WithinBudget(j)
  <2>1. \A t \in TaskIds : LeftOf(tasks, j)[t] = 0
    BY DEF Init, LeftOf, Left
  <2>2. Tokens(LeftOf(tasks, j)) = {}
    BY <2>1 DEF Tokens
  <2>3. emails[j] = 0 /\ scans = 0
    BY DEF Init
  <2>4. 0 + 0 <= 0 * (MaxTries * MaxTries)
    BY NamesAreNew
  <2> QED  BY <2>2, <2>3, <2>4, FS_EmptySet DEF WithinBudget
<1> QED  BY <1>1, <1>2, NamesAreNew DEF BudgetInv, ListedOnce, Init

LEMMA LeftToNone == \A j : Left(Free, j) = 0
  BY DEF Left

\* What is left to the tasks that a worker starts or starts over.
LEMMA LeftAfter ==
    ASSUME NEW j \in JobIds
    PROVE  /\ \A task \in Reminder :
                 /\ task.tries < MaxTries /\ task.phase = "queued" =>
                       Left([task EXCEPT !.phase = "checked", !.tries = @ + 1], j) = Left(task, j)
                 /\ task.phase = "checked" =>
                       Left([task EXCEPT !.phase = "sent"], j)
                          + (IF task.job = j THEN 1 ELSE 0) = Left(task, j)
                 /\ Left([task EXCEPT !.phase = "queued"], j) <= Left(task, j)
                 /\ Left([task EXCEPT !.tries = MaxTries], j) <= Left(task, j)
           /\ \A task \in Scan :
                 /\ \A todo \in SUBSET (JobIds \X Users) : task.tries < MaxTries =>
                       Left([task EXCEPT !.phase = "running", !.tries = @ + 1, !.todo = todo], j)
                          <= Left(task, j)
                 /\ Left([task EXCEPT !.phase = "queued", !.todo = {}], j) <= Left(task, j)
                 /\ Left([task EXCEPT !.tries = MaxTries], j) <= Left(task, j)
<1> USE NamesAreNew
<1>1. ASSUME NEW task \in Reminder
      PROVE  /\ task.tries < MaxTries /\ task.phase = "queued" =>
                   Left([task EXCEPT !.phase = "checked", !.tries = @ + 1], j) = Left(task, j)
             /\ task.phase = "checked" =>
                   Left([task EXCEPT !.phase = "sent"], j)
                      + (IF task.job = j THEN 1 ELSE 0) = Left(task, j)
             /\ Left([task EXCEPT !.phase = "queued"], j) <= Left(task, j)
             /\ Left([task EXCEPT !.tries = MaxTries], j) <= Left(task, j)
  <2>1. task.tries \in 0..MaxTries /\ task.phase \in {"queued", "checked", "sent"}
    BY DEF Reminder
  <2>2. \A other \in Reminder : other.job = task.job =>
           Left(other, j) = IF task.job # j THEN 0
                            ELSE (MaxTries - other.tries)
                                    + (IF other.phase = "checked" THEN 1 ELSE 0)
    BY KindsDiffer DEF Left
  <2>3. ASSUME task.tries < MaxTries, task.phase = "queued"
        PROVE  Left([task EXCEPT !.phase = "checked", !.tries = @ + 1], j) = Left(task, j)
    <3> DEFINE n == task.tries + 1
               next == [task EXCEPT !.phase = "checked", !.tries = n]
    <3>1. n \in 0..MaxTries /\ MaxTries - task.tries = (MaxTries - n) + 1
      BY <2>1, <2>3
    <3> HIDE DEF n
    <3>2. next \in Reminder /\ next.job = task.job /\ next.tries = n /\ next.phase = "checked"
      BY <3>1 DEF Reminder
    <3> HIDE DEF next
    <3>3. Left(next, j) = Left(task, j)
      BY <2>1, <2>2, <2>3, <3>1, <3>2
    <3> QED  BY <3>3 DEF next, n
  <2>4. ASSUME task.phase = "checked"
        PROVE  Left([task EXCEPT !.phase = "sent"], j)
                  + (IF task.job = j THEN 1 ELSE 0) = Left(task, j)
    <3> DEFINE next == [task EXCEPT !.phase = "sent"]
    <3>1. next \in Reminder /\ next.job = task.job /\ next.tries = task.tries
          /\ next.phase = "sent"
      BY DEF Reminder
    <3> HIDE DEF next
    <3>2. Left(next, j) + (IF task.job = j THEN 1 ELSE 0) = Left(task, j)
      BY <2>1, <2>2, <2>4, <3>1
    <3> QED  BY <3>2 DEF next
  <2>5. Left([task EXCEPT !.phase = "queued"], j) <= Left(task, j)
    <3> DEFINE next == [task EXCEPT !.phase = "queued"]
    <3>1. next \in Reminder /\ next.job = task.job /\ next.tries = task.tries
          /\ next.phase = "queued"
      BY DEF Reminder
    <3> HIDE DEF next
    <3>2. Left(next, j) <= Left(task, j)
      BY <2>1, <2>2, <3>1
    <3> QED  BY <3>2 DEF next
  <2>6. Left([task EXCEPT !.tries = MaxTries], j) <= Left(task, j)
    <3> DEFINE next == [task EXCEPT !.tries = MaxTries]
    <3>1. next \in Reminder /\ next.job = task.job /\ next.tries = MaxTries
          /\ next.phase = task.phase
      BY DEF Reminder
    <3> HIDE DEF next
    <3>2. Left(next, j) <= Left(task, j)
      BY <2>1, <2>2, <3>1
    <3> QED  BY <3>2 DEF next
  <2> QED  BY <2>3, <2>4, <2>5, <2>6
<1>2. ASSUME NEW task \in Scan
      PROVE  /\ \A todo \in SUBSET (JobIds \X Users) : task.tries < MaxTries =>
                   Left([task EXCEPT !.phase = "running", !.tries = @ + 1, !.todo = todo], j)
                      <= Left(task, j)
             /\ Left([task EXCEPT !.phase = "queued", !.todo = {}], j) <= Left(task, j)
             /\ Left([task EXCEPT !.tries = MaxTries], j) <= Left(task, j)
  <2> DEFINE listed(todo) == IF \E p \in todo : p[1] = j THEN MaxTries ELSE 0
             tries == (MaxTries - task.tries) * MaxTries
  <2>1. task.tries \in 0..MaxTries /\ task.kind = "scan" /\ task # Free
    BY DEF Scan
  <2>2. Left(task, j) = tries + listed(task.todo)
    BY <2>1 DEF Left
  <2>3. tries \in Nat
    <3>1. MaxTries - task.tries \in Nat
      BY <2>1
    <3> QED  BY <3>1
  <2>4. ASSUME NEW todo \in SUBSET (JobIds \X Users), task.tries < MaxTries
        PROVE  Left([task EXCEPT !.phase = "running", !.tries = @ + 1, !.todo = todo], j)
                  <= Left(task, j)
    <3> DEFINE next == [task EXCEPT !.phase = "running", !.tries = @ + 1, !.todo = todo]
               fewer == (MaxTries - (task.tries + 1)) * MaxTries
    <3>1. next \in Scan /\ next.kind = "scan" /\ next.tries = task.tries + 1 /\ next.todo = todo
      <4>1. task.tries + 1 \in 0..MaxTries
        BY <2>1, <2>4
      <4> DEFINE other == [task EXCEPT !.phase = "running", !.tries = task.tries + 1,
                                       !.todo = todo]
      <4>2. other = next
        OBVIOUS
      <4>3. other \in Scan /\ other.kind = "scan" /\ other.tries = task.tries + 1
            /\ other.todo = todo
        BY <4>1 DEF Scan
      <4> QED  BY <4>2, <4>3, Zenon
    <3>2. Left(next, j) = fewer + listed(todo)
      <4> HIDE DEF next
      <4> QED  BY <3>1 DEF Left
    <3>3. tries = fewer + MaxTries /\ fewer \in Nat
      BY <2>1, <2>4, TryTaken
    <3>4. listed(todo) \in 0..MaxTries /\ listed(task.todo) \in 0..MaxTries
      OBVIOUS
    <3> HIDE DEF next, fewer, tries, listed
    <3>5. Left(next, j) <= Left(task, j)
      BY <2>2, <3>2, <3>3, <3>4
    <3> QED  BY <3>5 DEF next
  <2>5. Left([task EXCEPT !.phase = "queued", !.todo = {}], j) <= Left(task, j)
    <3> DEFINE next == [task EXCEPT !.phase = "queued", !.todo = {}]
    <3>1. next \in Scan /\ next.kind = "scan" /\ next.tries = task.tries /\ next.todo = {}
      BY DEF Scan
    <3>2. Left(next, j) = tries + 0
      <4> HIDE DEF next
      <4> QED  BY <3>1 DEF Left
    <3>3. listed(task.todo) \in 0..MaxTries
      OBVIOUS
    <3> HIDE DEF next, tries, listed
    <3>4. Left(next, j) <= Left(task, j)
      BY <2>2, <2>3, <3>2, <3>3
    <3> QED  BY <3>4 DEF next
  <2>6. Left([task EXCEPT !.tries = MaxTries], j) <= Left(task, j)
    <3> DEFINE next == [task EXCEPT !.tries = MaxTries]
    <3>1. next \in Scan /\ next.kind = "scan" /\ next.tries = MaxTries /\ next.todo = task.todo
      BY DEF Scan
    <3>2. (MaxTries - MaxTries) * MaxTries = 0
      OBVIOUS
    <3>3. Left(next, j) = 0 + listed(task.todo)
      <4> HIDE DEF next
      <4> QED  BY <3>1, <3>2 DEF Left
    <3>4. listed(task.todo) \in 0..MaxTries
      OBVIOUS
    <3> HIDE DEF next, tries, listed
    <3>5. Left(next, j) <= Left(task, j)
      BY <2>2, <2>3, <3>3, <3>4
    <3> QED  BY <3>5 DEF next
  <2> QED  BY <2>4, <2>5, <2>6
<1> QED  BY <1>1, <1>2

\* A reminder hands over what one entry of a scan's list stood for.
LEMMA LeftHandedOver ==
    ASSUME NEW j, NEW task \in Scan, ListedOnce(task), NEW p \in task.todo
    PROVE  /\ Left([task EXCEPT !.todo = @ \ {p}], j)
                 + Left(ReminderFor(p), j) = Left(task, j)
           /\ ListedOnce([task EXCEPT !.todo = @ \ {p}])
<1> USE NamesAreNew
<1> DEFINE rest == [task EXCEPT !.todo = task.todo \ {p}]
           tries == (MaxTries - task.tries) * MaxTries
           listed(todo) == IF \E q \in todo : q[1] = j THEN MaxTries ELSE 0
<1>1. /\ task.todo \subseteq JobIds \X Users /\ task.kind = "scan" /\ task # Free
      /\ task.tries \in 0..MaxTries
  BY DEF Scan
<1>2. rest \in Scan /\ rest.kind = "scan" /\ rest.tries = task.tries
      /\ rest.todo = task.todo \ {p}
  BY <1>1 DEF Scan
<1>3. Left(task, j) = tries + listed(task.todo)
  BY <1>1 DEF Left
<1>4. Left(rest, j) = tries + listed(task.todo \ {p})
  <2> HIDE DEF rest
  <2> QED  BY <1>2 DEF Left
<1>5. Left(ReminderFor(p), j) = IF p[1] = j THEN MaxTries ELSE 0
  <2>1. ReminderFor(p) \in Reminder
    BY <1>1 DEF ReminderFor, Reminder
  <2>2. /\ ReminderFor(p).kind = "remind" /\ ReminderFor(p).job = p[1]
        /\ ReminderFor(p).tries = 0 /\ ReminderFor(p).phase = "queued"
    BY DEF ReminderFor
  <2> QED  BY <2>1, <2>2 DEF Left
<1>6. listed(task.todo) = listed(task.todo \ {p}) + (IF p[1] = j THEN MaxTries ELSE 0)
  <2>1. p[1] = j => ~ \E q \in task.todo \ {p} : q[1] = j
    BY DEF ListedOnce
  <2> QED  BY <2>1
<1>7. tries \in Nat
  <2>1. MaxTries - task.tries \in Nat
    BY <1>1
  <2> QED  BY <2>1
<1>8. listed(task.todo \ {p}) \in Nat
  OBVIOUS
<1>9. ListedOnce(rest)
  <2> HIDE DEF rest
  <2> QED  BY <1>2 DEF ListedOnce
<1>10. Left(rest, j) + Left(ReminderFor(p), j) = Left(task, j)
  <2> HIDE DEF rest, tries, listed
  <2> QED  BY <1>3, <1>4, <1>5, <1>6, <1>7, <1>8
<1> QED  BY <1>9, <1>10 DEF rest

\* Steps that leave the queue alone leave the budget alone.
LEMMA BudgetRowSteps ==
    ASSUME BudgetInv, RemindersInv', UNCHANGED <<tasks, scans, emails>>
    PROVE  BudgetInv'
<1>1. ASSUME NEW j \in JobIds PROVE WithinBudget(j)'
  BY LeftType, BudgetKept DEF BudgetInv, RemindersInv, TypeOK
<1> QED  BY <1>1 DEF BudgetInv, ListedOnce

LEMMA BudgetQueueSteps ==
    ASSUME BudgetInv, RemindersInv', NEW t \in TaskIds,
           (\E by \in Users \cup {Cron} : Trigger(t, by)) \/ WorkerStep(t)
    PROVE  BudgetInv'
<1> USE NamesAreNew
<1>0. /\ tasks = [s \in TaskIds |-> tasks[s]] /\ scans \in 0..MaxScans
      /\ scans' \in 0..MaxScans /\ emails \in [JobIds -> Nat] /\ emails' \in [JobIds -> Nat]
      /\ \A s \in TaskIds : /\ TaskKnown(tasks[s]) /\ ListedOnce(tasks[s])
                            /\ tasks[s] \in Scan \cup Reminder \cup {Free}
                            /\ tasks'[s] \in Scan \cup Reminder \cup {Free}
      /\ \A j \in JobIds : \A s \in TaskIds : Left(tasks[s], j) \in Nat
                                              /\ Left(tasks'[s], j) \in Nat
  BY LeftType DEF BudgetInv, RemindersInv, TypeOK
\* A step that changes one slot and leaves no more to it.
<1>1. ASSUME NEW task, tasks' = [tasks EXCEPT ![t] = task], ListedOnce(task),
             UNCHANGED <<scans, emails>>,
             \A j \in JobIds : Left(task, j) <= Left(tasks[t], j)
      PROVE  BudgetInv'
  <2>1. \A s \in TaskIds : tasks'[s] = IF s = t THEN task ELSE tasks[s]
    BY <1>0, <1>1
  <2>2. ASSUME NEW j \in JobIds PROVE WithinBudget(j)'
    <3>1. \A s \in TaskIds : Left(tasks'[s], j) <= Left(tasks[s], j)
      BY <1>0, <1>1, <2>1
    <3> QED  BY <1>1, <3>1, BudgetKept
  <2>3. \A s \in TaskIds : ListedOnce(tasks'[s])
    BY <1>0, <1>1, <2>1
  <2> QED  BY <2>2, <2>3 DEF BudgetInv, ListedOnce
<1>2. ASSUME NEW by \in Users \cup {Cron}, Trigger(t, by) PROVE BudgetInv'
  <2> DEFINE task == [kind |-> "scan", by |-> by, phase |-> "queued", tries |-> 0, todo |-> {}]
  <2>1. task \in Scan /\ task.kind = "scan" /\ task.tries = 0 /\ task.todo = {}
    BY DEF Scan
  <2>2. /\ tasks[t] = Free /\ tasks' = [tasks EXCEPT ![t] = task] /\ UNCHANGED emails
        /\ scans' = IF scans < MaxScans THEN scans + 1 ELSE scans
    BY <1>2 DEF Trigger
  <2> HIDE DEF task
  <2>3. \A s \in TaskIds : tasks'[s] = IF s = t THEN task ELSE tasks[s]
    BY <1>0, <2>2
  <2>4. ASSUME NEW j \in JobIds PROVE WithinBudget(j)'
    <3>1. Left(tasks[t], j) = 0
      BY <2>2, LeftToNone
    <3>2. Left(tasks'[t], j) = MaxTries * MaxTries
      <4>1. Left(task, j) = (MaxTries - 0) * MaxTries + 0
        BY <2>1 DEF Left
      <4>2. (MaxTries - 0) * MaxTries + 0 = MaxTries * MaxTries
        OBVIOUS
      <4> QED  BY <2>3, <4>1, <4>2
    <3>3. ASSUME scans' < MaxScans
          PROVE  scans < MaxScans
                 /\ scans' * (MaxTries * MaxTries)
                       = scans * (MaxTries * MaxTries) + MaxTries * MaxTries
      <4>1. scans' = scans + 1 /\ scans \in Nat /\ scans < MaxScans
        BY <1>0, <2>2, <3>3
      <4> DEFINE square == MaxTries * MaxTries
      <4>2. square \in Nat
        OBVIOUS
      <4> HIDE DEF square
      <4>3. (scans + 1) * square = scans * square + square
        BY <4>1, <4>2
      <4> QED  BY <4>1, <4>3 DEF square
    <3>4. \A s \in TaskIds \ {t} : Left(tasks'[s], j) = Left(tasks[s], j)
      BY <2>3
    <3>5. /\ emails[j] \in Nat /\ emails'[j] = emails[j] /\ scans \in Nat
          /\ MaxTries * MaxTries \in Nat
      BY <1>0, <2>2
    <3>6. scans * (MaxTries * MaxTries) \in Nat
      BY <3>5
    <3>7. scans' < MaxScans =>
             /\ scans < MaxScans
             /\ emails'[j] + Left(tasks'[t], j) + scans * (MaxTries * MaxTries)
                   <= emails[j] + Left(tasks[t], j) + scans' * (MaxTries * MaxTries)
      <4> DEFINE square == MaxTries * MaxTries
                 before == scans * square
      <4>1. square \in Nat /\ before \in Nat
        BY <3>5, <3>6
      <4> HIDE DEF square, before
      <4> QED  BY <3>1, <3>2, <3>3, <3>5, <4>1 DEF square, before
    <3> QED  BY <3>4, <3>7, BudgetMoved
  <2>5. \A s \in TaskIds : ListedOnce(tasks'[s])
    BY <1>0, <2>1, <2>3 DEF ListedOnce
  <2> QED  BY <2>4, <2>5 DEF BudgetInv, ListedOnce
<1>3. ASSUME StartScan(t) PROVE BudgetInv'
  <2>1. tasks[t] \in Scan /\ tasks[t].phase = "queued" /\ tasks[t].tries < MaxTries
    BY <1>0, <1>3, KindsDiffer DEF StartScan, Is, TaskKnown
  <2> DEFINE todo == {<<j, jobs[j].owner>> : j \in {i \in JobIds : Stale(i)}}
             task == [tasks[t] EXCEPT !.phase = "running", !.tries = @ + 1, !.todo = todo]
  <2>2. tasks' = [tasks EXCEPT ![t] = task] /\ UNCHANGED <<emails, scans>>
    BY <1>0, <1>3 DEF StartScan
  <2>3. todo \in SUBSET (JobIds \X Users) /\ \A p, q \in todo : p[1] = q[1] => p = q
    BY DEF BudgetInv, RemindersInv, TypeOK, Stale, Exists, Row
  <2> HIDE DEF todo
  <2>4. task.todo = todo
    BY <2>1 DEF Scan
  <2>5. \A j \in JobIds : Left(task, j) <= Left(tasks[t], j)
    BY <2>1, <2>3, LeftAfter
  <2> HIDE DEF task
  <2>6. ListedOnce(task)
    BY <2>3, <2>4 DEF ListedOnce
  <2> QED  BY <1>1, <2>2, <2>5, <2>6
<1>4. ASSUME EnqueueReminder(t) PROVE BudgetInv'
  <2>1. tasks[t] \in Scan
    BY <1>0, <1>4, KindsDiffer DEF EnqueueReminder, Is
  <2>2. PICK p \in tasks[t].todo, s \in TaskIds :
          /\ tasks[s] = Free
          /\ tasks' = [tasks EXCEPT ![t].todo = @ \ {p}, ![s] = ReminderFor(p)]
    BY <1>4 DEF EnqueueReminder
  <2>3. UNCHANGED <<emails, scans>> /\ s # t
    BY <1>4, <2>1, <2>2 DEF EnqueueReminder
  <2> DEFINE scan == [tasks[t] EXCEPT !.todo = @ \ {p}]
  <2>4. \A q \in TaskIds : tasks'[q] = IF q = s THEN ReminderFor(p)
                                       ELSE IF q = t THEN scan ELSE tasks[q]
    BY <1>0, <2>2, <2>3
  <2>5. ListedOnce(scan)
        /\ \A j \in JobIds : Left(scan, j) + Left(ReminderFor(p), j) = Left(tasks[t], j)
    BY <1>0, <2>1, <2>2, LeftHandedOver
  <2> HIDE DEF scan
  <2>6. ASSUME NEW j \in JobIds PROVE WithinBudget(j)'
    <3> DEFINE f == LeftOf(tasks, j)
               h == [f EXCEPT ![t] = Left(scan, j)]
               g == LeftOf(tasks', j)
    <3>1. Left(tasks[s], j) = 0 /\ Left(scan, j) \in Nat /\ Left(ReminderFor(p), j) \in Nat
      BY <1>0, <2>2, <2>3, <2>4, LeftToNone
    <3>2. f \in [TaskIds -> Nat] /\ h \in [TaskIds -> Nat] /\ g \in [TaskIds -> Nat]
      BY <1>0, <3>1 DEF LeftOf
    <3>3. /\ \A q \in TaskIds \ {t} : h[q] = f[q]
          /\ \A q \in TaskIds \ {s} : g[q] = h[q]
          /\ f[t] = Left(tasks[t], j) /\ h[t] = Left(scan, j)
          /\ h[s] = 0 /\ g[s] = Left(ReminderFor(p), j)
      BY <2>3, <2>4, <3>1 DEF LeftOf
    <3>4. IsFiniteSet(Tokens(f))
          /\ (scans < MaxScans =>
                 emails[j] + Cardinality(Tokens(f)) <= scans * (MaxTries * MaxTries))
      BY DEF BudgetInv, WithinBudget
    <3> HIDE DEF f, g, h
    <3>5. /\ IsFiniteSet(Tokens(h)) /\ Cardinality(Tokens(f)) \in Nat
          /\ Cardinality(Tokens(h)) \in Nat
          /\ Cardinality(Tokens(h)) + f[t] = Cardinality(Tokens(f)) + h[t]
      BY <3>2, <3>3, <3>4, TokensChange
    <3>6. /\ IsFiniteSet(Tokens(g)) /\ Cardinality(Tokens(g)) \in Nat
          /\ Cardinality(Tokens(g)) + h[s] = Cardinality(Tokens(h)) + g[s]
      BY <3>2, <3>3, <3>5, TokensChange
    <3>7. Cardinality(Tokens(g)) = Cardinality(Tokens(f))
      <4>1. f[t] \in Nat /\ h[t] \in Nat /\ g[s] \in Nat /\ h[t] + g[s] = f[t]
        BY <2>5, <3>1, <3>2, <3>3
      <4> QED  BY <3>3, <3>5, <3>6, <4>1
    <3>8. scans' < MaxScans =>
             emails'[j] + Cardinality(Tokens(g)) <= scans' * (MaxTries * MaxTries)
      BY <2>3, <3>4, <3>7
    <3> QED  BY <3>6, <3>8 DEF WithinBudget, LeftOf, g, Tokens
  <2>7. \A q \in TaskIds : ListedOnce(tasks'[q])
    <3>1. ReminderFor(p) \notin Scan
      BY KindsDiffer DEF ReminderFor
    <3> QED  BY <1>0, <2>4, <2>5, <3>1 DEF ListedOnce
  <2> QED  BY <2>6, <2>7 DEF BudgetInv, ListedOnce
<1>5. ASSUME FinishScan(t) \/ FinishReminder(t) PROVE BudgetInv'
  <2>1. tasks' = [tasks EXCEPT ![t] = Free] /\ UNCHANGED <<emails, scans>>
    BY <1>5 DEF FinishScan, FinishReminder
  <2>2. \A j \in JobIds : Left(Free, j) <= Left(tasks[t], j)
    BY <1>0, LeftToNone
  <2> QED  BY <1>1, <2>1, <2>2 DEF ListedOnce
<1>6. ASSUME CheckReminder(t) PROVE BudgetInv'
  <2>1. tasks[t] \in Reminder /\ tasks[t].phase = "queued" /\ tasks[t].tries < MaxTries
    BY <1>0, <1>6, KindsDiffer DEF CheckReminder, Is, TaskKnown
  <2> DEFINE task == [tasks[t] EXCEPT !.phase = "checked", !.tries = @ + 1]
  <2>2. /\ tasks' = [tasks EXCEPT ![t] = Free] \/ tasks' = [tasks EXCEPT ![t] = task]
        /\ UNCHANGED <<emails, scans>>
    BY <1>0, <1>6 DEF CheckReminder
  <2>3. \A j \in JobIds : Left(Free, j) <= Left(tasks[t], j) /\ Left(task, j) <= Left(tasks[t], j)
    <3> SUFFICES ASSUME NEW j \in JobIds
                 PROVE  Left(Free, j) <= Left(tasks[t], j) /\ Left(task, j) <= Left(tasks[t], j)
      OBVIOUS
    <3>1. Left(Free, j) = 0 /\ Left(tasks[t], j) \in Nat
      BY <1>0, LeftToNone
    <3>2. Left(task, j) = Left(tasks[t], j)
      BY <2>1, LeftAfter
    <3> HIDE DEF task
    <3> QED  BY <3>1, <3>2
  <2>4. task.kind = "remind"
    BY <2>1, KindsDiffer
  <2> HIDE DEF task
  <2>5. ListedOnce(task) /\ ListedOnce(Free)
    BY <2>4, KindsDiffer DEF ListedOnce
  <2> QED  BY <1>1, <2>2, <2>3, <2>5
<1>7. ASSUME SendEmail(t) PROVE BudgetInv'
  <2>1. tasks[t] \in Reminder /\ tasks[t].phase = "checked"
    BY <1>0, <1>7, KindsDiffer DEF SendEmail, Is
  <2> DEFINE task == [tasks[t] EXCEPT !.phase = "sent"]
  <2>2. /\ tasks' = [tasks EXCEPT ![t] = task] /\ UNCHANGED scans /\ tasks[t].job \in JobIds
        /\ \A j \in JobIds : emails'[j] <= emails[j] + (IF tasks[t].job = j THEN 1 ELSE 0)
    <3>1. tasks[t].job \in JobIds
      BY <2>1 DEF Reminder
    <3> QED  BY <1>0, <1>7, <3>1 DEF SendEmail
  <2>3. \A j \in JobIds : Left(task, j) + (IF tasks[t].job = j THEN 1 ELSE 0) = Left(tasks[t], j)
    BY <2>1, LeftAfter
  <2>4. task.kind = "remind"
    BY <2>1, KindsDiffer
  <2> HIDE DEF task
  <2>5. \A s \in TaskIds : tasks'[s] = IF s = t THEN task ELSE tasks[s]
    BY <1>0, <2>2
  <2>6. ASSUME NEW j \in JobIds PROVE WithinBudget(j)'
    <3>1. \A s \in TaskIds \ {t} : Left(tasks'[s], j) = Left(tasks[s], j)
      BY <2>5
    <3>2. emails'[j] + Left(tasks'[t], j) <= emails[j] + Left(tasks[t], j)
      <4>1. /\ emails[j] \in Nat /\ emails'[j] \in Nat /\ Left(tasks[t], j) \in Nat
            /\ Left(tasks'[t], j) \in Nat /\ tasks'[t] = task
        BY <1>0, <2>5
      <4> QED  BY <2>2, <2>3, <4>1
    <3>3. scans * (MaxTries * MaxTries) \in Nat
      BY <1>0
    <3>4. scans' < MaxScans =>
             /\ scans < MaxScans
             /\ emails'[j] + Left(tasks'[t], j) + scans * (MaxTries * MaxTries)
                   <= emails[j] + Left(tasks[t], j) + scans' * (MaxTries * MaxTries)
      <4> DEFINE before == scans * (MaxTries * MaxTries)
      <4>1. /\ emails[j] \in Nat /\ emails'[j] \in Nat /\ Left(tasks[t], j) \in Nat
            /\ Left(tasks'[t], j) \in Nat /\ before \in Nat
        BY <1>0, <3>3
      <4> HIDE DEF before
      <4>2. emails'[j] + Left(tasks'[t], j) + before <= emails[j] + Left(tasks[t], j) + before
        BY <3>2, <4>1
      <4> QED  BY <2>2, <4>2 DEF before
    <3> QED  BY <3>1, <3>4, BudgetMoved
  <2>7. \A s \in TaskIds : ListedOnce(tasks'[s])
    BY <1>0, <2>4, <2>5, KindsDiffer DEF ListedOnce
  <2> QED  BY <2>6, <2>7 DEF BudgetInv, ListedOnce
<1> QED  BY <1>2, <1>3, <1>4, <1>5, <1>6, <1>7 DEF WorkerStep

LEMMA BudgetFaultSteps ==
    ASSUME BudgetInv, RemindersInv',
           WorkerCrash \/ RedisRestart \/ (\E t \in TaskIds : TaskRaises(t))
    PROVE  BudgetInv'
<1> USE NamesAreNew
<1>0. /\ tasks = [s \in TaskIds |-> tasks[s]] /\ UNCHANGED <<scans, emails>>
      /\ \A s \in TaskIds : ListedOnce(tasks[s]) /\ tasks[s] \in Scan \cup Reminder \cup {Free}
      /\ \A j \in JobIds : \A s \in TaskIds : Left(tasks[s], j) \in Nat
  BY LeftType
  DEF BudgetInv, RemindersInv, TypeOK, WorkerCrash, RedisRestart, TaskRaises
<1>1. \A t \in TaskIds :
         \/ tasks'[t] \in {tasks[t], Free}
         \/ Running(t) /\ tasks'[t] \in {Requeued(tasks[t]), [tasks[t] EXCEPT !.tries = MaxTries]}
  BY <1>0 DEF WorkerCrash, RedisRestart, TaskRaises
<1>2. ASSUME NEW t \in TaskIds
      PROVE  ListedOnce(tasks'[t]) /\ \A j \in JobIds : Left(tasks'[t], j) <= Left(tasks[t], j)
  <2>1. CASE tasks'[t] = tasks[t]
    BY <1>0, <2>1
  <2>2. CASE tasks'[t] = Free
    BY <1>0, <2>2, LeftToNone DEF ListedOnce
  <2>3. CASE tasks[t] \in Reminder
             /\ tasks'[t] \in {[tasks[t] EXCEPT !.phase = "queued"],
                               [tasks[t] EXCEPT !.tries = MaxTries]}
    <3>1. tasks'[t].kind = "remind"
      BY <2>3 DEF Reminder
    <3> QED  BY <2>3, <3>1, LeftAfter, KindsDiffer DEF ListedOnce
  <2>4. CASE tasks[t] \in Scan
             /\ tasks'[t] \in {[tasks[t] EXCEPT !.phase = "queued", !.todo = {}],
                               [tasks[t] EXCEPT !.tries = MaxTries]}
    <3>1. tasks'[t].todo \subseteq tasks[t].todo
      BY <2>4 DEF Scan
    <3>2. ListedOnce(tasks'[t])
      BY <1>0, <2>4, <3>1 DEF ListedOnce
    <3> QED  BY <2>4, <3>2, LeftAfter
  <2> QED  BY <1>0, <1>1, <2>1, <2>2, <2>3, <2>4, KindsDiffer DEF Running, Requeued
<1>3. ASSUME NEW j \in JobIds PROVE WithinBudget(j)'
  BY <1>0, <1>2, BudgetKept
<1> QED  BY <1>2, <1>3 DEF BudgetInv, ListedOnce

LEMMA StepBudget == BudgetInv /\ [Next]_vars => BudgetInv'
<1>0. BudgetInv /\ [Next]_vars => RemindersInv'
  BY StepReminders DEF BudgetInv
<1>1. ASSUME BudgetInv, Next, RemindersInv' PROVE BudgetInv'
  <2>1. UserStep \/ Day => UNCHANGED <<tasks, scans, emails>>
    BY DEF UserStep, CreateJob, ChangeStatus, ChangeDate, DeleteJob, Day
  <2> QED  BY <1>1, <2>1, BudgetRowSteps, BudgetQueueSteps, BudgetFaultSteps DEF Next, CronFires
<1>2. ASSUME BudgetInv, UNCHANGED vars, RemindersInv' PROVE BudgetInv'
  BY <1>2, BudgetRowSteps DEF vars
<1> QED  BY <1>0, <1>1, <1>2

-----------------------------------------------------------------------------
(* The theorems                                                            *)

\* The queue's entries and the rows keep their types; no task is started more
\* than MaxTries times.
THEOREM TypeCorrect == Spec => []TypeOK
<1>1. RemindersInv => TypeOK
  BY DEF RemindersInv
<1> QED  BY InitReminders, StepReminders, <1>1, PTL DEF Spec

\* The owner check of send_followup_reminder never has to fire: a reminder, and
\* a scan's list, name the owner of the row as long as there is one.
THEOREM OwnersReminded == Spec => []RemindersAddressed
<1>1. RemindersInv => RemindersAddressed
  <2> SUFFICES ASSUME RemindersInv PROVE RemindersAddressed
    OBVIOUS
  <2>1. \A j \in JobIds, u \in Users : Known(j, u) /\ Exists(j) => jobs[j].owner = u
    BY DEF Known, RemindersInv, LivingIds
  <2>2. ASSUME NEW t \in TaskIds
        PROVE  /\ tasks[t] \in Reminder /\ Exists(tasks[t].job)
                     => jobs[tasks[t].job].owner = tasks[t].user
               /\ tasks[t] \in Scan =>
                     \A p \in tasks[t].todo : Exists(p[1]) => jobs[p[1]].owner = p[2]
    <3>1. TaskKnown(tasks[t])
      BY DEF RemindersInv
    <3>2. tasks[t] \in Reminder => tasks[t].job \in JobIds /\ tasks[t].user \in Users
      BY DEF Reminder
    <3>3. tasks[t] \in Scan => \A p \in tasks[t].todo : p[1] \in JobIds /\ p[2] \in Users
      BY DEF Scan
    <3> QED  BY <2>1, <3>1, <3>2, <3>3 DEF TaskKnown
  <2> QED  BY <2>2 DEF RemindersAddressed
<1> QED  BY InitReminders, StepReminders, <1>1, PTL DEF Spec

\* Retries of scans and of reminders multiply, and in no other way: before the
\* count of scans saturates, a job has been written about at most MaxTries *
\* MaxTries times for each of them, however many jobs and tasks there are and
\* whatever crashes, is lost or raises.
THEOREM RetriesBounded == Spec => []EmailsBounded
<1>1. BudgetInv => EmailsBounded
  <2> SUFFICES ASSUME BudgetInv, scans < MaxScans, NEW j \in JobIds
               PROVE  emails[j] <= scans * MaxTries * MaxTries
    BY DEF EmailsBounded
  <2>1. IsFiniteSet(Tokens(LeftOf(tasks, j)))
        /\ emails[j] + Cardinality(Tokens(LeftOf(tasks, j))) <= scans * (MaxTries * MaxTries)
    BY DEF BudgetInv, WithinBudget
  <2>2. Cardinality(Tokens(LeftOf(tasks, j))) \in Nat
    BY <2>1, FS_CardinalityType
  <2>3. emails[j] \in Nat /\ scans \in Nat /\ MaxTries \in Nat
    BY NamesAreNew DEF BudgetInv, RemindersInv, TypeOK
  <2>4. scans * (MaxTries * MaxTries) = scans * MaxTries * MaxTries
    BY <2>3
  <2>5. scans * (MaxTries * MaxTries) \in Nat
    BY <2>3
  <2> DEFINE bound == scans * (MaxTries * MaxTries)
  <2> HIDE DEF bound
  <2>6. emails[j] <= bound
    BY <2>1, <2>2, <2>3, <2>5 DEF bound
  <2> QED  BY <2>4, <2>6 DEF bound
<1> QED  BY InitBudget, StepBudget, <1>1, PTL DEF Spec

=============================================================================
