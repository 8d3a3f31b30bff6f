------------------------------ MODULE Schedules ------------------------------
(***************************************************************************)
(* Recurring schedules, from the HTTP call to the runs they start.         *)
(*                                                                         *)
(*  - csw-server stores and soft-deletes schedule rows (ScheduleRecurring, *)
(*    CancelScheduled);                                                    *)
(*  - every csw-worker replica runs asynq's PeriodicTaskManager (external) *)
(*    which polls GetConfigs, keeps the last good answer as its view and   *)
(*    enqueues a scheduled_run task whenever the cron of an entry is due;  *)
(*  - a worker handles the task (HandleScheduledRun): it saves a fresh     *)
(*    pending run and enqueues its execution, both again on every retry.   *)
(*                                                                         *)
(* A cron expression is an hour of a day of Day hours, in UTC: the row's   *)
(* timezone never reaches the cron engine.  NoHour is one that NewSchedule *)
(* accepts and the engine does not parse, such as one of six fields: the   *)
(* manager logs it and leaves the entry out.                               *)
(***************************************************************************)
EXTENDS Integers, FiniteSets

CONSTANTS
    Jobs,         \* JobIDs; newJobID never repeats one
    Replicas,     \* csw-worker processes
    Tasks,        \* bound: identifiers of the scheduled_run tasks fired
    Day,          \* hours of a day
    MaxRetry,     \* EnqueueOptions.MaxRetry
    Faults,       \* TRUE: workers crash, polls, saves and enqueues fail
    Undecodable   \* TRUE: an upgrade may leave rows that no longer decode

ASSUME SchedulesAssumption ==
    /\ Jobs # {}
    /\ Day \in Nat \ {0} /\ MaxRetry \in Nat
    /\ Faults \in BOOLEAN /\ Undecodable \in BOOLEAN

VARIABLES
    hour,     \* the UTC hour
    rows,     \* rows[j]: "absent", "active" or "inactive"
    cron,     \* cron[j]: the hour the row says, or NoHour
    broken,   \* the rows toScheduleRecord refuses
    up,       \* the replicas whose scheduler is running
    view,     \* view[m]: the schedules replica m has registered
    due,      \* due[m]: the entries of m whose hour has come, not yet enqueued
    task,     \* task[t]: "none", "queued", "saved", "sent", "done" or "archived"
    fired,    \* fired[t]: its schedule
    retried,  \* asynq's retry count of it
    saved,    \* runs HandleScheduledRun saved for it
    started   \* runs it enqueued for execution

rowVars  == <<rows, cron, broken>>
taskVars == <<task, fired, retried, saved, started>>
vars == <<hour, rowVars, up, view, due, taskVars>>

Hours == 0..(Day - 1)
NoHour == Day
Active == {j \in Jobs : rows[j] = "active"}

Init ==
    /\ hour = 0
    /\ rows = [j \in Jobs |-> "absent"]
    /\ cron = [j \in Jobs |-> 0]
    /\ broken = {}
    /\ up = {}
    /\ view = [m \in Replicas |-> {}]
    /\ due = [m \in Replicas |-> {}]
    /\ task = [t \in Tasks |-> "none"]
    /\ fired = [t \in Tasks |-> CHOOSE j \in Jobs : TRUE]
    /\ retried = [t \in Tasks |-> 0]
    /\ saved = [t \in Tasks |-> 0]
    /\ started = [t \in Tasks |-> 0]
-----------------------------------------------------------------------------
(* The server's side.                                                      *)

ScheduleRecurring(j, h) ==
    /\ rows[j] = "absent"
    /\ rows' = [rows EXCEPT ![j] = "active"]
    /\ cron' = [cron EXCEPT ![j] = h]
    /\ UNCHANGED <<hour, broken, up, view, due, taskVars>>

\* Deactivate: an UPDATE that is a no-op for a missing id.
CancelScheduled(j) ==
    /\ rows[j] = "active"
    /\ rows' = [rows EXCEPT ![j] = "inactive"]
    /\ UNCHANGED <<hour, cron, broken, up, view, due, taskVars>>

\* A release drops a strategy kind or a metric key that the row refers to.
Upgrade(j) ==
    /\ Undecodable
    /\ rows[j] = "active" /\ j \notin broken
    /\ broken' = broken \cup {j}
    /\ UNCHANGED <<hour, rows, cron, up, view, due, taskVars>>
-----------------------------------------------------------------------------
(* The scheduler of a replica.                                             *)

\* Mutant of GetConfigs: the filter on active is missing.
GetConfigsAll == {j \in Jobs : rows[j] # "absent"}

\* What GetConfigs renders: every active row.
GetConfigs == Active

\* The entries the manager can register.
Registered == {j \in GetConfigs : cron[j] # NoHour}

\* ListActive fails as a whole when one active row does not decode.
ListActiveOk == Active \cap broken = {}

\* scheduler.Start returns after a successful first sync, otherwise the worker
\* exits.
Boot(m) ==
    /\ m \notin up /\ ListActiveOk
    /\ up' = up \cup {m}
    /\ view' = [view EXCEPT ![m] = Registered]
    /\ UNCHANGED <<hour, rowVars, due, taskVars>>

\* Mutant of Sync: cancelled entries are dropped but new ones never added.
SyncOnlyRemoves(m) ==
    /\ m \in up /\ ListActiveOk
    /\ view' = [view EXCEPT ![m] = @ \cap Registered]
    /\ due' = [due EXCEPT ![m] = @ \cap GetConfigs]
    /\ UNCHANGED <<hour, rowVars, up, taskVars>>

\* A later sync replaces the view.
Sync(m) ==
    /\ m \in up /\ ListActiveOk
    /\ view' = [view EXCEPT ![m] = Registered]
    /\ due' = [due EXCEPT ![m] = @ \cap GetConfigs]
    /\ UNCHANGED <<hour, rowVars, up, taskVars>>

\* The process stops; entries that were due are lost with it.
Crash(m) ==
    /\ Faults
    /\ m \in up
    /\ up' = up \ {m}
    /\ view' = [view EXCEPT ![m] = {}]
    /\ due' = [due EXCEPT ![m] = {}]
    /\ UNCHANGED <<hour, rowVars, taskVars>>

\* PeriodicTaskConfig.Cronspec is the bare cron expression.
FireHour(j) == cron[j]

\* The clock reaches the next hour once the entries of this one have fired.
Tick ==
    /\ \A m \in Replicas : due[m] = {}
    /\ hour' = (hour + 1) % Day
    /\ due' = [m \in Replicas |-> {j \in view[m] : FireHour(j) = hour'}]
    /\ UNCHANGED <<rowVars, up, view, taskVars>>

\* The entry enqueues its task.  No option makes the task unique, so every
\* replica enqueues one.
Fire(m, j, t) ==
    /\ j \in due[m]
    /\ task[t] = "none"
    /\ due' = [due EXCEPT ![m] = @ \ {j}]
    /\ task' = [task EXCEPT ![t] = "queued"]
    /\ fired' = [fired EXCEPT ![t] = j]
    /\ UNCHANGED <<hour, rowVars, up, view, retried, saved, started>>

\* Redis refuses it, or the bound on tasks is reached: this fire is lost.
FireLost(m, j) ==
    /\ j \in due[m]
    /\ Faults \/ \A t \in Tasks : task[t] # "none"
    /\ due' = [due EXCEPT ![m] = @ \ {j}]
    /\ UNCHANGED <<hour, rowVars, up, view, taskVars>>
-----------------------------------------------------------------------------
(* HandleScheduledRun.                                                     *)

\* Mutant of Retry: the failed attempt is settled as if it had succeeded.
RetryDropped(t) == task' = [task EXCEPT ![t] = "done"] /\ UNCHANGED retried

\* The handler returned a plain error.
Retry(t) ==
    IF retried[t] < MaxRetry
    THEN /\ task' = [task EXCEPT ![t] = "queued"]
         /\ retried' = [retried EXCEPT ![t] = @ + 1]
    ELSE task' = [task EXCEPT ![t] = "archived"] /\ UNCHANGED retried

\* Runs.Save of a pending run under a fresh id.
SaveRun(t) ==
    /\ task[t] = "queued" /\ fired[t] \notin broken
    /\ saved' = [saved EXCEPT ![t] = @ + 1]
    /\ task' = [task EXCEPT ![t] = "saved"]
    /\ UNCHANGED <<hour, rowVars, up, view, due, fired, retried, started>>

SaveRunFails(t) ==
    /\ Faults
    /\ task[t] = "queued" /\ fired[t] \notin broken
    /\ Retry(t)
    /\ UNCHANGED <<hour, rowVars, up, view, due, fired, saved, started>>

\* Mutant of RejectPayload: the task goes back to the queue as it is.
RejectPayloadRequeued(t) ==
    /\ task[t] = "queued" /\ fired[t] \in broken
    /\ UNCHANGED vars

\* The payload no longer decodes in this release: SkipRetry.
RejectPayload(t) ==
    /\ task[t] = "queued" /\ fired[t] \in broken
    /\ task' = [task EXCEPT ![t] = "archived"]
    /\ UNCHANGED <<hour, rowVars, up, view, due, fired, retried, saved, started>>

\* EnqueueRunExecution puts the task of the saved run into the queue.
EnqueueRun(t) ==
    /\ task[t] = "saved"
    /\ started' = [started EXCEPT ![t] = @ + 1]
    /\ task' = [task EXCEPT ![t] = "sent"]
    /\ UNCHANGED <<hour, rowVars, up, view, due, fired, retried, saved>>

\* It has no effect, or the worker dies before it, or the answer of the save was
\* lost: the saved run stays behind.
EnqueueRunFails(t) ==
    /\ Faults
    /\ task[t] = "saved"
    /\ Retry(t)
    /\ UNCHANGED <<hour, rowVars, up, view, due, fired, saved, started>>

\* The handler returns nil and asynq takes note of it.
Acknowledge(t) ==
    /\ task[t] = "sent"
    /\ task' = [task EXCEPT ![t] = "done"]
    /\ UNCHANGED <<hour, rowVars, up, view, due, fired, retried, saved, started>>

\* The answer of the enqueue is lost, or the worker dies before asynq takes note:
\* the fire is tried again although its run is in the queue.
Unacknowledged(t) ==
    /\ Faults
    /\ task[t] = "sent"
    /\ Retry(t)
    /\ UNCHANGED <<hour, rowVars, up, view, due, fired, saved, started>>
-----------------------------------------------------------------------------
Handler(t) ==
    \/ SaveRun(t) \/ SaveRunFails(t) \/ RejectPayload(t)
    \/ EnqueueRun(t) \/ EnqueueRunFails(t) \/ Acknowledge(t) \/ Unacknowledged(t)

Next ==
    \/ \E j \in Jobs, h \in Hours \cup {NoHour} : ScheduleRecurring(j, h)
    \/ \E j \in Jobs : CancelScheduled(j) \/ Upgrade(j)
    \/ \E m \in Replicas : Boot(m) \/ Sync(m) \/ Crash(m)
    \/ \E m \in Replicas, j \in Jobs : FireLost(m, j) \/ \E t \in Tasks : Fire(m, j, t)
    \/ Tick
    \/ \E t \in Tasks : Handler(t)

Spec == Init /\ [][Next]_vars

(***************************************************************************)
(* Fairness: the platform restarts workers, each keeps polling every ten   *)
(* seconds, time passes, due entries fire and handlers return.  Polls that *)
(* fail are steps that do nothing.                                         *)
(***************************************************************************)
Fairness ==
    /\ WF_vars(Tick)
    /\ \A m \in Replicas :
         /\ WF_vars(Boot(m)) /\ WF_vars(Sync(m))
         /\ \A j \in Jobs : WF_vars(FireLost(m, j) \/ \E t \in Tasks : Fire(m, j, t))
    /\ \A t \in Tasks : WF_vars(Handler(t))

FairSpec == Spec /\ Fairness
-----------------------------------------------------------------------------
(* Properties.                                                             *)

\* The books of HandleScheduledRun, however saves, enqueues, lost answers and
\* crashes interleave.  A fire that is done has started a run.  Each attempt
\* saves one run at most and starts no other, so that a fire starts no more runs
\* than it was tried: a second one only after a failed attempt, and never more
\* than MaxRetry + 1.  The runs it leaves pending for ever are no more than its
\* failed attempts.
FiresAccountedFor ==
    \A t \in Tasks :
        LET open == IF task[t] \in {"saved", "archived"} THEN 1 ELSE 0
        IN  /\ task[t] = "done" => started[t] >= 1
            /\ retried[t] <= MaxRetry
            /\ started[t] <= saved[t]
            /\ saved[t] <= retried[t] + (IF task[t] = "queued" THEN 0 ELSE 1)
            /\ saved[t] - started[t] <= retried[t] + open

\* Every fire comes to an end, by starting a run or by being archived.
FiresSettle == \A t \in Tasks : (task[t] = "queued") ~> (task[t] \in {"done", "archived"})

\* Polling converges.  No replica keeps or fires a cancelled schedule for ever,
\* and none stays without an active one for ever, unless a row that does not
\* decode makes every poll fail (CancelScheduled: asynq "stops emitting the task
\* at the next sync tick").
CancelledStopsFiring ==
    \A j \in Jobs, m \in Replicas :
        ~<>[](ListActiveOk /\ rows[j] = "inactive" /\ j \in view[m] \cup due[m])

\* The other half: a new schedule reaches every replica that keeps running,
\* whatever the others say, if the cron engine parses it.
SchedulesArePickedUp ==
    \A j \in Jobs, m \in Replicas :
        ~<>[](/\ ListActiveOk /\ rows[j] = "active" /\ cron[j] # NoHour
              /\ m \in up /\ j \notin view[m])
=============================================================================
