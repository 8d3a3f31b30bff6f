----------------------------- MODULE RunPipeline -----------------------------
(***************************************************************************)
(* The life of a verification run across the processes that touch its row: *)
(*                                                                         *)
(*  - csw-server saves a pending run and enqueues its execution task       *)
(*    (ScheduleRun), and cancels runs (CancelRun);                         *)
(*  - csw-worker creates runs from cron fires (HandleScheduledRun),        *)
(*    executes tasks (HandleExecuteRun, ExecuteRun.Execute) and sweeps     *)
(*    finished rows (HandlePruneOldRuns);                                  *)
(*  - asynq (external) delivers a task, retries it up to MaxRetry times    *)
(*    after an error, a timeout or a lost lease, then archives it.         *)
(*                                                                         *)
(* A process loads a row once, works on its in-memory copy and saves the   *)
(* whole copy back by an upsert that compares nothing (RunRepo.Save), so   *)
(* load, save and every diff insert are steps of their own here.           *)
(***************************************************************************)
EXTENDS RunAggregate

CONSTANTS
    RunIds,      \* run identifiers; NewRunID never repeats one
    NoRun,       \* "not working on any run"
    Workers,     \* concurrent handler slots over all csw-worker processes
    Cancellers,  \* concurrent POST /runs/{id}/cancel requests
    NItems,      \* (subject, metric) comparisons one execution makes
    MaxRetry,    \* EnqueueOptions.MaxRetry
    Retention,   \* age in clock units after which a finished row is swept
    MaxTime,     \* bound on the clock
    Faults,      \* TRUE: crashes, timeouts, failing DB and queue calls occur
    Overlap      \* TRUE: a lease may lapse while its worker is still alive

ASSUME RunPipelineAssumption ==
    /\ NoRun \notin RunIds
    /\ NItems \in Nat /\ MaxRetry \in Nat
    /\ Retention \in Nat \ {0} /\ MaxTime \in Nat
    /\ Faults \in BOOLEAN /\ Overlap \in BOOLEAN

VARIABLES
    now,         \* the wall clock every process reads
    runs,        \* the runs table
    minted,      \* run ids handed out so far
    diffs,       \* diffs[r][i]: discrepancy rows of run r for comparison i
    toEnqueue,   \* runs saved by a process that has not enqueued them yet
    taskState,   \* the execute_run task of each run, as asynq sees it
    retried,     \* asynq's retry count of that task
    pc,          \* where each worker slot is inside ExecuteRun.Execute
    job,         \* the run it executes
    copy,        \* its in-memory Run
    next,        \* the next comparison of its execution
    live,        \* its context has not expired
    owner,       \* asynq still counts it as the holder of the task
    cancelling,  \* the run each cancel request has loaded, or NoRun
    cancelCopy,  \* its in-memory Run, already cancelled
    execs        \* history: times the pipeline of each run was entered

storeVars  == <<now, runs, minted, diffs>>
queueVars  == <<toEnqueue, taskState, retried>>
workerVars == <<pc, job, copy, next, live, owner>>
cancelVars == <<cancelling, cancelCopy>>
vars == <<storeVars, queueVars, workerVars, cancelVars, execs>>

Time  == 0..MaxTime
Items == 1..NItems
PC == {"idle", "load", "saveStarted", "executing", "saveFailed", "saveCompleted"}
TaskState == {"none", "queued", "active", "done", "archived"}

\* The pcs at which a worker holds a copy of a row that it may still write.
Holding == {"saveStarted", "executing", "saveFailed", "saveCompleted"}

Init ==
    /\ now = 0
    /\ runs = [r \in RunIds |-> Absent]
    /\ minted = {}
    /\ diffs = [r \in RunIds |-> [i \in Items |-> 0]]
    /\ toEnqueue = {}
    /\ taskState = [r \in RunIds |-> "none"]
    /\ retried = [r \in RunIds |-> 0]
    /\ pc = [w \in Workers |-> "idle"]
    /\ job = [w \in Workers |-> NoRun]
    /\ copy = [w \in Workers |-> Absent]
    /\ next = [w \in Workers |-> 1]
    /\ live = [w \in Workers |-> FALSE]
    /\ owner = [w \in Workers |-> FALSE]
    /\ cancelling = [c \in Cancellers |-> NoRun]
    /\ cancelCopy = [c \in Cancellers |-> Absent]
    /\ execs = [r \in RunIds |-> 0]
-----------------------------------------------------------------------------
(* Creating runs.                                                          *)

\* ScheduleRun and HandleScheduledRun persist a pending run under a fresh id.
\* A manual trigger or a cron fire goes on to enqueue it; a ScheduledTrigger or
\* a RealtimeTrigger row is left as it is.
SubmitRun(r, dispatched) ==
    /\ r \notin minted
    /\ minted' = minted \cup {r}
    /\ runs' = [runs EXCEPT ![r] = NewRun]
    /\ toEnqueue' = IF dispatched THEN toEnqueue \cup {r} ELSE toEnqueue
    /\ UNCHANGED <<now, diffs, taskState, retried, workerVars, cancelVars, execs>>

\* EnqueueRunExecution reaches Redis (whether or not the caller hears of it).
Enqueue(r) ==
    /\ r \in toEnqueue
    /\ toEnqueue' = toEnqueue \ {r}
    /\ taskState' = [taskState EXCEPT ![r] = "queued"]
    /\ UNCHANGED <<storeVars, retried, workerVars, cancelVars, execs>>

\* It fails, or the process dies first: the row stays pending with no task.
EnqueueFails(r) ==
    /\ Faults
    /\ r \in toEnqueue
    /\ toEnqueue' = toEnqueue \ {r}
    /\ UNCHANGED <<storeVars, taskState, retried, workerVars, cancelVars, execs>>
-----------------------------------------------------------------------------
(* The task queue, modelled from how the worker uses asynq.                *)

\* Mutants of RetryOrArchive: one retry too many, and retries nobody counts.
RetryOnceMore(r) ==
    IF retried[r] <= MaxRetry
    THEN /\ taskState' = [taskState EXCEPT ![r] = "queued"]
         /\ retried' = [retried EXCEPT ![r] = @ + 1]
    ELSE /\ taskState' = [taskState EXCEPT ![r] = "archived"]
         /\ UNCHANGED retried
RetryUncounted(r) ==
    /\ taskState' = [taskState EXCEPT ![r] = "queued"]
    /\ UNCHANGED retried

\* A failed attempt is queued again while retries are left, else archived.
RetryOrArchive(r) ==
    IF retried[r] < MaxRetry
    THEN /\ taskState' = [taskState EXCEPT ![r] = "queued"]
         /\ retried' = [retried EXCEPT ![r] = @ + 1]
    ELSE /\ taskState' = [taskState EXCEPT ![r] = "archived"]
         /\ UNCHANGED retried

\* A processor goroutine takes a queued task and calls HandleExecuteRun.
Deliver(w, r) ==
    /\ pc[w] = "idle"
    /\ taskState[r] = "queued"
    /\ taskState' = [taskState EXCEPT ![r] = "active"]
    /\ pc' = [pc EXCEPT ![w] = "load"]
    /\ job' = [job EXCEPT ![w] = r]
    /\ live' = [live EXCEPT ![w] = TRUE]
    /\ owner' = [owner EXCEPT ![w] = TRUE]
    /\ UNCHANGED <<storeVars, toEnqueue, retried, copy, next, cancelVars, execs>>

\* The slot is free again; nothing of the attempt remains in memory.
Release(w) ==
    /\ pc' = [pc EXCEPT ![w] = "idle"]
    /\ job' = [job EXCEPT ![w] = NoRun]
    /\ copy' = [copy EXCEPT ![w] = Absent]
    /\ next' = [next EXCEPT ![w] = 1]
    /\ live' = [live EXCEPT ![w] = FALSE]
    /\ owner' = [owner EXCEPT ![w] = FALSE]

\* The handler returns.  nil settles the task, an error wrapping SkipRetry
\* archives it, any other error retries it.  asynq no longer listens to a
\* worker whose lease or deadline has passed.
Return(w, outcome) ==
    /\ Release(w)
    /\ IF owner[w]
       THEN \/ /\ outcome = "nil"
               /\ taskState' = [taskState EXCEPT ![job[w]] = "done"]
               /\ UNCHANGED retried
            \/ /\ outcome = "skipRetry"
               /\ taskState' = [taskState EXCEPT ![job[w]] = "archived"]
               /\ UNCHANGED retried
            \/ /\ outcome = "error"
               /\ RetryOrArchive(job[w])
       ELSE UNCHANGED <<taskState, retried>>

\* The worker process dies; the task stays active until the lease runs out.
Crash(w) ==
    /\ Faults
    /\ pc[w] # "idle"
    /\ Release(w)
    /\ UNCHANGED <<storeVars, queueVars, cancelVars, execs>>

\* asynq's recoverer finds an active task whose lease nobody extends.
RecoverLease(r) ==
    /\ taskState[r] = "active"
    /\ \A w \in Workers : ~(owner[w] /\ job[w] = r)
    /\ RetryOrArchive(r)
    /\ UNCHANGED <<storeVars, toEnqueue, workerVars, cancelVars, execs>>

\* The 30 minute task timeout: asynq retries at once, the handler goroutine
\* goes on with an expired context.
Timeout(w) ==
    /\ Faults
    /\ pc[w] # "idle" /\ owner[w]
    /\ live' = [live EXCEPT ![w] = FALSE]
    /\ owner' = [owner EXCEPT ![w] = FALSE]
    /\ RetryOrArchive(job[w])
    /\ UNCHANGED <<storeVars, toEnqueue, pc, job, copy, next, cancelVars, execs>>

\* The lease lapses under a worker that is alive but paused: the task is
\* handed out again while its context is still good.
LeaseLost(w) ==
    /\ Overlap
    /\ pc[w] # "idle" /\ owner[w]
    /\ owner' = [owner EXCEPT ![w] = FALSE]
    /\ RetryOrArchive(job[w])
    /\ UNCHANGED <<storeVars, toEnqueue, pc, job, copy, next, live, cancelVars, execs>>

\* The processor notices and cancels the context.
ContextCancelled(w) ==
    /\ pc[w] # "idle" /\ live[w] /\ ~owner[w]
    /\ live' = [live EXCEPT ![w] = FALSE]
    /\ UNCHANGED <<storeVars, queueVars, pc, job, copy, next, owner, cancelVars, execs>>
-----------------------------------------------------------------------------
(* ExecuteRun.Execute in one worker slot.                                  *)

\* A repository call of w may return an error.
CallMayFail(w) == Faults \/ ~live[w]

\* Mutants of LoadAndStart: the error of Start is ignored; the started row is
\* never saved.
StartUnchecked(w) ==
    /\ pc[w] = "load" /\ live[w]
    /\ runs[job[w]].status # "absent"
    /\ copy' = [copy EXCEPT ![w] = Start(runs[job[w]], now)]
    /\ pc' = [pc EXCEPT ![w] = "saveStarted"]
    /\ UNCHANGED <<storeVars, queueVars, job, next, live, owner, cancelVars, execs>>
StartWithoutSave(w) ==
    /\ pc[w] = "load" /\ live[w]
    /\ CanStart(runs[job[w]])
    /\ copy' = [copy EXCEPT ![w] = Start(runs[job[w]], now)]
    /\ pc' = [pc EXCEPT ![w] = "executing"]
    /\ UNCHANGED <<storeVars, queueVars, job, next, live, owner, cancelVars, execs>>

\* FindByID finds a pending row; Start succeeds on the copy.
LoadAndStart(w) ==
    /\ pc[w] = "load" /\ live[w]
    /\ CanStart(runs[job[w]])
    /\ copy' = [copy EXCEPT ![w] = Start(runs[job[w]], now)]
    /\ pc' = [pc EXCEPT ![w] = "saveStarted"]
    /\ UNCHANGED <<storeVars, queueVars, job, next, live, owner, cancelVars, execs>>

\* The row is in any other status: Start refuses and the error is retried.
LoadRefused(w) ==
    /\ pc[w] = "load" /\ live[w]
    /\ runs[job[w]].status # "absent" /\ ~CanStart(runs[job[w]])
    /\ Return(w, "error")
    /\ UNCHANGED <<storeVars, toEnqueue, cancelVars, execs>>

\* ErrRunNotFound: the run was deleted; HandleExecuteRun skips the retry.
LoadMissing(w) ==
    /\ pc[w] = "load" /\ live[w]
    /\ runs[job[w]].status = "absent"
    /\ Return(w, "skipRetry")
    /\ UNCHANGED <<storeVars, toEnqueue, cancelVars, execs>>

LoadFails(w) ==
    /\ pc[w] = "load" /\ CallMayFail(w)
    /\ Return(w, "error")
    /\ UNCHANGED <<storeVars, toEnqueue, cancelVars, execs>>

\* Save(started) succeeds and executeInner begins.
SaveStarted(w) ==
    /\ pc[w] = "saveStarted" /\ live[w]
    /\ runs' = [runs EXCEPT ![job[w]] = copy[w]]
    /\ pc' = [pc EXCEPT ![w] = "executing"]
    /\ execs' = [execs EXCEPT ![job[w]] = @ + 1]
    /\ UNCHANGED <<now, minted, diffs, queueVars, job, copy, next, live, owner, cancelVars>>

\* Save(started) returns an error and so does Execute.  A statement whose
\* acknowledgement is lost has been committed all the same.
SaveStartedFails(w) ==
    /\ pc[w] = "saveStarted" /\ CallMayFail(w)
    /\ \/ UNCHANGED runs
       \/ live[w] /\ runs' = [runs EXCEPT ![job[w]] = copy[w]]
    /\ Return(w, "error")
    /\ UNCHANGED <<now, minted, diffs, toEnqueue, cancelVars, execs>>

\* One comparison of a pass: the sources agree, or too few of them answered,
\* which is how an expired context looks once a subject has been entered.
CompareAgrees(w) ==
    /\ pc[w] = "executing" /\ next[w] \in Items
    /\ next' = [next EXCEPT ![w] = @ + 1]
    /\ UNCHANGED <<storeVars, queueVars, pc, job, copy, live, owner, cancelVars, execs>>

\* They disagree: a discrepancy row is inserted.  The foreign key of
\* discrepancies.run_id needs the run's row.
CompareDisagrees(w) ==
    /\ pc[w] = "executing" /\ live[w] /\ next[w] \in Items
    /\ runs[job[w]].status # "absent"
    /\ diffs' = [diffs EXCEPT ![job[w]][next[w]] = @ + 1]
    /\ next' = [next EXCEPT ![w] = @ + 1]
    /\ UNCHANGED <<now, runs, minted, queueVars, pc, job, copy, live, owner, cancelVars, execs>>

\* Mutant of InnerError: Execute returns the inner error without failing the run.
InnerErrorUnsaved(w) ==
    /\ pc[w] = "executing" /\ next[w] = 1
    /\ Return(w, "error")
    /\ UNCHANGED <<storeVars, toEnqueue, cancelVars, execs>>

\* executeInner returns an error: source enumeration or chain head before the
\* first comparison, a violated foreign key at any, an expired context or a
\* failing call anywhere.  Fail succeeds on the in-memory copy.
InnerError(w) ==
    /\ pc[w] = "executing"
    /\ \/ next[w] = 1
       \/ CallMayFail(w)
       \/ next[w] \in Items /\ runs[job[w]].status = "absent"
    /\ copy' = [copy EXCEPT ![w] = Fail(copy[w], now)]
    /\ pc' = [pc EXCEPT ![w] = "saveFailed"]
    /\ UNCHANGED <<storeVars, queueVars, job, next, live, owner, cancelVars, execs>>

\* The failed copy is saved with the same context; either way the inner error
\* is what Execute returns.
SaveFailed(w) ==
    /\ pc[w] = "saveFailed" /\ live[w]
    /\ runs' = [runs EXCEPT ![job[w]] = copy[w]]
    /\ Return(w, "error")
    /\ UNCHANGED <<now, minted, diffs, toEnqueue, cancelVars, execs>>

SaveFailedFails(w) ==
    /\ pc[w] = "saveFailed" /\ CallMayFail(w)
    /\ Return(w, "error")
    /\ UNCHANGED <<storeVars, toEnqueue, cancelVars, execs>>

\* The passes are over; Complete succeeds on the in-memory copy.
InnerDone(w) ==
    /\ pc[w] = "executing" /\ next[w] = NItems + 1
    /\ copy' = [copy EXCEPT ![w] = Complete(copy[w], now)]
    /\ pc' = [pc EXCEPT ![w] = "saveCompleted"]
    /\ UNCHANGED <<storeVars, queueVars, job, next, live, owner, cancelVars, execs>>

SaveCompleted(w) ==
    /\ pc[w] = "saveCompleted" /\ live[w]
    /\ runs' = [runs EXCEPT ![job[w]] = copy[w]]
    /\ Return(w, "nil")
    /\ UNCHANGED <<now, minted, diffs, toEnqueue, cancelVars, execs>>

SaveCompletedFails(w) ==
    /\ pc[w] = "saveCompleted" /\ CallMayFail(w)
    /\ \/ UNCHANGED runs
       \/ live[w] /\ runs' = [runs EXCEPT ![job[w]] = copy[w]]
    /\ Return(w, "error")
    /\ UNCHANGED <<now, minted, diffs, toEnqueue, cancelVars, execs>>
-----------------------------------------------------------------------------
(* CancelRun and retention.                                                *)

\* CancelRun.Execute up to the domain transition.  A missing or finished run
\* is refused without a write.
CancelLoad(c, r) ==
    /\ cancelling[c] = NoRun
    /\ CanCancel(runs[r])
    /\ cancelling' = [cancelling EXCEPT ![c] = r]
    /\ cancelCopy' = [cancelCopy EXCEPT ![c] = Cancel(runs[r], now)]
    /\ UNCHANGED <<storeVars, queueVars, workerVars, execs>>

\* ... and its save, or the failure of it.
CancelSave(c) ==
    /\ cancelling[c] # NoRun
    /\ \/ runs' = [runs EXCEPT ![cancelling[c]] = cancelCopy[c]]
       \/ Faults /\ UNCHANGED runs
    /\ cancelling' = [cancelling EXCEPT ![c] = NoRun]
    /\ cancelCopy' = [cancelCopy EXCEPT ![c] = Absent]
    /\ UNCHANGED <<now, minted, diffs, queueVars, workerVars, execs>>

\* Mutant of Prunable: the sweep forgets the IS NOT NULL test.
PrunableNull(row) == row.finishedAt < now - Retention

\* finished_at IS NOT NULL AND finished_at < now - Days
Prunable(row) == row.finishedAt # Null /\ row.finishedAt < now - Retention

\* HandlePruneOldRuns: one DELETE; discrepancies go with their run.
Prune ==
    /\ \E r \in RunIds : Prunable(runs[r])
    /\ runs' = [r \in RunIds |-> IF Prunable(runs[r]) THEN Absent ELSE runs[r]]
    /\ diffs' = [r \in RunIds |-> IF Prunable(runs[r]) THEN [i \in Items |-> 0]
                                                       ELSE diffs[r]]
    /\ UNCHANGED <<now, minted, queueVars, workerVars, cancelVars, execs>>

Tick ==
    /\ now < MaxTime
    /\ now' = now + 1
    /\ UNCHANGED <<runs, minted, diffs, queueVars, workerVars, cancelVars, execs>>
-----------------------------------------------------------------------------
\* The steps a running worker takes by itself.
WorkerStep(w) ==
    \/ LoadAndStart(w) \/ LoadRefused(w) \/ LoadMissing(w) \/ LoadFails(w)
    \/ SaveStarted(w) \/ SaveStartedFails(w)
    \/ CompareAgrees(w) \/ CompareDisagrees(w)
    \/ InnerError(w) \/ SaveFailed(w) \/ SaveFailedFails(w)
    \/ InnerDone(w) \/ SaveCompleted(w) \/ SaveCompletedFails(w)

Next ==
    \/ \E r \in RunIds, dispatched \in BOOLEAN : SubmitRun(r, dispatched)
    \/ \E r \in RunIds : Enqueue(r) \/ EnqueueFails(r) \/ RecoverLease(r)
    \/ \E w \in Workers, r \in RunIds : Deliver(w, r)
    \/ \E w \in Workers : \/ WorkerStep(w)
                          \/ Crash(w) \/ Timeout(w)
                          \/ LeaseLost(w) \/ ContextCancelled(w)
    \/ \E c \in Cancellers, r \in RunIds : CancelLoad(c, r)
    \/ \E c \in Cancellers : CancelSave(c)
    \/ Prune
    \/ Tick

Spec == Init /\ [][Next]_vars

(***************************************************************************)
(* Fairness: a handler goroutine is scheduled until it returns, asynq keeps *)
(* handing out queued tasks and recovering lapsed leases, and a request     *)
(* that saved a run goes on to enqueue it.  Faults, cancellations, sweeps   *)
(* and the clock are under no obligation.                                   *)
(***************************************************************************)
Fairness ==
    /\ \A w \in Workers : WF_vars(WorkerStep(w))
    /\ \A r \in RunIds : /\ WF_vars(Enqueue(r))
                         /\ WF_vars(RecoverLease(r))
                         /\ WF_vars(\E w \in Workers : Deliver(w, r))

FairSpec == Spec /\ Fairness
-----------------------------------------------------------------------------
(* Properties.                                                             *)

TypeOK ==
    /\ now \in Time
    /\ runs \in [RunIds -> Row(Time)]
    /\ minted \in SUBSET RunIds
    /\ diffs \in [RunIds -> [Items -> Nat]]
    /\ toEnqueue \in SUBSET RunIds
    /\ taskState \in [RunIds -> TaskState]
    /\ retried \in [RunIds -> 0..MaxRetry]
    /\ pc \in [Workers -> PC]
    /\ job \in [Workers -> RunIds \cup {NoRun}]
    /\ copy \in [Workers -> Row(Time)]
    /\ next \in [Workers -> 1..(NItems + 1)]
    /\ live \in [Workers -> BOOLEAN]
    /\ owner \in [Workers -> BOOLEAN]
    /\ cancelling \in [Cancellers -> RunIds \cup {NoRun}]
    /\ cancelCopy \in [Cancellers -> Row(Time)]
    /\ execs \in [RunIds -> Nat]

\* However stale the copy a process writes back, the columns of every stored
\* row agree: started_at and finished_at are set exactly when the status says
\* so and lie in order, in the past (RunRepo.Save writes whole rows; the SQL of
\* PruneFinishedBefore reads finished_at instead of status).
InOrder(row) == Coherent(row) /\ row.startedAt <= now /\ row.finishedAt <= now
RowsCoherent == \A r \in RunIds : InOrder(runs[r])

\* What makes RowsCoherent inductive: every copy a process may still write back
\* is as coherent as a row, and where the process is tells its status.
CopiesCoherent ==
    /\ \A w \in Workers :
         /\ pc[w] # "idle" => job[w] \in RunIds
         /\ pc[w] \in Holding => InOrder(copy[w])
         /\ pc[w] \in {"saveStarted", "executing"} => copy[w].status = "running"
         /\ pc[w] = "saveFailed" => copy[w].status = "failed"
         /\ pc[w] = "saveCompleted" => copy[w].status = "completed"
    /\ \A c \in Cancellers :
         cancelling[c] # NoRun => InOrder(cancelCopy[c]) /\ cancelCopy[c].status = "cancelled"

\* A row only disappears once its run is finished and older than the retention
\* window: the sweep never takes a pending or running run with it
\* (PruneFinishedBefore: "never cancel in-flight work").
SweepTakesOnlyOldFinishedRuns ==
    [][\A r \in RunIds :
         (runs[r].status # "absent" /\ runs'[r].status = "absent")
            => /\ IsTerminal(runs[r].status)
               /\ runs[r].finishedAt + Retention < now]_vars

\* Some process holds an in-memory copy of r that it may still write back.
Held(r) ==
    \/ \E w \in Workers : job[w] = r /\ pc[w] \in Holding
    \/ \E c \in Cancellers : cancelling[c] = r

\* A run that is finished (or swept) and that no process holds a copy of is
\* settled for good: no retry, late delivery or cancel request gets hold of it
\* again, and its row changes only by being swept.  Start and Cancel refusing
\* every other status is what this rests on.
SettledForGood ==
    [][\A r \in RunIds :
         (r \in minted /\ ~CanCancel(runs[r]) /\ ~Held(r))
            => ~Held(r)' /\ runs'[r] \in {runs[r], Absent}]_vars

\* As long as leases do not lapse under living workers, the pipeline of a run
\* is entered at most once, over all its retries, timeouts and crashes, so
\* that no comparison is recorded twice.
NoComparisonRecordedTwice ==
    \A r \in RunIds : /\ execs[r] <= 1
                      /\ \A i \in Items : diffs[r][i] <= execs[r]

\* Without cancel requests a run with recorded discrepancies says when it
\* started: the row was saved as started before the first insert and no later
\* write forgets it.
DiffsBelongToStartedRuns ==
    \A r \in RunIds : (\E i \in Items : diffs[r][i] > 0) => runs[r].startedAt # Null

\* The runs table implements RunLifecycle: every stored change is one legal
\* transition of the aggregate.  It holds while nobody cancels and leases do
\* not lapse under living workers.
Lifecycle == INSTANCE RunLifecycle
    WITH RunIds <- RunIds, Time <- Time, runs <- runs, minted <- minted
ImplementsLifecycle == Lifecycle!Spec

\* Every task asynq accepted is eventually done or archived, whatever fails:
\* no attempt hangs and no failure is retried for ever.
TasksSettle ==
    \A r \in RunIds : (taskState[r] \in {"queued", "active"})
                         ~> (taskState[r] \in {"done", "archived"})

\* When nothing fails, a run that was submitted for execution finishes and
\* stays finished, cancel requests at any moment included.
SubmittedRunsFinish ==
    \A r \in RunIds : (r \in toEnqueue) ~> []~CanCancel(runs[r])

\* Status.IsTerminal: "a final state that no transition may leave".
TerminalIsFinal ==
    [][\A r \in RunIds : IsTerminal(runs[r].status)
                            => runs'[r].status \in {runs[r].status, "absent"}]_vars
=============================================================================
