------------------------- MODULE RunPipelineProofs -------------------------
(***************************************************************************)
(* Proofs about RunPipeline for every set of runs, worker slots and cancel *)
(* requests and every value of the bounds: first what holds whatever       *)
(* happens to rows and their copies, then how often the pipeline of a run  *)
(* is entered and what its discrepancies and its stored transitions look   *)
(* like when no lease lapses under a living worker or nobody cancels.      *)
(***************************************************************************)
EXTENDS RunPipeline, TLAPS

\* The transitions of the aggregate keep rows well typed.
LEMMA RowOpsType ==
    ASSUME NEW T, NEW row \in Row(T), NEW t \in T
    PROVE  /\ Start(row, t) \in Row(T)
           /\ Complete(row, t) \in Row(T)
           /\ Fail(row, t) \in Row(T)
           /\ Cancel(row, t) \in Row(T)
           /\ Absent \in Row(T)
           /\ NewRun \in Row(T)
BY DEF Row, Status, TerminalStatus, Absent, NewRun, Start, Complete, Fail, Cancel

\* Each transition takes a coherent row of the past, in a status its guard
\* accepts, to a coherent row of the present.
LEMMA RowOpsInOrder ==
    ASSUME now \in Time, NEW row \in Row(Time), InOrder(row)
    PROVE  /\ CanStart(row) => InOrder(Start(row, now))
           /\ CanComplete(row) => InOrder(Complete(row, now))
           /\ row.status = "running" => InOrder(Fail(row, now))
           /\ CanCancel(row) => InOrder(Cancel(row, now))
           /\ InOrder(Absent) /\ InOrder(NewRun)
<1> USE RunPipelineAssumption
    DEF Time, Row, InOrder, Coherent, IsTerminal, Null, Status, TerminalStatus,
        Start, Complete, Fail, Cancel
<1>1. CanStart(row) => InOrder(Start(row, now))
  BY DEF CanStart
<1>2. CanComplete(row) => InOrder(Complete(row, now))
  BY DEF CanComplete
<1>3. row.status = "running" => InOrder(Fail(row, now))
  OBVIOUS
<1>4. CanCancel(row) => InOrder(Cancel(row, now))
  BY DEF CanCancel
<1>5. InOrder(Absent) /\ InOrder(NewRun)
  BY DEF Absent, NewRun
<1> QED
  BY <1>1, <1>2, <1>3, <1>4, <1>5

\* asynq's bookkeeping after a failed attempt stays in bounds.
LEMMA RetryEffect ==
    ASSUME TypeOK, NEW r \in RunIds, RetryOrArchive(r)
    PROVE  /\ taskState' \in [RunIds -> TaskState]
           /\ retried' \in [RunIds -> 0..MaxRetry]
<1>1. CASE retried[r] < MaxRetry
  <2>1. retried[r] + 1 \in 0..MaxRetry
    BY <1>1, RunPipelineAssumption DEF TypeOK
  <2>2. /\ taskState' = [taskState EXCEPT ![r] = "queued"]
        /\ retried' = [retried EXCEPT ![r] = retried[r] + 1]
    BY <1>1, Zenon DEF RetryOrArchive
  <2> QED
    BY <2>1, <2>2 DEF TypeOK, TaskState
<1>2. CASE ~(retried[r] < MaxRetry)
  BY <1>2 DEF RetryOrArchive, TypeOK, TaskState
<1> QED
  BY <1>1, <1>2

\* What a returning handler leaves behind.
LEMMA ReturnEffect ==
    ASSUME TypeOK, NEW w \in Workers, job[w] \in RunIds, NEW outcome, Return(w, outcome)
    PROVE  /\ Release(w)
           /\ taskState' \in [RunIds -> TaskState]
           /\ retried' \in [RunIds -> 0..MaxRetry]
<1>1. CASE owner[w] /\ outcome = "error" /\ RetryOrArchive(job[w])
  BY <1>1, RetryEffect DEF Return
<1>2. CASE taskState' = [taskState EXCEPT ![job[w]] = "done"] /\ UNCHANGED retried
  BY <1>2 DEF Return, TypeOK, TaskState
<1>3. CASE taskState' = [taskState EXCEPT ![job[w]] = "archived"] /\ UNCHANGED retried
  BY <1>3 DEF Return, TypeOK, TaskState
<1>4. CASE UNCHANGED <<taskState, retried>>
  BY <1>4 DEF Return, TypeOK
<1> QED
  BY <1>1, <1>2, <1>3, <1>4, Zenon DEF Return
-----------------------------------------------------------------------------
(* The rows and the copies of them.                                        *)

IInv == TypeOK /\ RowsCoherent /\ CopiesCoherent

\* A worker that returns or dies keeps no copy, so the invariant of the copies
\* survives whatever rows it leaves behind.
LEMMA ReleasePreserves ==
    ASSUME IInv, NEW w \in Workers, Release(w), UNCHANGED <<now, cancelVars>>
    PROVE  /\ pc' \in [Workers -> PC]
           /\ job' \in [Workers -> RunIds \cup {NoRun}]
           /\ copy' \in [Workers -> Row(Time)]
           /\ next' \in [Workers -> 1..(NItems + 1)]
           /\ live' \in [Workers -> BOOLEAN]
           /\ owner' \in [Workers -> BOOLEAN]
           /\ CopiesCoherent'
<1> USE RunPipelineAssumption DEF IInv, Release, TypeOK
<1>1. /\ pc' \in [Workers -> PC]
      /\ job' \in [Workers -> RunIds \cup {NoRun}]
      /\ next' \in [Workers -> 1..(NItems + 1)]
      /\ live' \in [Workers -> BOOLEAN]
      /\ owner' \in [Workers -> BOOLEAN]
  BY DEF PC
<1>2. copy' \in [Workers -> Row(Time)]
  BY RowOpsType
<1>3. CopiesCoherent'
  BY DEF CopiesCoherent, InOrder, Holding, cancelVars
<1> QED
  BY <1>1, <1>2, <1>3

\* A copy that a worker or a cancel request holds may be written to its row.
LEMMA SavePreserves ==
    ASSUME IInv, NEW r \in RunIds, NEW row \in Row(Time), InOrder(row),
           runs' = [runs EXCEPT ![r] = row], UNCHANGED now
    PROVE  runs' \in [RunIds -> Row(Time)] /\ RowsCoherent'
<1> USE DEF IInv, TypeOK
<1>1. runs' \in [RunIds -> Row(Time)]
  OBVIOUS
<1>2. RowsCoherent'
  BY DEF RowsCoherent, InOrder
<1> QED
  BY <1>1, <1>2

\* The queue's own steps touch neither the table nor the clock.
LEMMA TaskStepsPreserve ==
    ASSUME IInv, NEW r \in RunIds, Enqueue(r) \/ EnqueueFails(r) \/ RecoverLease(r)
    PROVE  IInv'
<1> USE DEF IInv, storeVars, cancelVars, workerVars
<1>1. RowsCoherent' /\ CopiesCoherent'
  BY DEF RowsCoherent, CopiesCoherent, InOrder, Enqueue, EnqueueFails, RecoverLease
<1>2. TypeOK'
  <2>1. CASE Enqueue(r) \/ EnqueueFails(r)
    BY <2>1 DEF Enqueue, EnqueueFails, TypeOK, TaskState
  <2>2. CASE RecoverLease(r)
    BY <2>2, RetryEffect DEF RecoverLease, TypeOK
  <2> QED
    BY <2>1, <2>2
<1> QED
  BY <1>1, <1>2

\* Neither do the steps by which it hands a task to a worker slot or takes it
\* away from one.
LEMMA SlotStepsPreserve ==
    ASSUME IInv, NEW w \in Workers,
           \/ \E r \in RunIds : Deliver(w, r)
           \/ Crash(w) \/ Timeout(w) \/ LeaseLost(w) \/ ContextCancelled(w)
    PROVE  IInv'
<1> USE DEF IInv, storeVars, queueVars, cancelVars
<1>0. pc[w] # "idle" => job[w] \in RunIds
  BY DEF CopiesCoherent
<1>1. RowsCoherent'
  BY DEF RowsCoherent, InOrder, Deliver, Crash, Timeout, LeaseLost, ContextCancelled
<1>2. ASSUME NEW r \in RunIds, Deliver(w, r) PROVE IInv'
  <2>1. TypeOK'
    BY <1>2 DEF Deliver, TypeOK, TaskState, PC
  <2>2. CopiesCoherent'
    BY <1>2 DEF Deliver, CopiesCoherent, InOrder, TypeOK, Holding
  <2> QED
    BY <1>1, <2>1, <2>2
<1>3. CASE Crash(w)
  <2>1. TypeOK'
    BY <1>3, ReleasePreserves DEF Crash, TypeOK
  <2> QED
    BY <1>1, <1>3, <2>1, ReleasePreserves DEF Crash
<1>4. CASE Timeout(w) \/ LeaseLost(w)
  <2>1. TypeOK'
    BY <1>0, <1>4, RetryEffect DEF Timeout, LeaseLost, TypeOK
  <2>2. CopiesCoherent'
    BY <1>4 DEF Timeout, LeaseLost, CopiesCoherent, InOrder
  <2> QED
    BY <1>1, <2>1, <2>2
<1>5. CASE ContextCancelled(w)
  <2>1. TypeOK'
    BY <1>5 DEF ContextCancelled, TypeOK
  <2>2. CopiesCoherent'
    BY <1>5 DEF ContextCancelled, CopiesCoherent, InOrder
  <2> QED
    BY <1>1, <2>1, <2>2
<1> QED
  BY <1>2, <1>3, <1>4, <1>5

\* A handler that returns, whether or not it saved its copy first.
LEMMA ReturningStepsPreserve ==
    ASSUME IInv, NEW w \in Workers,
           \/ LoadRefused(w) \/ LoadMissing(w) \/ LoadFails(w)
           \/ SaveStartedFails(w) \/ SaveFailed(w) \/ SaveFailedFails(w)
           \/ SaveCompleted(w) \/ SaveCompletedFails(w)
    PROVE  IInv'
<1>1. /\ pc[w] # "idle"
      /\ \E outcome \in {"nil", "skipRetry", "error"} : Return(w, outcome)
      /\ UNCHANGED <<now, minted, diffs, toEnqueue, cancelVars, execs>>
  BY DEF storeVars, LoadRefused, LoadMissing, LoadFails, SaveStartedFails, SaveFailed,
         SaveFailedFails, SaveCompleted, SaveCompletedFails
<1>2. job[w] \in RunIds
  BY <1>1 DEF IInv, CopiesCoherent
<1>3. PICK outcome \in {"nil", "skipRetry", "error"} : Return(w, outcome)
  BY <1>1
<1>4. /\ Release(w)
      /\ taskState' \in [RunIds -> TaskState]
      /\ retried' \in [RunIds -> 0..MaxRetry]
  BY <1>2, <1>3, ReturnEffect DEF IInv
<1>5. \/ UNCHANGED runs
      \/ pc[w] \in Holding /\ runs' = [runs EXCEPT ![job[w]] = copy[w]]
  BY DEF storeVars, LoadRefused, LoadMissing, LoadFails, SaveStartedFails, SaveFailed,
         SaveFailedFails, SaveCompleted, SaveCompletedFails, Holding
<1>6. runs' \in [RunIds -> Row(Time)] /\ RowsCoherent'
  <2>1. CASE UNCHANGED runs
    BY <1>1, <2>1 DEF IInv, TypeOK, RowsCoherent, InOrder
  <2>2. CASE pc[w] \in Holding /\ runs' = [runs EXCEPT ![job[w]] = copy[w]]
    <3>1. copy[w] \in Row(Time) /\ InOrder(copy[w])
      BY <2>2 DEF IInv, TypeOK, CopiesCoherent
    <3> QED
      BY <1>1, <1>2, <2>2, <3>1, SavePreserves
  <2> QED
    BY <1>5, <2>1, <2>2
<1>7. TypeOK'
  BY <1>1, <1>4, <1>6, ReleasePreserves DEF IInv, TypeOK, cancelVars
<1> QED
  BY <1>1, <1>4, <1>6, <1>7, ReleasePreserves DEF IInv

\* A handler that goes on: it takes a copy, saves it as started, compares, or
\* fails or completes its copy.
LEMMA WorkingStepsPreserve ==
    ASSUME IInv, NEW w \in Workers,
           \/ LoadAndStart(w) \/ SaveStarted(w) \/ CompareAgrees(w)
           \/ CompareDisagrees(w) \/ InnerError(w) \/ InnerDone(w)
    PROVE  IInv'
<1> USE DEF IInv, storeVars, queueVars, cancelVars
<1>0. pc[w] # "idle" /\ job[w] \in RunIds
  BY DEF CopiesCoherent, LoadAndStart, SaveStarted, CompareAgrees, CompareDisagrees,
         InnerError, InnerDone
<1>1. /\ runs[job[w]] \in Row(Time) /\ InOrder(runs[job[w]])
      /\ copy[w] \in Row(Time) /\ now \in Time
      /\ pc[w] \in Holding => InOrder(copy[w])
  BY <1>0 DEF TypeOK, RowsCoherent, CopiesCoherent
<1>2. CASE LoadAndStart(w)
  <2>1. Start(runs[job[w]], now) \in Row(Time) /\ InOrder(Start(runs[job[w]], now))
    BY <1>1, <1>2, RowOpsType, RowOpsInOrder DEF LoadAndStart
  <2>2. TypeOK'
    BY <1>2, <2>1 DEF LoadAndStart, TypeOK, PC
  <2>3. Start(runs[job[w]], now).status = "running"
    BY DEF Start
  <2>4. CopiesCoherent'
    BY <1>0, <1>2, <2>1, <2>3 DEF LoadAndStart, CopiesCoherent, TypeOK, InOrder, Holding
  <2>5. RowsCoherent'
    BY <1>2 DEF LoadAndStart, RowsCoherent, InOrder
  <2> QED
    BY <2>2, <2>4, <2>5
<1>3. CASE SaveStarted(w)
  <2>1. runs' \in [RunIds -> Row(Time)] /\ RowsCoherent'
    BY <1>0, <1>1, <1>3, SavePreserves DEF SaveStarted, Holding
  <2>2. TypeOK'
    BY <1>0, <1>3, <2>1 DEF SaveStarted, TypeOK, PC
  <2>3. CopiesCoherent'
    BY <1>3 DEF SaveStarted, CopiesCoherent, TypeOK, InOrder, Holding
  <2> QED
    BY <2>1, <2>2, <2>3
<1>4. CASE CompareAgrees(w) \/ CompareDisagrees(w)
  <2>1. next[w] + 1 \in 1..(NItems + 1) /\ next[w] \in Items
    BY <1>4, RunPipelineAssumption DEF CompareAgrees, CompareDisagrees, Items, TypeOK
  <2>2. diffs' \in [RunIds -> [Items -> Nat]]
    <3>1. CASE UNCHANGED diffs
      BY <3>1 DEF TypeOK
    <3>2. CASE diffs' = [diffs EXCEPT ![job[w]][next[w]] = @ + 1]
      <4>1. diffs[job[w]] \in [Items -> Nat] /\ diffs[job[w]][next[w]] + 1 \in Nat
        BY <1>0, <2>1 DEF TypeOK
      <4> QED
        BY <3>2, <4>1, <1>0, <2>1 DEF TypeOK
    <3> QED
      BY <1>4, <3>1, <3>2 DEF CompareAgrees, CompareDisagrees
  <2>3. TypeOK'
    BY <1>4, <2>1, <2>2 DEF CompareAgrees, CompareDisagrees, TypeOK
  <2>4. CopiesCoherent' /\ RowsCoherent'
    BY <1>4 DEF CompareAgrees, CompareDisagrees, CopiesCoherent, RowsCoherent, InOrder
  <2> QED
    BY <2>3, <2>4
<1>5. CASE InnerError(w) \/ InnerDone(w)
  <2>1. PICK row \in {Fail(copy[w], now), Complete(copy[w], now)}, p \in {"saveFailed", "saveCompleted"} :
          /\ copy' = [copy EXCEPT ![w] = row]
          /\ pc' = [pc EXCEPT ![w] = p]
          /\ p = "saveFailed" => row = Fail(copy[w], now)
          /\ p = "saveCompleted" => row = Complete(copy[w], now)
    BY <1>5 DEF InnerError, InnerDone
  <2>2. pc[w] = "executing" /\ copy[w].status = "running" /\ InOrder(copy[w])
    BY <1>5 DEF InnerError, InnerDone, CopiesCoherent, Holding
  <2>3. row \in Row(Time) /\ InOrder(row)
    BY <1>1, <2>1, <2>2, RowOpsType, RowOpsInOrder DEF CanComplete
  <2>4. TypeOK'
    BY <1>5, <2>1, <2>3 DEF InnerError, InnerDone, TypeOK, PC
  <2>5. /\ p = "saveFailed" => row.status = "failed"
        /\ p = "saveCompleted" => row.status = "completed"
    BY <2>1 DEF Fail, Complete
  <2>6. UNCHANGED <<now, runs, job, cancelling, cancelCopy>>
    BY <1>5 DEF InnerError, InnerDone
  <2>7. CopiesCoherent'
    BY <1>0, <2>1, <2>3, <2>5, <2>6 DEF CopiesCoherent, TypeOK, InOrder, Holding
  <2>8. RowsCoherent'
    BY <2>6 DEF RowsCoherent, InOrder
  <2> QED
    BY <2>4, <2>7, <2>8
<1> QED
  BY <1>2, <1>3, <1>4, <1>5

\* Creation, cancel requests, the sweep and the clock.
LEMMA OtherStepsPreserve ==
    ASSUME IInv,
           \/ \E r \in RunIds, d \in BOOLEAN : SubmitRun(r, d)
           \/ \E c \in Cancellers, r \in RunIds : CancelLoad(c, r)
           \/ \E c \in Cancellers : CancelSave(c)
           \/ Prune \/ Tick
    PROVE  IInv'
<1> USE DEF IInv, storeVars, queueVars, cancelVars, workerVars
<1>0. now \in Time
  BY DEF TypeOK
<1>1. ASSUME NEW r \in RunIds, NEW d \in BOOLEAN, SubmitRun(r, d) PROVE IInv'
  <2>1. NewRun \in Row(Time) /\ InOrder(NewRun)
    <3>1. runs[r] \in Row(Time) /\ InOrder(runs[r])
      BY DEF TypeOK, RowsCoherent
    <3> QED
      BY <1>0, <3>1, RowOpsType, RowOpsInOrder
  <2>2. runs' \in [RunIds -> Row(Time)] /\ RowsCoherent'
    BY <1>1, <2>1, SavePreserves DEF SubmitRun
  <2>3. TypeOK'
    BY <1>1, <2>2 DEF SubmitRun, TypeOK
  <2>4. CopiesCoherent'
    BY <1>1 DEF SubmitRun, CopiesCoherent, InOrder
  <2> QED
    BY <2>2, <2>3, <2>4
<1>2. ASSUME NEW c \in Cancellers, NEW r \in RunIds, CancelLoad(c, r) PROVE IInv'
  <2>1. Cancel(runs[r], now) \in Row(Time) /\ InOrder(Cancel(runs[r], now))
    <3>1. runs[r] \in Row(Time) /\ InOrder(runs[r])
      BY DEF TypeOK, RowsCoherent
    <3> QED
      BY <1>0, <1>2, <3>1, RowOpsType, RowOpsInOrder DEF CancelLoad
  <2>2. Cancel(runs[r], now).status = "cancelled"
    BY DEF Cancel
  <2>3. TypeOK'
    BY <1>2, <2>1 DEF CancelLoad, TypeOK
  <2>4. CopiesCoherent'
    BY <1>2, <2>1, <2>2 DEF CancelLoad, CopiesCoherent, TypeOK, InOrder
  <2>5. RowsCoherent'
    BY <1>2 DEF CancelLoad, RowsCoherent, InOrder
  <2> QED
    BY <2>3, <2>4, <2>5
<1>3. ASSUME NEW c \in Cancellers, CancelSave(c) PROVE IInv'
  <2>1. /\ cancelling[c] \in RunIds
        /\ cancelCopy[c] \in Row(Time) /\ InOrder(cancelCopy[c])
    BY <1>3 DEF CancelSave, TypeOK, CopiesCoherent
  <2>2. runs' \in [RunIds -> Row(Time)] /\ RowsCoherent'
    <3>1. CASE UNCHANGED runs
      BY <1>3, <3>1 DEF CancelSave, TypeOK, RowsCoherent, InOrder
    <3>2. CASE runs' = [runs EXCEPT ![cancelling[c]] = cancelCopy[c]]
      BY <1>3, <2>1, <3>2, SavePreserves DEF CancelSave
    <3> QED
      BY <1>3, <3>1, <3>2 DEF CancelSave
  <2>3. Absent \in Row(Time)
    BY <2>1, <1>0, RowOpsType
  <2>4. TypeOK'
    BY <1>3, <2>2, <2>3 DEF CancelSave, TypeOK
  <2>5. CopiesCoherent'
    BY <1>3 DEF CancelSave, CopiesCoherent, TypeOK, InOrder
  <2> QED
    BY <2>2, <2>4, <2>5
<1>4. ASSUME Prune PROVE IInv'
  <2>1. PICK r0 \in RunIds : Prunable(runs[r0])
    BY <1>4 DEF Prune
  <2>2. Absent \in Row(Time) /\ InOrder(Absent)
    <3>1. runs[r0] \in Row(Time) /\ InOrder(runs[r0])
      BY DEF TypeOK, RowsCoherent
    <3> QED
      BY <1>0, <3>1, RowOpsType, RowOpsInOrder
  <2>3. TypeOK'
    BY <1>4, <2>2 DEF Prune, TypeOK
  <2>4. RowsCoherent'
    BY <1>4, <2>2 DEF Prune, RowsCoherent, InOrder
  <2>5. CopiesCoherent'
    BY <1>4 DEF Prune, CopiesCoherent, InOrder
  <2> QED
    BY <2>3, <2>4, <2>5
<1>5. ASSUME Tick PROVE IInv'
  <2>1. now' \in Time /\ now' = now + 1 /\ now \in Int
    BY <1>5, RunPipelineAssumption DEF Tick, Time, TypeOK
  <2>2. TypeOK'
    BY <1>5, <2>1 DEF Tick, TypeOK
  <2>3. ASSUME NEW row \in Row(Time), InOrder(row) PROVE InOrder(row)'
    <3>1. row.startedAt \in Int /\ row.finishedAt \in Int
      BY RunPipelineAssumption DEF Row, Time, Null
    <3> QED
      BY <2>1, <2>3, <3>1 DEF InOrder
  <2>4. RowsCoherent'
    BY <1>5, <2>3 DEF Tick, RowsCoherent, TypeOK
  <2>5. CopiesCoherent'
    BY <1>5, <2>3 DEF Tick, CopiesCoherent, TypeOK
  <2> QED
    BY <2>2, <2>4, <2>5
<1> QED
  BY <1>1, <1>2, <1>3, <1>4, <1>5

\* Every step preserves the inductive invariant.
LEMMA InductiveStep ==
    ASSUME IInv, [Next]_vars
    PROVE  IInv'
<1>1. ASSUME NEW w \in Workers, WorkerStep(w) PROVE IInv'
  BY <1>1, WorkingStepsPreserve, ReturningStepsPreserve DEF WorkerStep
<1>2. ASSUME NEW w \in Workers, Crash(w) \/ Timeout(w) \/ LeaseLost(w) \/ ContextCancelled(w)
      PROVE  IInv'
  BY <1>2, SlotStepsPreserve
<1>3. ASSUME NEW w \in Workers, NEW r \in RunIds, Deliver(w, r) PROVE IInv'
  BY <1>3, SlotStepsPreserve
<1>4. ASSUME NEW r \in RunIds, Enqueue(r) \/ EnqueueFails(r) \/ RecoverLease(r)
      PROVE  IInv'
  BY <1>4, TaskStepsPreserve
<1>5. CASE UNCHANGED vars
  BY <1>5 DEF vars, storeVars, queueVars, workerVars, cancelVars, IInv, TypeOK,
              RowsCoherent, CopiesCoherent, InOrder
<1> QED
  BY <1>1, <1>2, <1>3, <1>4, <1>5, OtherStepsPreserve DEF Next

\* The inductive invariant: types, the coherence of every stored row, and the
\* coherence of every copy that may still be written over one.
THEOREM InductiveInvariant == Spec => []IInv
<1>1. Init => IInv
  <2> SUFFICES ASSUME Init PROVE IInv
    OBVIOUS
  <2>1. now \in Time /\ now = 0
    BY RunPipelineAssumption DEF Init, Time
  <2>2. Absent \in Row(Time) /\ InOrder(Absent)
    BY <2>1 DEF Absent, Row, Time, Null, InOrder, Coherent, IsTerminal, TerminalStatus
  <2>3. TypeOK
    BY <2>1, <2>2, RunPipelineAssumption DEF Init, TypeOK, TaskState, PC
  <2>4. RowsCoherent /\ CopiesCoherent
    BY <2>2 DEF Init, RowsCoherent, CopiesCoherent, Holding
  <2> QED
    BY <2>3, <2>4 DEF IInv
<1>2. IInv /\ [Next]_vars => IInv'
  BY InductiveStep
<1> QED
  BY <1>1, <1>2, PTL DEF Spec

\* Type correctness: in particular asynq never counts more than MaxRetry
\* retries.
THEOREM TypeCorrect == Spec => []TypeOK
BY InductiveInvariant, PTL DEF IInv

\* The columns of every stored row agree at all times.
THEOREM RowsStayCoherent == Spec => []RowsCoherent
BY InductiveInvariant, PTL DEF IInv
-----------------------------------------------------------------------------
(* Who writes a row, and who gets hold of a copy.                          *)

\* The only ways a stored row changes: creation under a fresh id, the write of
\* a copy some process holds, and the sweep.  A worker writes while its context
\* is good, either to begin its execution or in the last step of its attempt.
LEMMA RowWrites ==
    ASSUME IInv, [Next]_vars
    PROVE  \/ UNCHANGED runs
           \/ Prune
           \/ \E r \in RunIds, d \in BOOLEAN : SubmitRun(r, d)
           \/ \E w \in Workers : /\ live[w] /\ pc[w] \in Holding
                                 /\ runs' = [runs EXCEPT ![job[w]] = copy[w]]
                                 /\ SaveStarted(w) \/ Release(w)
           \/ \E c \in Cancellers : /\ cancelling[c] # NoRun
                                    /\ runs' = [runs EXCEPT ![cancelling[c]] = cancelCopy[c]]
<1> USE DEF storeVars
<1>1. ASSUME NEW w \in Workers, WorkerStep(w)
      PROVE  \/ UNCHANGED runs
             \/ /\ live[w] /\ pc[w] \in Holding
                /\ runs' = [runs EXCEPT ![job[w]] = copy[w]]
                /\ SaveStarted(w) \/ Release(w)
  BY <1>1 DEF WorkerStep, Return, Holding, LoadAndStart, LoadRefused, LoadMissing, LoadFails,
              SaveStarted, SaveStartedFails, CompareAgrees, CompareDisagrees, InnerError,
              SaveFailed, SaveFailedFails, InnerDone, SaveCompleted, SaveCompletedFails
<1>2. ASSUME NEW w \in Workers, Crash(w) \/ Timeout(w) \/ LeaseLost(w) \/ ContextCancelled(w)
      PROVE  UNCHANGED runs
  BY <1>2 DEF Crash, Timeout, LeaseLost, ContextCancelled
<1>3. ASSUME NEW w \in Workers, NEW r \in RunIds, Deliver(w, r) PROVE UNCHANGED runs
  BY <1>3 DEF Deliver
<1>4. ASSUME NEW r \in RunIds, Enqueue(r) \/ EnqueueFails(r) \/ RecoverLease(r)
      PROVE  UNCHANGED runs
  BY <1>4 DEF Enqueue, EnqueueFails, RecoverLease
<1>5. ASSUME NEW c \in Cancellers, NEW r \in RunIds, CancelLoad(c, r) PROVE UNCHANGED runs
  BY <1>5 DEF CancelLoad
<1>6. ASSUME NEW c \in Cancellers, CancelSave(c)
      PROVE  \/ UNCHANGED runs
             \/ /\ cancelling[c] # NoRun
                /\ runs' = [runs EXCEPT ![cancelling[c]] = cancelCopy[c]]
  BY <1>6 DEF CancelSave
<1>7. CASE Tick \/ UNCHANGED vars
  BY <1>7 DEF Tick, vars
<1> QED
  BY <1>1, <1>2, <1>3, <1>4, <1>5, <1>6, <1>7 DEF Next

\* A worker gets hold of a copy only by loading a row that may be started, a
\* cancel request only by loading one that may be cancelled; neither changes
\* the run it works on while it holds one.
LEMMA TakingHold ==
    ASSUME IInv, [Next]_vars
    PROVE  /\ \A w \in Workers :
                pc'[w] \in Holding => \/ pc[w] \in Holding /\ job'[w] = job[w]
                                      \/ job'[w] \in RunIds /\ CanStart(runs[job'[w]])
           /\ \A c \in Cancellers :
                cancelling'[c] # NoRun => \/ cancelling'[c] = cancelling[c]
                                          \/ CanCancel(runs[cancelling'[c]])
<1> USE DEF IInv, TypeOK, storeVars, queueVars, workerVars, cancelVars
<1> DEFINE W == \A w \in Workers :
                  pc'[w] \in Holding => \/ pc[w] \in Holding /\ job'[w] = job[w]
                                        \/ job'[w] \in RunIds /\ CanStart(runs[job'[w]])
           C == \A c \in Cancellers :
                  cancelling'[c] # NoRun => \/ cancelling'[c] = cancelling[c]
                                            \/ CanCancel(runs[cancelling'[c]])
<1>1. UNCHANGED <<pc, job>> => W
  OBVIOUS
<1>2. UNCHANGED cancelling => C
  OBVIOUS
<1>3. ASSUME NEW v \in Workers, WorkerStep(v) PROVE W /\ C
  <2>1. CASE LoadAndStart(v)
    BY <1>2, <2>1 DEF LoadAndStart, CopiesCoherent, Holding
  <2>2. CASE SaveStarted(v) \/ CompareAgrees(v) \/ CompareDisagrees(v) \/ InnerError(v) \/ InnerDone(v)
    BY <1>2, <2>2 DEF SaveStarted, CompareAgrees, CompareDisagrees, InnerError, InnerDone, Holding
  <2>3. CASE \/ LoadRefused(v) \/ LoadMissing(v) \/ LoadFails(v)
             \/ SaveStartedFails(v) \/ SaveFailed(v) \/ SaveFailedFails(v)
             \/ SaveCompleted(v) \/ SaveCompletedFails(v)
    <3>1. Release(v) /\ UNCHANGED cancelVars
      BY <2>3 DEF LoadRefused, LoadMissing, LoadFails, SaveStartedFails, SaveFailed,
                  SaveFailedFails, SaveCompleted, SaveCompletedFails, Return
    <3> QED
      BY <1>2, <3>1 DEF Release, Holding
  <2> QED
    BY <1>3, <2>1, <2>2, <2>3 DEF WorkerStep
<1>4. ASSUME NEW v \in Workers, Crash(v) \/ Timeout(v) \/ LeaseLost(v) \/ ContextCancelled(v)
      PROVE  W /\ C
  BY <1>1, <1>2, <1>4 DEF Crash, Timeout, LeaseLost, ContextCancelled, Release, Holding
<1>5. ASSUME NEW v \in Workers, NEW r \in RunIds, Deliver(v, r) PROVE W /\ C
  BY <1>2, <1>5 DEF Deliver, Holding
<1>6. ASSUME NEW r \in RunIds, Enqueue(r) \/ EnqueueFails(r) \/ RecoverLease(r) PROVE W /\ C
  BY <1>1, <1>2, <1>6 DEF Enqueue, EnqueueFails, RecoverLease
<1>7. ASSUME NEW r \in RunIds, NEW d \in BOOLEAN, SubmitRun(r, d) PROVE W /\ C
  BY <1>1, <1>2, <1>7 DEF SubmitRun
<1>8. ASSUME NEW c \in Cancellers, NEW r \in RunIds, CancelLoad(c, r) PROVE W /\ C
  BY <1>1, <1>8 DEF CancelLoad
<1>9. ASSUME NEW c \in Cancellers, CancelSave(c) PROVE W /\ C
  BY <1>1, <1>9 DEF CancelSave
<1>10. CASE Prune \/ Tick \/ UNCHANGED vars
  BY <1>1, <1>2, <1>10 DEF Prune, Tick, vars
<1> QED
  BY <1>3, <1>4, <1>5, <1>6, <1>7, <1>8, <1>9, <1>10 DEF Next

\* Nothing but the sweep makes a row disappear, and it takes only finished rows
\* past their retention: SQL that looks at finished_at alone is safe because
\* finished_at is set exactly on terminal rows.
THEOREM SweepIsSafe == Spec => SweepTakesOnlyOldFinishedRuns
<1> DEFINE A == \A r \in RunIds :
                  (runs[r].status # "absent" /\ runs'[r].status = "absent")
                     => /\ IsTerminal(runs[r].status)
                        /\ runs[r].finishedAt + Retention < now
<1>1. IInv /\ [Next]_vars => [A]_vars
  <2> SUFFICES ASSUME IInv, [Next]_vars, NEW r \in RunIds,
                      runs[r].status # "absent", runs'[r].status = "absent"
               PROVE  /\ IsTerminal(runs[r].status)
                      /\ runs[r].finishedAt + Retention < now
    OBVIOUS
  <2>1. ASSUME Prune
        PROVE  /\ IsTerminal(runs[r].status)
               /\ runs[r].finishedAt + Retention < now
    <3>1. Prunable(runs[r])
      BY <2>1 DEF Prune
    <3>2. runs[r] \in Row(Time) /\ Coherent(runs[r]) /\ now \in Time
      BY DEF IInv, TypeOK, RowsCoherent, InOrder
    <3>3. runs[r].finishedAt \in Int /\ now \in Int /\ Retention \in Int
      BY <3>2, RunPipelineAssumption DEF Row, Time, Null
    <3> QED
      BY <3>1, <3>2, <3>3 DEF Prunable, Coherent
  <2>2. ASSUME NEW w \in Workers, pc[w] \in Holding,
               runs' = [runs EXCEPT ![job[w]] = copy[w]]
        PROVE  FALSE
    BY <2>2 DEF IInv, TypeOK, CopiesCoherent, Holding
  <2>3. ASSUME NEW c \in Cancellers, cancelling[c] # NoRun,
               runs' = [runs EXCEPT ![cancelling[c]] = cancelCopy[c]]
        PROVE  FALSE
    BY <2>3 DEF IInv, TypeOK, CopiesCoherent
  <2>4. ASSUME NEW q \in RunIds, NEW d \in BOOLEAN, SubmitRun(q, d)
        PROVE  FALSE
    BY <2>4 DEF SubmitRun, IInv, TypeOK, NewRun
  <2> QED
    BY <2>1, <2>2, <2>3, <2>4, RowWrites
<1> QED
  BY <1>1, InductiveInvariant, PTL DEF Spec, SweepTakesOnlyOldFinishedRuns

\* A finished or swept run that no process holds a copy of is settled for good:
\* whatever is retried, delivered late or requested later, its row changes only
\* by being swept.
THEOREM SettledStaysSettled == Spec => SettledForGood
<1> DEFINE A == \A r \in RunIds :
                  (r \in minted /\ ~CanCancel(runs[r]) /\ ~Held(r))
                     => ~Held(r)' /\ runs'[r] \in {runs[r], Absent}
<1>1. IInv /\ [Next]_vars => [A]_vars
  <2> SUFFICES ASSUME IInv, [Next]_vars, NEW r \in RunIds,
                      r \in minted, ~CanCancel(runs[r]), ~Held(r)
               PROVE  ~Held(r)' /\ runs'[r] \in {runs[r], Absent}
    OBVIOUS
  <2>1. ~Held(r)'
    <3>1. ASSUME NEW w \in Workers, job'[w] = r, pc'[w] \in Holding PROVE FALSE
      BY <3>1, TakingHold DEF Held, CanStart, CanCancel
    <3>2. ASSUME NEW c \in Cancellers, cancelling'[c] = r PROVE FALSE
      BY <3>2, TakingHold, RunPipelineAssumption DEF Held
    <3> QED
      BY <3>1, <3>2 DEF Held
  <2>2. runs'[r] \in {runs[r], Absent}
    <3>1. CASE Prune
      BY <3>1 DEF Prune
    <3>2. ASSUME NEW w \in Workers, pc[w] \in Holding,
                 runs' = [runs EXCEPT ![job[w]] = copy[w]]
          PROVE  runs'[r] = runs[r]
      BY <3>2 DEF Held, IInv, TypeOK
    <3>3. ASSUME NEW c \in Cancellers, cancelling[c] # NoRun,
                 runs' = [runs EXCEPT ![cancelling[c]] = cancelCopy[c]]
          PROVE  runs'[r] = runs[r]
      BY <3>3 DEF Held, IInv, TypeOK
    <3>4. ASSUME NEW q \in RunIds, NEW d \in BOOLEAN, SubmitRun(q, d)
          PROVE  runs'[r] = runs[r]
      BY <3>4 DEF SubmitRun, IInv, TypeOK
    <3> QED
      BY <3>1, <3>2, <3>3, <3>4, RowWrites
  <2> QED
    BY <2>1, <2>2
<1> QED
  BY <1>1, InductiveInvariant, PTL DEF Spec, SettledForGood
-----------------------------------------------------------------------------
(* Each run is executed once, and its row moves as RunLifecycle says.       *)

\* The attempt of w is over as far as asynq is concerned: it settles, archives
\* or retries the task if w still holds it, and ignores w otherwise.
TaskLeft(w) ==
    \/ ~owner[w] /\ UNCHANGED taskState
    \/ /\ owner[w]
       /\ \E s \in {"queued", "done", "archived"} :
            taskState' = [taskState EXCEPT ![job[w]] = s]

\* A returning handler leaves its task.
LEMMA ReturnLeavesTask ==
    ASSUME NEW w \in Workers, NEW outcome, Return(w, outcome)
    PROVE  Release(w) /\ TaskLeft(w)
<1>1. ASSUME RetryOrArchive(job[w])
      PROVE  \E s \in {"queued", "done", "archived"} : taskState' = [taskState EXCEPT ![job[w]] = s]
  BY <1>1, Zenon DEF RetryOrArchive
<1> QED
  BY <1>1, Zenon DEF Return, TaskLeft

\* A worker's own step concerns its own slot only: it either leaves its task
\* and frees the slot, or goes on under the same lease.
LEMMA WorkerStepShape ==
    ASSUME IInv, NEW w \in Workers, WorkerStep(w)
    PROVE  /\ pc[w] # "idle" /\ job[w] \in RunIds
           /\ UNCHANGED <<now, minted, toEnqueue, cancelVars>>
           /\ \A v \in Workers \ {w} : /\ pc'[v] = pc[v] /\ job'[v] = job[v]
                                       /\ copy'[v] = copy[v] /\ next'[v] = next[v]
                                       /\ live'[v] = live[v] /\ owner'[v] = owner[v]
           /\ \/ Release(w) /\ TaskLeft(w)
              \/ UNCHANGED <<job, live, owner, taskState>> /\ pc'[w] # "idle"
<1> USE DEF storeVars, queueVars
<1> DEFINE Others == \A v \in Workers \ {w} : /\ pc'[v] = pc[v] /\ job'[v] = job[v]
                                              /\ copy'[v] = copy[v] /\ next'[v] = next[v]
                                              /\ live'[v] = live[v] /\ owner'[v] = owner[v]
<1>1. pc[w] # "idle" /\ job[w] \in RunIds
  BY DEF IInv, CopiesCoherent, WorkerStep, LoadAndStart, LoadRefused, LoadMissing, LoadFails,
         SaveStarted, SaveStartedFails, CompareAgrees, CompareDisagrees, InnerError,
         SaveFailed, SaveFailedFails, InnerDone, SaveCompleted, SaveCompletedFails
<1>2. CASE \/ LoadRefused(w) \/ LoadMissing(w) \/ LoadFails(w)
           \/ SaveStartedFails(w) \/ SaveFailed(w) \/ SaveFailedFails(w)
           \/ SaveCompleted(w) \/ SaveCompletedFails(w)
  <2>1. /\ \E outcome \in {"nil", "skipRetry", "error"} : Return(w, outcome)
        /\ UNCHANGED <<now, minted, toEnqueue, cancelVars>>
    BY <1>2 DEF LoadRefused, LoadMissing, LoadFails, SaveStartedFails, SaveFailed,
                SaveFailedFails, SaveCompleted, SaveCompletedFails
  <2>2. Release(w) /\ TaskLeft(w)
    BY <2>1, ReturnLeavesTask
  <2>3. Others
    BY <2>2 DEF Release, IInv, TypeOK
  <2> QED
    BY <1>1, <2>1, <2>2, <2>3
<1>3. CASE \/ LoadAndStart(w) \/ SaveStarted(w) \/ CompareAgrees(w)
           \/ CompareDisagrees(w) \/ InnerError(w) \/ InnerDone(w)
  <2>1. UNCHANGED <<now, minted, toEnqueue, cancelVars, job, live, owner, taskState>>
    BY <1>3 DEF LoadAndStart, SaveStarted, CompareAgrees, CompareDisagrees, InnerError, InnerDone
  <2>2. Others /\ pc'[w] # "idle"
    BY <1>1, <1>3 DEF LoadAndStart, SaveStarted, CompareAgrees, CompareDisagrees, InnerError,
                      InnerDone, IInv, TypeOK
  <2> QED
    BY <1>1, <2>1, <2>2
<1> QED
  BY <1>2, <1>3 DEF WorkerStep
-----------------------------------------------------------------------------
(* Leases.                                                                 *)

\* A task is held by at most one worker, is active while it is held, and
\* belongs to a run that was created; a run waits to be enqueued only before
\* it has a task.
Leased ==
    /\ \A r \in RunIds : /\ taskState[r] # "none" => r \in minted
                         /\ r \in toEnqueue => r \in minted /\ taskState[r] = "none"
    /\ \A w \in Workers : /\ pc[w] # "idle" => job[w] \in minted
                          /\ owner[w] => pc[w] # "idle" /\ taskState[job[w]] = "active"
    /\ \A w, v \in Workers : (owner[w] /\ owner[v] /\ job[w] = job[v]) => w = v

\* A worker whose context is good holds its task.
LiveOwns == \A w \in Workers : live[w] => owner[w]

\* Leases are exclusive whatever fails, and leases that lapse only under dead
\* workers keep every live context inside one.
LEMMA LeasesExclusive ==
    ASSUME IInv, Leased, [Next]_vars
    PROVE  Leased' /\ (LiveOwns /\ Overlap = FALSE => LiveOwns')
<1> USE DEF IInv, TypeOK, Leased, LiveOwns
<1> DEFINE G == Leased' /\ (LiveOwns /\ Overlap = FALSE => LiveOwns')
<1>1. ASSUME NEW w \in Workers, WorkerStep(w) PROVE G
  <2>1. CASE Release(w) /\ TaskLeft(w)
    <3>1. ~owner'[w] /\ ~live'[w] /\ pc'[w] = "idle"
      BY <2>1 DEF Release
    <3>2. /\ job[w] \in RunIds /\ UNCHANGED <<minted, toEnqueue>>
          /\ \A v \in Workers \ {w} : /\ pc'[v] = pc[v] /\ job'[v] = job[v]
                                      /\ live'[v] = live[v] /\ owner'[v] = owner[v]
      BY <1>1, WorkerStepShape
    <3> DEFINE Kept == /\ \A r \in RunIds : taskState'[r] # "none" <=> taskState[r] # "none"
                       /\ \A v \in Workers \ {w} : owner[v] => taskState'[job[v]] = taskState[job[v]]
    <3>3. Kept
      <4>1. CASE UNCHANGED taskState
        BY <4>1
      <4>2. ASSUME owner[w], NEW s \in {"queued", "done", "archived"},
                   taskState' = [taskState EXCEPT ![job[w]] = s]
            PROVE  Kept
        BY <3>2, <4>2
      <4> QED
        BY <2>1, <4>1, <4>2 DEF TaskLeft
    <3>4. Leased'
      BY <3>1, <3>2, <3>3, ZenonT(60)
    <3> QED
      BY <3>1, <3>2, <3>4
  <2>2. CASE UNCHANGED <<job, live, owner, taskState>> /\ pc'[w] # "idle"
    BY <1>1, <2>2, WorkerStepShape
  <2> QED
    BY <1>1, <2>1, <2>2, WorkerStepShape
<1>2. ASSUME NEW w \in Workers, Crash(w) PROVE G
  BY <1>2 DEF Crash, Release, storeVars, queueVars
<1>3. ASSUME NEW w \in Workers, Timeout(w) \/ LeaseLost(w) PROVE G
  <2>1. \E s \in {"queued", "archived"} : taskState' = [taskState EXCEPT ![job[w]] = s]
    BY <1>3, Zenon DEF Timeout, LeaseLost, RetryOrArchive
  <2>2. PICK s \in {"queued", "archived"} : taskState' = [taskState EXCEPT ![job[w]] = s]
    BY <2>1
  <2>3. owner[w] /\ job[w] \in RunIds
    BY <1>3 DEF Timeout, LeaseLost, CopiesCoherent
  <2>4. /\ UNCHANGED <<minted, toEnqueue, pc, job>>
        /\ owner' = [owner EXCEPT ![w] = FALSE]
        /\ \A v \in Workers : live'[v] => live[v]
        /\ Overlap = FALSE => ~live'[w]
    BY <1>3 DEF Timeout, LeaseLost, storeVars
  <2> QED
    BY <2>2, <2>3, <2>4
<1>4. ASSUME NEW w \in Workers, ContextCancelled(w) PROVE G
  BY <1>4 DEF ContextCancelled, storeVars, queueVars
<1>5. ASSUME NEW w \in Workers, NEW r \in RunIds, Deliver(w, r) PROVE G
  BY <1>5 DEF Deliver, storeVars
<1>6. ASSUME NEW r \in RunIds, Enqueue(r) \/ EnqueueFails(r) PROVE G
  BY <1>6 DEF Enqueue, EnqueueFails, storeVars, workerVars
<1>7. ASSUME NEW r \in RunIds, RecoverLease(r) PROVE G
  <2>1. \E s \in {"queued", "archived"} : taskState' = [taskState EXCEPT ![r] = s]
    BY <1>7, Zenon DEF RecoverLease, RetryOrArchive
  <2> QED
    BY <1>7, <2>1 DEF RecoverLease, storeVars, workerVars, CopiesCoherent
<1>8. ASSUME NEW r \in RunIds, NEW d \in BOOLEAN, SubmitRun(r, d) PROVE G
  BY <1>8 DEF SubmitRun, workerVars
<1>9. CASE \/ \E c \in Cancellers, r \in RunIds : CancelLoad(c, r)
           \/ \E c \in Cancellers : CancelSave(c)
           \/ Prune \/ Tick \/ UNCHANGED vars
  BY <1>9 DEF CancelLoad, CancelSave, Prune, Tick, vars, storeVars, queueVars, workerVars
<1> HIDE DEF IInv, TypeOK, Leased, LiveOwns
<1> QED
  BY <1>1, <1>2, <1>3, <1>4, <1>5, <1>6, <1>7, <1>8, <1>9 DEF Next
-----------------------------------------------------------------------------
(* Attempts.                                                               *)

\* The steps by which an attempt gets further.
Advances(w) ==
    \/ LoadAndStart(w) \/ SaveStarted(w) \/ CompareAgrees(w)
    \/ CompareDisagrees(w) \/ InnerError(w) \/ InnerDone(w)

\* Any other step counts no execution, adds no discrepancy, and leaves a live
\* attempt that has its copy as it is, unless it ends it.
LEMMA OtherwiseUndisturbed ==
    ASSUME IInv, [Next]_vars, ~\E w \in Workers : Advances(w)
    PROVE  /\ UNCHANGED execs
           /\ UNCHANGED diffs \/ Prune
           /\ \A v \in Workers : (live'[v] /\ pc'[v] \in Holding)
                 => /\ live[v] /\ pc'[v] = pc[v] /\ job'[v] = job[v]
                    /\ copy'[v] = copy[v] /\ next'[v] = next[v]
<1> USE DEF IInv, TypeOK, storeVars, queueVars, workerVars, cancelVars
<1> DEFINE Same == UNCHANGED execs /\ (UNCHANGED diffs \/ Prune)
           Kept == \A v \in Workers : (live'[v] /\ pc'[v] \in Holding)
                     => /\ live[v] /\ pc'[v] = pc[v] /\ job'[v] = job[v]
                        /\ copy'[v] = copy[v] /\ next'[v] = next[v]
<1>1. ASSUME NEW w \in Workers, WorkerStep(w) PROVE Same /\ Kept
  <2>1. \/ LoadRefused(w) \/ LoadMissing(w) \/ LoadFails(w)
        \/ SaveStartedFails(w) \/ SaveFailed(w) \/ SaveFailedFails(w)
        \/ SaveCompleted(w) \/ SaveCompletedFails(w)
    BY <1>1 DEF WorkerStep, Advances
  <2>2. Release(w) /\ UNCHANGED <<diffs, execs>>
    BY <2>1 DEF LoadRefused, LoadMissing, LoadFails, SaveStartedFails, SaveFailed,
                SaveFailedFails, SaveCompleted, SaveCompletedFails, Return
  <2> QED
    BY <2>2 DEF Release
<1>2. ASSUME NEW w \in Workers, Crash(w) \/ Timeout(w) \/ LeaseLost(w) \/ ContextCancelled(w)
      PROVE  Same /\ Kept
  BY <1>2 DEF Crash, Release, Timeout, LeaseLost, ContextCancelled
<1>3. ASSUME NEW w \in Workers, NEW r \in RunIds, Deliver(w, r) PROVE Same /\ Kept
  BY <1>3 DEF Deliver, Holding
<1>4. CASE \/ \E r \in RunIds, d \in BOOLEAN : SubmitRun(r, d)
           \/ \E r \in RunIds : Enqueue(r) \/ EnqueueFails(r) \/ RecoverLease(r)
           \/ \E c \in Cancellers, r \in RunIds : CancelLoad(c, r)
           \/ \E c \in Cancellers : CancelSave(c)
           \/ Prune \/ Tick \/ UNCHANGED vars
  <2>1. UNCHANGED <<pc, job, copy, next, live>>
    BY <1>4 DEF SubmitRun, Enqueue, EnqueueFails, RecoverLease, CancelLoad, CancelSave,
                Prune, Tick, vars
  <2>2. Same
    BY <1>4 DEF SubmitRun, Enqueue, EnqueueFails, RecoverLease, CancelLoad, CancelSave,
                Prune, Tick, vars
  <2> QED
    BY <2>1, <2>2
<1> HIDE DEF IInv, TypeOK
<1> QED
  BY <1>1, <1>2, <1>3, <1>4 DEF Next

\* A worker enters the pipeline of a run only by saving the run as started, and
\* stays with that run.
LEMMA EntersExecuting ==
    ASSUME IInv, [Next]_vars, NEW w \in Workers,
           pc'[w] \in {"executing", "saveFailed", "saveCompleted"}
    PROVE  \/ SaveStarted(w)
           \/ pc[w] \in {"executing", "saveFailed", "saveCompleted"} /\ job'[w] = job[w]
<1> USE DEF IInv, TypeOK, storeVars, queueVars, workerVars, cancelVars
<1> DEFINE G == \/ SaveStarted(w)
                \/ pc[w] \in {"executing", "saveFailed", "saveCompleted"} /\ job'[w] = job[w]
<1>1. ASSUME NEW v \in Workers, Advances(v) PROVE G
  BY <1>1 DEF Advances, LoadAndStart, SaveStarted, CompareAgrees, CompareDisagrees,
              InnerError, InnerDone
<1>2. ASSUME NEW v \in Workers, WorkerStep(v), ~Advances(v) PROVE G
  <2>1. Release(v)
    BY <1>2 DEF WorkerStep, Advances, LoadRefused, LoadMissing, LoadFails, SaveStartedFails,
                SaveFailed, SaveFailedFails, SaveCompleted, SaveCompletedFails, Return
  <2> QED
    BY <2>1 DEF Release
<1>3. ASSUME NEW v \in Workers, Crash(v) \/ Timeout(v) \/ LeaseLost(v) \/ ContextCancelled(v)
      PROVE  G
  BY <1>3 DEF Crash, Release, Timeout, LeaseLost, ContextCancelled
<1>4. ASSUME NEW v \in Workers, NEW r \in RunIds, Deliver(v, r) PROVE G
  BY <1>4 DEF Deliver
<1>5. CASE \/ \E r \in RunIds, d \in BOOLEAN : SubmitRun(r, d)
           \/ \E r \in RunIds : Enqueue(r) \/ EnqueueFails(r) \/ RecoverLease(r)
           \/ \E c \in Cancellers, r \in RunIds : CancelLoad(c, r)
           \/ \E c \in Cancellers : CancelSave(c)
           \/ Prune \/ Tick \/ UNCHANGED vars
  <2>1. UNCHANGED <<pc, job>>
    BY <1>5 DEF SubmitRun, Enqueue, EnqueueFails, RecoverLease, CancelLoad, CancelSave,
                Prune, Tick, vars
  <2> QED
    BY <2>1
<1> HIDE DEF IInv, TypeOK
<1> QED
  BY <1>1, <1>2, <1>3, <1>4, <1>5 DEF Next

\* An id is fresh until SubmitRun hands it out.
LEMMA MintedGrows ==
    ASSUME IInv, [Next]_vars
    PROVE  UNCHANGED minted \/ \E r \in RunIds, d \in BOOLEAN : SubmitRun(r, d)
<1> USE DEF storeVars
<1>1. ASSUME NEW w \in Workers, WorkerStep(w) PROVE UNCHANGED minted
  BY <1>1, WorkerStepShape
<1>2. ASSUME NEW w \in Workers, Crash(w) \/ Timeout(w) \/ LeaseLost(w) \/ ContextCancelled(w)
      PROVE  UNCHANGED minted
  BY <1>2 DEF Crash, Timeout, LeaseLost, ContextCancelled
<1>3. ASSUME NEW w \in Workers, NEW r \in RunIds, Deliver(w, r) PROVE UNCHANGED minted
  BY <1>3 DEF Deliver
<1>4. CASE \/ \E r \in RunIds : Enqueue(r) \/ EnqueueFails(r) \/ RecoverLease(r)
           \/ \E c \in Cancellers, r \in RunIds : CancelLoad(c, r)
           \/ \E c \in Cancellers : CancelSave(c)
           \/ Prune \/ Tick \/ UNCHANGED vars
  BY <1>4 DEF Enqueue, EnqueueFails, RecoverLease, CancelLoad, CancelSave, Prune, Tick, vars
<1> QED
  BY <1>1, <1>2, <1>3, <1>4 DEF Next

\* Nothing is stored, counted or requested for a run before it is created.
Fresh ==
    /\ \A r \in RunIds \ minted : /\ runs[r] = Absent /\ execs[r] = 0
                                 /\ \A i \in Items : diffs[r][i] = 0
    /\ \A c \in Cancellers : cancelling[c] # NoRun => cancelling[c] \in minted

\* Every step keeps what was never created untouched: ids come from SubmitRun alone.
LEMMA FreshPreserved ==
    ASSUME IInv, Leased, Fresh, [Next]_vars
    PROVE  Fresh'
<1>1. minted \subseteq minted'
  BY MintedGrows DEF SubmitRun
<1>2. ASSUME NEW c \in Cancellers, cancelling'[c] # NoRun PROVE cancelling'[c] \in minted'
  <2>1. CASE cancelling'[c] = cancelling[c]
    BY <1>1, <1>2, <2>1 DEF Fresh
  <2>2. CASE CanCancel(runs[cancelling'[c]])
    <3>1. IInv'
      BY InductiveStep
    <3>2. cancelling'[c] \in RunIds
      BY <1>2, <3>1 DEF IInv, TypeOK
    <3> QED
      BY <1>1, <2>2, <3>2 DEF Fresh, CanCancel, Absent
  <2> QED
    BY <1>2, <2>1, <2>2, TakingHold
<1> SUFFICES ASSUME NEW r \in RunIds, r \notin minted'
             PROVE  /\ runs'[r] = Absent /\ execs'[r] = 0
                    /\ \A i \in Items : diffs'[r][i] = 0
  BY <1>2 DEF Fresh
<1>3. r \notin minted /\ runs[r] = Absent /\ execs[r] = 0 /\ \A i \in Items : diffs[r][i] = 0
  BY <1>1 DEF Fresh
<1>4. \A w \in Workers : pc[w] # "idle" => job[w] # r
  BY <1>3 DEF Leased
<1>5. runs'[r] = Absent
  <2> USE DEF IInv, TypeOK
  <2>1. CASE Prune
    BY <1>3, <2>1 DEF Prune
  <2>2. ASSUME NEW q \in RunIds, NEW d \in BOOLEAN, SubmitRun(q, d) PROVE runs'[r] = Absent
    BY <1>3, <2>2 DEF SubmitRun
  <2>3. ASSUME NEW w \in Workers, pc[w] \in Holding, runs' = [runs EXCEPT ![job[w]] = copy[w]]
        PROVE  runs'[r] = Absent
    BY <1>3, <1>4, <2>3 DEF Holding
  <2>4. ASSUME NEW c \in Cancellers, cancelling[c] # NoRun,
               runs' = [runs EXCEPT ![cancelling[c]] = cancelCopy[c]]
        PROVE  runs'[r] = Absent
    BY <1>3, <2>4 DEF Fresh
  <2> HIDE DEF IInv, TypeOK
  <2> QED
    BY <1>3, <2>1, <2>2, <2>3, <2>4, RowWrites
<1>6. execs'[r] = 0 /\ \A i \in Items : diffs'[r][i] = 0
  <2>1. ASSUME NEW w \in Workers, Advances(w) PROVE execs'[r] = 0 /\ \A i \in Items : diffs'[r][i] = 0
    BY <1>3, <1>4, <2>1 DEF Advances, LoadAndStart, SaveStarted, CompareAgrees, CompareDisagrees,
          InnerError, InnerDone, storeVars, IInv, TypeOK
  <2>2. CASE Prune
    BY <1>3, <2>2 DEF Prune
  <2> QED
    BY <1>3, <2>1, <2>2, OtherwiseUndisturbed
<1> QED
  BY <1>5, <1>6

\* Where a live attempt is tells how often the pipeline of its run has been
\* entered and which discrepancies it has not written yet.
Once ==
    /\ \A r \in RunIds : runs[r].status = "pending" => execs[r] = 0
    /\ \A w \in Workers : live[w] =>
         /\ pc[w] = "saveStarted" => execs[job[w]] = 0
         /\ pc[w] = "executing" => /\ execs[job[w]] = 1
                                   /\ \A i \in Items : i >= next[w] => diffs[job[w]][i] = 0
    /\ NoComparisonRecordedTwice

\* Every step keeps executions counted: one holder of a live context per run, and
\* Start refuses a row that is no longer pending.
LEMMA OncePreserved ==
    ASSUME IInv, Leased, LiveOwns, Fresh, Once, [Next]_vars
    PROVE  Once'
<1>1. \A w, v \in Workers : (live[w] /\ live[v] /\ job[w] = job[v]) => w = v
  BY DEF Leased, LiveOwns
<1>2. ASSUME NEW w \in Workers, LoadAndStart(w) PROVE Once'
  <2>1. job[w] \in RunIds /\ execs[job[w]] = 0
    BY <1>2 DEF LoadAndStart, CanStart, IInv, TypeOK, CopiesCoherent, Once
  <2> QED
    BY <1>2, <2>1 DEF LoadAndStart, Once, NoComparisonRecordedTwice, IInv, TypeOK, storeVars
<1>3. ASSUME NEW w \in Workers, SaveStarted(w) PROVE Once'
  <2> USE DEF IInv, TypeOK
  <2>1. job[w] \in RunIds /\ execs[job[w]] = 0 /\ copy[w].status = "running"
    BY <1>3 DEF SaveStarted, CopiesCoherent, Once
  <2>2. execs' = [execs EXCEPT ![job[w]] = 1]
    BY <1>3, <2>1 DEF SaveStarted
  <2>3. \A i \in Items : diffs[job[w]][i] = 0
    BY <2>1 DEF Once, NoComparisonRecordedTwice
  <2>4. NoComparisonRecordedTwice'
    BY <1>3, <2>2, <2>1, <2>3 DEF SaveStarted, Once, NoComparisonRecordedTwice
  <2>5. \A r \in RunIds : runs'[r].status = "pending" => execs'[r] = 0
    BY <1>3, <2>1, <2>2 DEF SaveStarted, Once
  <2>6. ASSUME NEW v \in Workers, live'[v]
        PROVE  /\ pc'[v] = "saveStarted" => execs'[job'[v]] = 0
               /\ pc'[v] = "executing" =>
                     /\ execs'[job'[v]] = 1
                     /\ \A i \in Items : i >= next'[v] => diffs'[job'[v]][i] = 0
    <3>1. live[v] /\ live[w] /\ UNCHANGED <<job, live, next, diffs>> /\ pc' = [pc EXCEPT ![w] = "executing"]
      BY <1>3, <2>6 DEF SaveStarted
    <3>2. CASE v = w
      BY <2>1, <2>2, <2>3, <3>1, <3>2
    <3>3. CASE v # w
      BY <1>1, <2>2, <3>1, <3>3 DEF Once
    <3> QED
      BY <3>2, <3>3
  <2> QED
    BY <2>4, <2>5, <2>6 DEF Once
<1>4. ASSUME NEW w \in Workers, CompareAgrees(w) PROVE Once'
  <2>1. next' = [next EXCEPT ![w] = next[w] + 1] /\ \A v \in Workers : next[v] \in Int
    BY <1>4, RunPipelineAssumption DEF CompareAgrees, IInv, TypeOK
  <2> QED
    BY <1>4, <2>1 DEF CompareAgrees, Once, NoComparisonRecordedTwice, Items, IInv, TypeOK, storeVars
<1>5. ASSUME NEW w \in Workers, CompareDisagrees(w) PROVE Once'
  <2> USE DEF IInv, TypeOK
  <2>1. /\ job[w] \in RunIds /\ next[w] \in Items /\ live[w]
        /\ execs[job[w]] = 1 /\ diffs[job[w]][next[w]] = 0
    BY <1>5 DEF CompareDisagrees, CopiesCoherent, Once, Items
  <2>2. /\ diffs' = [diffs EXCEPT ![job[w]][next[w]] = 1]
        /\ next' = [next EXCEPT ![w] = next[w] + 1]
        /\ UNCHANGED <<runs, execs, pc, job, live>>
    BY <1>5, <2>1 DEF CompareDisagrees
  <2>3. NoComparisonRecordedTwice'
    BY <2>1, <2>2 DEF Once, NoComparisonRecordedTwice
  <2>4. ASSUME NEW v \in Workers, live'[v]
        PROVE  /\ pc'[v] = "saveStarted" => execs'[job'[v]] = 0
               /\ pc'[v] = "executing" =>
                     /\ execs'[job'[v]] = 1
                     /\ \A i \in Items : i >= next'[v] => diffs'[job'[v]][i] = 0
    <3>1. CASE v = w
      BY <2>1, <2>2, <2>4, <3>1 DEF Once, Items
    <3>2. CASE v # w
      BY <1>1, <2>1, <2>2, <2>4, <3>2 DEF Once
    <3> QED
      BY <3>1, <3>2
  <2> QED
    BY <2>2, <2>3, <2>4 DEF Once
<1>6. ASSUME NEW w \in Workers, InnerError(w) \/ InnerDone(w) PROVE Once'
  BY <1>6 DEF InnerError, InnerDone, Once, NoComparisonRecordedTwice, IInv, TypeOK, storeVars
<1>7. CASE ~\E w \in Workers : Advances(w)
  <2>1. /\ UNCHANGED execs
        /\ UNCHANGED diffs \/ Prune
        /\ \A v \in Workers : (live'[v] /\ pc'[v] \in Holding)
              => /\ live[v] /\ pc'[v] = pc[v] /\ job'[v] = job[v] /\ next'[v] = next[v]
    BY <1>7, OtherwiseUndisturbed
  <2>2. ASSUME NEW r \in RunIds, NEW i \in Items
        PROVE  diffs'[r][i] \in {0, diffs[r][i]} /\ execs'[r] = execs[r] /\ execs[r] \in Nat
    BY <2>1 DEF Prune, IInv, TypeOK
  <2>3. NoComparisonRecordedTwice'
    BY <2>1, <2>2 DEF Once, NoComparisonRecordedTwice
  <2>4. ASSUME NEW r \in RunIds, runs'[r].status = "pending" PROVE execs'[r] = 0
    <3> USE DEF IInv, TypeOK
    <3>1. CASE Prune
      BY <2>1, <2>4, <3>1 DEF Prune, Absent, Once
    <3>2. ASSUME NEW q \in RunIds, NEW d \in BOOLEAN, SubmitRun(q, d) PROVE execs'[r] = 0
      BY <2>1, <2>4, <3>2 DEF SubmitRun, Fresh, Once
    <3>3. ASSUME NEW w \in Workers, pc[w] \in Holding, runs' = [runs EXCEPT ![job[w]] = copy[w]]
          PROVE  execs'[r] = 0
      BY <2>1, <2>4, <3>3 DEF Holding, CopiesCoherent, Once
    <3>4. ASSUME NEW c \in Cancellers, cancelling[c] # NoRun,
                 runs' = [runs EXCEPT ![cancelling[c]] = cancelCopy[c]]
          PROVE  execs'[r] = 0
      BY <2>1, <2>4, <3>4 DEF CopiesCoherent, Once
    <3>5. CASE UNCHANGED runs
      BY <2>1, <2>4, <3>5 DEF Once
    <3> HIDE DEF IInv, TypeOK
    <3> QED
      BY <3>1, <3>2, <3>3, <3>4, <3>5, RowWrites
  <2>5. ASSUME NEW v \in Workers, live'[v]
        PROVE  /\ pc'[v] = "saveStarted" => execs'[job'[v]] = 0
               /\ pc'[v] = "executing" =>
                     /\ execs'[job'[v]] = 1
                     /\ \A i \in Items : i >= next'[v] => diffs'[job'[v]][i] = 0
    <3>1. pc[v] \in Holding => job[v] \in RunIds
      BY DEF IInv, CopiesCoherent, Holding
    <3> QED
      BY <2>1, <2>2, <2>5, <3>1 DEF Once, Holding
  <2> QED
    BY <2>3, <2>4, <2>5 DEF Once
<1> QED
  BY <1>2, <1>3, <1>4, <1>5, <1>6, <1>7 DEF Advances

\* What holds initially: no task, no copy, no count.
LEMMA InitialAttempts ==
    ASSUME Init
    PROVE  Leased /\ LiveOwns /\ Fresh /\ Once
<1>1. Leased /\ LiveOwns /\ Fresh
  BY DEF Init, Leased, LiveOwns, Fresh
<1>2. Once
  BY DEF Init, Once, NoComparisonRecordedTwice
<1> QED
  BY <1>1, <1>2

\* While leases do not lapse under living workers the pipeline of a run is
\* entered at most once and no comparison is recorded twice, over all the
\* retries, timeouts, crashes, lost acknowledgements and cancel requests of any
\* number of workers.
THEOREM EnteredAtMostOnce ==
    ASSUME Overlap = FALSE
    PROVE  Spec => []NoComparisonRecordedTwice
<1> DEFINE Inv == Leased /\ LiveOwns /\ Fresh /\ Once
<1>1. Init => Inv
  BY InitialAttempts
<1>2. IInv /\ Inv /\ [Next]_vars => Inv'
  BY LeasesExclusive, FreshPreserved, OncePreserved
<1>3. Inv => NoComparisonRecordedTwice
  BY DEF Once
<1> HIDE DEF Inv
<1> QED
  BY <1>1, <1>2, <1>3, InductiveInvariant, PTL DEF Spec
-----------------------------------------------------------------------------
(* Discrepancies of runs nobody cancels.                                   *)

\* A run that has discrepancies, or whose pipeline a worker is in, is past
\* "pending".
Started ==
    /\ \A r \in RunIds : /\ runs[r].status # "cancelled"
                         /\ (\E i \in Items : diffs[r][i] > 0)
                               => runs[r].status \notin {"absent", "pending"}
    /\ \A w \in Workers : pc[w] \in {"executing", "saveFailed", "saveCompleted"}
                              => runs[job[w]].status # "pending"

\* Every step keeps recorded discrepancies with runs that have started, as long as
\* nobody cancels.
LEMMA StartedPreserved ==
    ASSUME Cancellers = {}, IInv, Leased, Fresh, Started, [Next]_vars
    PROVE  Started'
<1> USE DEF IInv, TypeOK
\* How the status of one row may move.
<1>1. ASSUME NEW r \in RunIds
      PROVE  \/ runs'[r] = runs[r]
             \/ Prune /\ runs'[r] = Absent
             \/ r \notin minted /\ runs'[r] = NewRun
             \/ runs'[r].status \in {"running", "failed", "completed"}
  <2>1. CASE Prune
    BY <2>1 DEF Prune
  <2>2. ASSUME NEW q \in RunIds, NEW d \in BOOLEAN, SubmitRun(q, d)
        PROVE  runs'[r] = runs[r] \/ (r \notin minted /\ runs'[r] = NewRun)
    BY <2>2 DEF SubmitRun
  <2>3. ASSUME NEW w \in Workers, pc[w] \in Holding, runs' = [runs EXCEPT ![job[w]] = copy[w]]
        PROVE  runs'[r] = runs[r] \/ runs'[r].status \in {"running", "failed", "completed"}
    BY <2>3 DEF Holding, CopiesCoherent
  <2> HIDE DEF IInv, TypeOK
  <2> QED
    BY <2>1, <2>2, <2>3, RowWrites
<1>2. ASSUME NEW r \in RunIds PROVE runs'[r].status # "cancelled"
  <2>1. Absent.status # "cancelled" /\ NewRun.status # "cancelled"
    BY DEF Absent, NewRun
  <2> HIDE DEF IInv, TypeOK
  <2> QED
    BY <1>1, <2>1 DEF Started
<1>3. ASSUME NEW r \in RunIds, r \in minted, runs[r].status # "pending"
      PROVE  runs'[r].status # "pending"
  <2>1. Absent.status # "pending"
    BY DEF Absent
  <2> HIDE DEF IInv, TypeOK
  <2> QED
    BY <1>1, <1>3, <2>1
<1>4. ASSUME NEW w \in Workers, pc'[w] \in {"executing", "saveFailed", "saveCompleted"}
      PROVE  runs'[job'[w]].status # "pending"
  <2>1. ASSUME SaveStarted(w) PROVE runs'[job'[w]].status # "pending"
    BY <2>1 DEF SaveStarted, CopiesCoherent
  <2>2. ASSUME pc[w] \in {"executing", "saveFailed", "saveCompleted"}, job'[w] = job[w]
        PROVE  runs'[job'[w]].status # "pending"
    <3>1. job[w] \in RunIds /\ job[w] \in minted /\ runs[job[w]].status # "pending"
      BY <2>2 DEF Started, Leased, CopiesCoherent
    <3> QED
      BY <1>3, <2>2, <3>1
  <2>3. SaveStarted(w) \/ (pc[w] \in {"executing", "saveFailed", "saveCompleted"} /\ job'[w] = job[w])
    BY <1>4, EntersExecuting
  <2> QED
    BY <2>1, <2>2, <2>3
<1>5. ASSUME NEW r \in RunIds, NEW i \in Items, diffs'[r][i] > 0
      PROVE  runs'[r].status \notin {"absent", "pending"}
  <2>1. CASE diffs[r][i] > 0 /\ ~Prune
    <3>1. r \in minted /\ runs[r].status \notin {"absent", "pending"}
      BY <2>1 DEF Fresh, Started
    <3> QED
      BY <1>1, <2>1, <3>1 DEF NewRun
  <2>2. CASE Prune
    BY <1>5, <2>2 DEF Prune, Started
  <2>3. ASSUME NEW w \in Workers, CompareDisagrees(w), r = job[w]
        PROVE  runs'[r].status \notin {"absent", "pending"}
    BY <2>3 DEF CompareDisagrees, Started
  <2>4. \/ diffs'[r][i] = diffs[r][i] \/ Prune
        \/ \E w \in Workers : CompareDisagrees(w) /\ r = job[w]
    <3>1. ASSUME NEW w \in Workers, Advances(w)
          PROVE  diffs'[r][i] = diffs[r][i] \/ (CompareDisagrees(w) /\ r = job[w])
      BY <3>1 DEF Advances, LoadAndStart, SaveStarted, CompareAgrees, CompareDisagrees,
                  InnerError, InnerDone, storeVars, CopiesCoherent
    <3> HIDE DEF IInv, TypeOK
    <3> QED
      BY <3>1, OtherwiseUndisturbed
  <2> QED
    BY <1>5, <2>1, <2>2, <2>3, <2>4
<1> QED
  BY <1>2, <1>4, <1>5 DEF Started

\* Where nobody cancels, a run with recorded discrepancies says when it
\* started, even when leases lapse and two workers execute the same run.
THEOREM DiffsOfStartedRuns ==
    ASSUME Cancellers = {}
    PROVE  Spec => []DiffsBelongToStartedRuns
<1> DEFINE Inv == Leased /\ Fresh /\ Started
<1>1. Init => Inv
  BY InitialAttempts DEF Init, Started, Absent
<1>2. IInv /\ Inv /\ [Next]_vars => Inv'
  BY LeasesExclusive, FreshPreserved, StartedPreserved
<1>3. IInv /\ Inv => DiffsBelongToStartedRuns
  <2> SUFFICES ASSUME IInv, Started, NEW r \in RunIds, \E i \in Items : diffs[r][i] > 0
               PROVE  runs[r].startedAt # Null
    BY DEF DiffsBelongToStartedRuns
  <2>1. runs[r].status \in {"running", "completed", "failed"}
    BY DEF Started, IInv, TypeOK, Row, Status, TerminalStatus
  <2> QED
    BY <2>1 DEF IInv, RowsCoherent, InOrder, Coherent
<1> HIDE DEF Inv
<1> QED
  BY <1>1, <1>2, <1>3, InductiveInvariant, PTL DEF Spec
-----------------------------------------------------------------------------
(* The stored transitions of runs nobody cancels.                          *)

\* Nobody changes the row of a live attempt behind its back: the copy it is
\* about to write is one transition away from what is stored.
Private ==
    \A w \in Workers : live[w] =>
      /\ pc[w] = "saveStarted" => /\ CanStart(runs[job[w]])
                                  /\ copy[w] = Start(runs[job[w]], copy[w].startedAt)
      /\ pc[w] = "executing" => copy[w] = runs[job[w]]
      /\ pc[w] = "saveFailed" => /\ CanComplete(runs[job[w]])
                                 /\ copy[w] = Fail(runs[job[w]], copy[w].finishedAt)
      /\ pc[w] = "saveCompleted" => /\ CanComplete(runs[job[w]])
                                    /\ copy[w] = Complete(runs[job[w]], copy[w].finishedAt)

\* Every step keeps the copy a worker executes in line with the stored row, as long
\* as nobody cancels and no lease lapses under a living worker.
LEMMA PrivatePreserved ==
    ASSUME Cancellers = {}, IInv, Leased, LiveOwns, Fresh, Private, [Next]_vars
    PROVE  Private'
<1>1. \A w, v \in Workers : (live[w] /\ live[v] /\ job[w] = job[v]) => w = v
  BY DEF Leased, LiveOwns
<1>2. ASSUME NEW w \in Workers, LoadAndStart(w) PROVE Private'
  <2>1. Start(runs[job[w]], now) = Start(runs[job[w]], Start(runs[job[w]], now).startedAt)
    BY DEF Start
  <2> QED
    BY <1>2, <2>1 DEF LoadAndStart, Private, IInv, TypeOK, storeVars
<1>3. ASSUME NEW w \in Workers, SaveStarted(w) PROVE Private'
  <2>1. job[w] \in RunIds
    BY <1>3 DEF SaveStarted, IInv, CopiesCoherent
  <2>2. live[w] /\ UNCHANGED <<job, live, copy>>
    BY <1>3 DEF SaveStarted
  <2>3. pc' = [pc EXCEPT ![w] = "executing"] /\ runs' = [runs EXCEPT ![job[w]] = copy[w]]
    BY <1>3 DEF SaveStarted
  <2> QED
    BY <1>1, <2>1, <2>2, <2>3 DEF Private, IInv, TypeOK
<1>4. ASSUME NEW w \in Workers, CompareAgrees(w) \/ CompareDisagrees(w) PROVE Private'
  BY <1>4 DEF CompareAgrees, CompareDisagrees, Private, storeVars
<1>5. ASSUME NEW w \in Workers, InnerError(w) PROVE Private'
  <2>1. Fail(copy[w], now) = Fail(copy[w], Fail(copy[w], now).finishedAt)
    BY DEF Fail
  <2>2. live[w] => copy[w] = runs[job[w]] /\ CanComplete(runs[job[w]])
    BY <1>5 DEF InnerError, Private, IInv, CopiesCoherent, CanComplete
  <2> QED
    BY <1>5, <2>1, <2>2 DEF InnerError, Private, IInv, TypeOK, storeVars
<1>6. ASSUME NEW w \in Workers, InnerDone(w) PROVE Private'
  <2>1. Complete(copy[w], now) = Complete(copy[w], Complete(copy[w], now).finishedAt)
    BY DEF Complete
  <2>2. live[w] => copy[w] = runs[job[w]] /\ CanComplete(runs[job[w]])
    BY <1>6 DEF InnerDone, Private, IInv, CopiesCoherent, CanComplete
  <2> QED
    BY <1>6, <2>1, <2>2 DEF InnerDone, Private, IInv, TypeOK, storeVars
<1>7. CASE ~\E w \in Workers : Advances(w)
  <2> SUFFICES ASSUME NEW v \in Workers, live'[v], pc'[v] \in Holding
               PROVE  runs'[job[v]] = runs[job[v]]
    BY <1>7, OtherwiseUndisturbed DEF Private, Holding
  <2>1. /\ live[v] /\ pc[v] \in Holding /\ job[v] \in RunIds /\ job[v] \in minted
        /\ CanCancel(runs[job[v]])
    <3>1. live[v] /\ pc[v] \in Holding
      BY <1>7, OtherwiseUndisturbed
    <3> QED
      BY <3>1 DEF Private, Holding, Leased, IInv, CopiesCoherent, CanStart, CanComplete, CanCancel
  <2>2. CASE Prune
    <3>1. runs[job[v]].finishedAt = Null
      BY <2>1 DEF IInv, RowsCoherent, InOrder, Coherent, CanCancel, IsTerminal, TerminalStatus
    <3> QED
      BY <2>1, <2>2, <3>1 DEF Prune, Prunable
  <2>3. ASSUME NEW q \in RunIds, NEW d \in BOOLEAN, SubmitRun(q, d)
        PROVE  runs'[job[v]] = runs[job[v]]
    BY <2>1, <2>3 DEF SubmitRun, IInv, TypeOK
  <2>4. ASSUME NEW w \in Workers, live[w], pc[w] \in Holding,
               runs' = [runs EXCEPT ![job[w]] = copy[w]], SaveStarted(w) \/ Release(w)
        PROVE  runs'[job[v]] = runs[job[v]]
    <3>1. Release(w)
      BY <1>7, <2>4 DEF Advances
    <3>2. v # w
      BY <3>1 DEF Release, Holding, IInv, TypeOK
    <3> QED
      BY <1>1, <2>1, <2>4, <3>2 DEF IInv, TypeOK
  <2> QED
    BY <2>2, <2>3, <2>4, RowWrites
<1> QED
  BY <1>2, <1>3, <1>4, <1>5, <1>6, <1>7 DEF Advances

\* One step of the pipeline is a step of the life cycle or leaves the table.
LEMMA StepsAreTransitions ==
    ASSUME Cancellers = {}, IInv, Leased, Private, [Next]_vars
    PROVE  [Lifecycle!Next]_(Lifecycle!lifecycleVars)
<1> USE DEF Lifecycle!Next, Lifecycle!lifecycleVars
<1>1. ASSUME NEW r \in RunIds, NEW d \in BOOLEAN, SubmitRun(r, d) PROVE Lifecycle!Next
  BY <1>1 DEF SubmitRun, Lifecycle!Create, NewRun, Lifecycle!NewRun, Null, Lifecycle!Null
<1>2. ASSUME Prune, UNCHANGED minted PROVE Lifecycle!Next
  <2> DEFINE S == {r \in RunIds : Prunable(runs[r])}
  <2>1. runs' = [r \in RunIds |-> IF r \in S THEN Lifecycle!Absent ELSE runs[r]]
    BY <1>2 DEF Prune, Absent, Lifecycle!Absent, Null, Lifecycle!Null
  <2>2. \A r \in S : Lifecycle!IsTerminal(runs[r].status)
    BY DEF Prunable, IInv, RowsCoherent, InOrder, Coherent, IsTerminal, TerminalStatus,
           Lifecycle!IsTerminal, Lifecycle!TerminalStatus
  <2>3. S \in SUBSET RunIds
    OBVIOUS
  <2>4. Lifecycle!Delete(S)
    BY <1>2, <2>1, <2>2 DEF Lifecycle!Delete
  <2> QED
    BY <2>3, <2>4
<1>3. ASSUME NEW w \in Workers, live[w], pc[w] \in Holding, UNCHANGED minted,
             runs' = [runs EXCEPT ![job[w]] = copy[w]]
      PROVE  Lifecycle!Next \/ UNCHANGED runs
  <2>0. /\ job[w] \in RunIds /\ copy[w] \in Row(Time) /\ runs \in [RunIds -> Row(Time)]
        /\ Coherent(copy[w])
    BY <1>3 DEF IInv, TypeOK, CopiesCoherent, InOrder, Holding
  <2>1. CASE pc[w] = "saveStarted"
    <3>1. copy[w].startedAt \in Time
      BY <2>0, <2>1 DEF Row, Coherent, IInv, CopiesCoherent
    <3>2. Lifecycle!Transition(job[w])
      BY <1>3, <2>1, <3>1 DEF Private, Lifecycle!Transition, Start, CanStart, Lifecycle!Start,
                              Lifecycle!CanStart
    <3> QED
      BY <2>0, <3>2
  <2>2. CASE pc[w] = "executing"
    BY <1>3, <2>0, <2>2 DEF Private
  <2>3. CASE pc[w] = "saveFailed"
    <3>1. copy[w].finishedAt \in Time
      BY <2>0, <2>3 DEF Row, Coherent, IInv, CopiesCoherent, IsTerminal, TerminalStatus
    <3>2. Lifecycle!Transition(job[w])
      BY <1>3, <2>3, <3>1 DEF Private, Lifecycle!Transition, Fail, CanComplete, Lifecycle!Fail,
                              Lifecycle!CanFail
    <3> QED
      BY <2>0, <3>2
  <2>4. CASE pc[w] = "saveCompleted"
    <3>1. copy[w].finishedAt \in Time
      BY <2>0, <2>4 DEF Row, Coherent, IInv, CopiesCoherent, IsTerminal, TerminalStatus
    <3>2. Lifecycle!Transition(job[w])
      BY <1>3, <2>4, <3>1 DEF Private, Lifecycle!Transition, Complete, CanComplete,
                              Lifecycle!Complete, Lifecycle!CanComplete
    <3> QED
      BY <2>0, <3>2
  <2> QED
    BY <1>3, <2>1, <2>2, <2>3, <2>4 DEF Holding
<1>4. CASE UNCHANGED minted
  <2>1. CASE UNCHANGED runs
    BY <1>4, <2>1
  <2>2. CASE ~UNCHANGED runs
    <3> HIDE DEF Lifecycle!Next, Lifecycle!lifecycleVars
    <3>1. Lifecycle!Next
      BY <1>1, <1>2, <1>3, <1>4, <2>2, RowWrites
    <3> QED
      BY <3>1
  <2> QED
    BY <2>1, <2>2
<1> HIDE DEF Lifecycle!Next, Lifecycle!lifecycleVars
<1> QED
  BY <1>1, <1>4, MintedGrows

\* Where nobody cancels and leases do not lapse under living workers, the runs
\* table implements the life cycle of the aggregate: every stored change is one
\* legal transition, although each is a blind overwrite with a copy.
THEOREM TableImplementsLifecycle ==
    ASSUME Cancellers = {}, Overlap = FALSE
    PROVE  Spec => ImplementsLifecycle
<1> DEFINE Inv == Leased /\ LiveOwns /\ Fresh /\ Private
<1>1. Init => Inv
  BY InitialAttempts DEF Init, Private
<1>2. IInv /\ Inv /\ [Next]_vars => Inv'
  BY LeasesExclusive, FreshPreserved, PrivatePreserved
<1>3. Init => Lifecycle!Init
  BY DEF Init, Lifecycle!Init, Absent, Lifecycle!Absent, Null, Lifecycle!Null
<1>4. IInv /\ Inv /\ [Next]_vars => [Lifecycle!Next]_(Lifecycle!lifecycleVars)
  BY StepsAreTransitions
<1> HIDE DEF Inv
<1> QED
  BY <1>1, <1>2, <1>3, <1>4, InductiveInvariant, PTL DEF Spec, ImplementsLifecycle, Lifecycle!Spec
=============================================================================
