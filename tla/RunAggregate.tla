---------------------------- MODULE RunAggregate ----------------------------
(***************************************************************************)
(* The Run aggregate of internal/verification: the row the runs table      *)
(* stores and the transitions the aggregate's methods allow.  A row keeps  *)
(* the status and the two nullable timestamps; the chain, strategy,        *)
(* metrics, trigger and plans never change after NewRun and no property    *)
(* tells them apart, so they are left out.  The status "absent" stands for *)
(* a missing row.                                                          *)
(***************************************************************************)
EXTENDS Integers

\* A NULL timestamp column (started_at, finished_at).
Null == -1

TerminalStatus == {"completed", "failed", "cancelled"}
Status == {"pending", "running"} \cup TerminalStatus

\* Status.IsTerminal.
IsTerminal(s) == s \in TerminalStatus

\* A row of the runs table whose timestamps are drawn from T, or no row.
Row(T) == [status     : Status \cup {"absent"},
           startedAt  : T \cup {Null},
           finishedAt : T \cup {Null}]

Absent == [status |-> "absent", startedAt |-> Null, finishedAt |-> Null]

\* A Run fresh from the constructor.
NewRun == [status |-> "pending", startedAt |-> Null, finishedAt |-> Null]

\* Mutants of CanStart: a retry may restart a failed run, or resume a running one.
CanStartFailed(row) == row.status \in {"pending", "failed"}
CanStartRunning(row) == row.status \in {"pending", "running"}

\* Start: pending -> running.
CanStart(row) == row.status = "pending"
Start(row, t) == [status |-> "running", startedAt |-> t, finishedAt |-> row.finishedAt]

\* Complete: running -> completed.
CanComplete(row) == row.status = "running"
Complete(row, t) == [status |-> "completed", startedAt |-> row.startedAt, finishedAt |-> t]

\* Fail: pending or running -> failed.
CanFail(row) == row.status \in {"pending", "running"}
Fail(row, t) == [status |-> "failed", startedAt |-> row.startedAt, finishedAt |-> t]

\* Mutant of Cancel: finished_at is left NULL.
CancelUnstamped(row, t) == [status |-> "cancelled", startedAt |-> row.startedAt, finishedAt |-> Null]

\* Cancel: pending or running -> cancelled.
CanCancel(row) == row.status \in {"pending", "running"}
Cancel(row, t) == [status |-> "cancelled", startedAt |-> row.startedAt, finishedAt |-> t]
-----------------------------------------------------------------------------
(***************************************************************************)
(* What it means for the columns of one row to agree with each other.      *)
(* PruneFinishedBefore selects rows by finished_at alone, so the deletion  *)
(* of terminal rows only rests on the third conjunct.                      *)
(***************************************************************************)
Coherent(row) ==
    /\ row.status \in {"absent", "pending"} => row.startedAt = Null
    /\ row.status \in {"running", "completed", "failed"} => row.startedAt # Null
    /\ (row.finishedAt # Null) <=> IsTerminal(row.status)
    /\ (row.finishedAt # Null /\ row.startedAt # Null)
          => row.startedAt <= row.finishedAt
=============================================================================
