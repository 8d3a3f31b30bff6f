# chain-sync-watch: TLA+ models, checks and proofs

chain-sync-watch compares what several blockchain data sources (RPC nodes, Blockscout,
Routescan) say about the same blocks and addresses. `csw-server`
accepts runs and schedules over HTTP and stores them in PostgreSQL; `csw-worker` processes take
tasks from asynq (a Redis queue), fetch from the sources, compare, and store discrepancies.
A second bounded context, the probe context, watches the latency and errors of endpoints.

This directory holds the models of the parts whose correctness depends on order, concurrency,
failure or arithmetic at a boundary. Paths below are relative to `src/`.

## 1. Inventory

| component | source | state | operations | module |
|---|---|---|---|---|
| Run aggregate | `internal/verification/{run,rehydrate,trigger}.go` | status, timestamps, plans, metrics, trigger, summary | NewRun, SetTokenPlans, Start, Complete, Fail, Cancel, Rehydrate | `RunAggregate`, `RunLifecycle`, `RowCodec` |
| Run pipeline | `internal/application/{schedule_run,execute_run,cancel_run}.go`, `internal/infrastructure/queue/handlers.go`, `internal/infrastructure/persistence/run_repository.go` | the runs and discrepancies tables, the copy each process holds | ScheduleRun, HandleExecuteRun, ExecuteRun.Execute, CancelRun, HandlePruneOldRuns | `RunPipeline` |
| Task queue | `internal/infrastructure/queue/{dispatcher,tasks,middleware}.go`, asynq (external) | task state, retry count, lease | enqueue, deliver, time out, recover, retry, archive; payloads | `RunPipeline`, `Schedules`, `RowCodec` |
| Rate-limit budget, fan-out | `internal/infrastructure/queue/budget.go`, `execute_run.go` (`fanOutFetch`) | a Redis counter per source and window, a goroutine per source | Reserve, fetch, Refund, join | `RateBudget` |
| Schedules | `internal/infrastructure/queue/{dispatcher,scheduler}.go`, `internal/infrastructure/persistence/schedule_repository.go` | schedule rows, the view of every replica | ScheduleRecurring, CancelScheduled, GetConfigs, fire, HandleScheduledRun | `Schedules` |
| Comparison and judgement | `internal/diff/{tolerance,judgement}.go`, `internal/application/tolerance_resolver.go`, `execute_run.go` (`compareAndSave`, `applyTolerance`) | none kept: one pass over the snapshots | Judge of each tolerance, pairwise reduction, trusted cluster | `Tolerances`, `Comparison` |
| Probes, incidents, HTTP prober | `internal/application/probe/*.go`, `internal/probe/*.go`, `adapters/httpprobe/prober.go` | observations, incidents | RunProbe, Probe, NewObservation, EvaluateWindow | `ProbeIncidents` |
| Execution passes, sampling, summary | `execute_run.go` (`executeInner` and the five passes), `internal/verification/{sampling,summary}.go` | the sampled blocks, the subjects left, the summary | ForChain, Finalized, Tip, Blocks, fetch, compare, save, RecordSummary | `Sampling`, `ExecutePasses` |
| Source configuration and gateway | `internal/infrastructure/httpapi/routes/sources.go`, `internal/infrastructure/persistence/source_repository.go`, `internal/infrastructure/gateway/*.go`, `cmd/csw/cmdmigrate`, `internal/secrets` | source rows, updates in flight | POST, PUT, DELETE, seed, ForChain, Get, Build | `SourceConfigs` |
| Discrepancy replay | `internal/application/replay_diff.go`, `internal/infrastructure/persistence/diff_repository.go` | discrepancy rows and their resolution | ReplayDiff, MarkResolved, cascade of the sweep | `DiffReplay` |
| HTTP client and source adapters | `adapters/internal/{httpx,ethscan}/*.go`, `adapters/{rpc,blockscout,routescan}/*.go`, `internal/source/*.go` | the attempt, the limiter's tokens, the calls of a fetch | Do, callRPC, Call, CallProxy, getJSON, the Fetch methods, Supports | `SourceFetch` |
| HTTP API for runs and schedules | `internal/infrastructure/httpapi/{dto,routes}/{run,runs,schedule,schedules,errors}.go`, `internal/application/schedule_run.go` | the call in progress, the page a reader is at | POST /runs, POST and DELETE /schedules, GET /runs, GET /runs/{id}, MapError | `RequestPath` |
| Persistence mapping | `internal/infrastructure/persistence/{mapper,serialize,models}.go`, `internal/chain/*.go` | rows of runs, schedules and discrepancies | both directions of every mapper | `RowCodec` |
| Configuration, logging, health, wiring of the commands, dashboard | see `PROJECT.json` | none of their own | I/O, wiring | not modelled |

How the parts interact:

- `csw-server` saves a pending run and then enqueues an `execute_run` task: two calls to two
  systems. `csw-worker` creates runs the same way when a schedule fires.
- A worker loads the row, works on a copy and upserts the whole copy, three times per execution
  (started; failed or completed). `CancelRun` does the same from the server. Nothing compares
  versions, so whoever writes last wins.
- asynq redelivers a task after an error, a timeout, a crash or a lost lease. The handler decides
  by the row's status alone whether to go on.
- Every subject of an execution is fetched from all sources at once; a budget shared through Redis
  meters these calls; each comparison judges the snapshots that survive.
- Every worker replica polls the schedule rows and keeps its own view of what to fire.
- Every run builds its adapters from the source rows as they are at that moment, through the gateway;
  a replay builds the adapters of the participants of its record.
- An adapter sends all its requests through one HTTP client, which has a limiter in the rpc adapter and in Routescan
  and none in Blockscout (`adapters/blockscout/adapter.go:71`); what it returns is a complete result or an error that
  the fan-out only takes note of.
- A request is a body, a use-case input, a row, for schedules also a task payload and another row, before a
  worker acts on it; each change of form is written in one package and read in another.
- The probe use cases meet only in their repositories.

What is hard here, and what makes each component correct:

- *Pipeline.* Whole-row writes of stale copies, redelivery, crashes between any two calls, a
  context that expires before the save that should record it. Rows must stay coherent, the sweep
  must never take a run in flight, a settled run must stay settled, no comparison may be recorded
  twice, every task must settle.
- *Budget.* Keys are computed from the clock before the script runs and again for the refund; Redis
  answers get lost. The limit must hold and every unit must be accounted for.
- *Schedules.* Replicas act on stale views, a retried fire repeats its effects, one bad row may
  stop everybody. Views must converge, fires must settle, and start no more runs than they were tried.
- *Comparison.* Unsigned arithmetic at the ends of the block range, a reduction over pairs that may
  stop early, Go map order. The verdict must be that of the whole sample, and be deterministic.
- *Probes.* Observations arrive after they are stamped; look and act are separate calls. Incidents
  must be backed by evidence, must not overlap, and must follow the metric.
- *Passes.* Five passes share a category of metrics but not their fetches; sampling loops run over
  unsigned block numbers. The sample must be the one its strategy documents, a completed run must have covered
  its subjects, a disagreement that was heard must be saved.
- *Configuration and replay.* Updates write whole rows, replays hold copies of records while rows,
  upstreams and the run change. Credentials must stay decryptable, records must not come back, and
  silence must not resolve anything.
- *Fetches.* Retries, backoff, limiter and deadline interact; four protocols report errors in their own
  ways. Results must be complete, retries patient and bounded, errors must keep their meaning.

- *Requests and rows.* Checks are made at the door and made again, by other code, whenever a row or payload is
  read; a use case makes two writes to two systems; pages are cut by offset out of a moving list. What is
  executed must be what was asked for, what is stored must read back, answers must be true, and a reader
  must not miss runs without cause.

`PROJECT.json` lists the hazards with the line where each bites and the properties that watch it.

## 2. Plan

Done, in this order: `RunAggregate`, `RunLifecycle` (abstract specification), `RunPipeline`,
`RunPipelineProofs`, `RateBudget`, `RateBudgetProofs`, `Schedules`, `Tolerances`, `Comparison`,
`ProbeIncidents`, `Sampling`, `ExecutePasses`, `SourceConfigs`, `DiffReplay`, `SourceFetch`, `RowCodec`,
`RequestPath`; then the proofs: that a run is executed once, and its refinement, in `RunPipelineProofs`, the account
of leaks in `RateBudgetProofs`, `DiffReplayProofs`, `SourceFetchProofs`, `ProbeIncidentsProofs`, `ComparisonProofs`,
`ExecutePassesProofs`, `RequestPathProofs` (which also holds the theorem about `Schedules`). With these every safety
property of a passing run is also a theorem.

What could follow: the composition of `SourceFetch` under `fanOutFetch`, so that the retries of an adapter are seen
against the budget that counts one unit per fetch; and a database implementation of the probe repositories, once
there is one.

Where one module can answer several questions in one instance it does: the runs below are kept few
and each checks everything its instance can show.

## 3. Modules and the code

**`RunAggregate`** is the row of the runs table (status and two nullable timestamps) with one
guard and one effect per method of `Run`. **`RunLifecycle`** is the promise to a reader of the
table: rows are created pending, move by those methods only, leave a terminal status only by being
deleted, and never come back.

**`RunPipeline`** has one step per call that another process can observe: the save and the enqueue
of `ScheduleRun`; load with `Start`, save, each comparison with its insert, the save of the outcome
in `ExecuteRun.Execute`; load and save of `CancelRun`; the `DELETE` of the sweep. `copy[w]` and
`cancelCopy[c]` are the aggregates in memory. asynq appears as the code relies on it: `taskState`,
`retried`, `owner` (the lease) and `live` (the context). `Faults` switches on crashes, timeouts and
failing calls; `Overlap` lets a lease lapse while its worker lives. A pass over subjects is a
sequence of `NItems` comparisons, whose inside is in `Comparison` and `RateBudget`. The module states its refinement as
`INSTANCE RunLifecycle WITH` the ids, the clock and the rows of the table under the same names: the table is
what a reader sees, tasks, copies and contexts are hidden. Points a reader may stumble over:

- A comparison that records nothing does not need a live context: an expired one looks like sources
  that did not answer, and the subject is skipped.
- `InnerError` is possible where the code can return an error: while the subjects are planned, when
  an insert fails (a swept parent row violates the foreign key), or when the context has expired.
- The clock is not tied to the task timeout, which allows more behaviours than the code has.
- The requeue of tasks on a graceful shutdown of asynq is left out; a crash covers its effect.

**`RateBudget`** gives every goroutine of `fanOutFetch` the steps key, script, fetch, key, script.
A lost answer of Redis is two cases: the script ran or not. `spent`, `served`, `stray`, `leaked`
and `expired` are histories for the properties; a refund of another window counts as stray only when it
finds a unit to take, so that the floor of the refund script matters. `csw-worker` does not pass a budget to `ExecuteRun`
today; the model is of the code as it would run with one.

**`Schedules`** covers rows, replicas and the handler. A cron expression is an hour of a short day, or one
that is accepted but that the engine cannot parse (`NoHour`): the manager leaves such an entry out and
registers the others. The rest of the cron language is asynq's. `Upgrade` is a release in which a stored row no longer
decodes; `Boot` fails while one such row is active, because `Scheduler.Start` returns its first
sync's error. The enqueue of a fired run and asynq's acknowledgement of the fire are two steps (`EnqueueRun`,
`Acknowledge`): when the answer of the enqueue is lost, or the worker dies in between, the fire is tried again
although its run is in the queue (`Unacknowledged`).

**`Tolerances`** are the pure functions of `internal/diff/tolerance.go`, with block numbers modulo
`Modulus`. **`Comparison`** runs one metric of one subject through `applyTolerance` and
`pickTrustedCluster`, pair by pair and cluster by cluster, the clusters in any order because they
come out of a Go map. The place of a source among the sorted entries is the number of sources up to it. Severity and the wording of the reasoning are left out.

**`ProbeIncidents`** has the steps of `RunProbe` and `EvaluateWindow` between repository calls. `Probe` turns
every status and every kind of transport failure into a class, and `NewObservation` may refuse the result;
of an observation the metrics see its latency and whether it failed. The error rate is compared exactly, where the code
divides in `float64`.
Observations are identified by their time stamps. The repositories are ports without a database
implementation so far; what `ListWindow`, `FindOpen` and `CloseAt` do is taken from
`internal/application/probe/testsupport/fakes.go`. No command wires these use cases yet, and
nothing calls `PruneBefore`.

**`Sampling`** are the block strategies in the arithmetic of block numbers modulo `Modulus`, next to
what the comment of each strategy promises in plain integers (`IsSample`). The interface asks for
more, ascending order of every sample, which fixed lists do not keep. **`ExecutePasses`** is `executeInner`: one
step per call on a port, per iteration of a sampling loop, per subject fetched and per metric
compared. The verdict on one sample belongs to `Comparison`; here a source has one view of the chain
and a windowed sample may be stale. A field
that an answer leaves out (`extract.go:31`) is not modelled: for its metric it is as good as a lost answer. `csw-worker` (`cmd/csw-worker/main.go:120`) wires neither the
samplers nor a budget, so the passes over addresses and tokens do nothing in that deployment; the
model takes the samplers as wired or not.

**`SourceConfigs`** is the sources table of one chain. A row's id is made of its type and chain, so the
type is the key. `PUT` is a load and a save; encryption draws a fresh nonce, and a ciphertext
decrypts only with the nonce of its own encryption. `csw migrate seed` inserts row by row.
**`DiffReplay`** extends it with upstreams, the records of one block-immutable metric (replay refuses
all others), the sweep with its cascade, and the replay: load, one `Get` per participant in the order
of a Go map, one fetch each, and the outcome. The cipher is taken as configured.

**`SourceFetch`** is one adapter instance with its client, serving fetches one after the other, as the
fan-out does for each source. A fetch is its sequence of calls; a call names the protocol it goes over
and what the adapter decodes. Replies are classes: a usable value or one of the ways in which there is
none, as far as the protocol can express it. Throttling comes in the words and the code band that the decoders
look for, in other words within the band, or otherwise; a body may be cut short by the upstream, by a failed
connection or by the end of the context. `Retry-After` is a number of seconds or a date, and
`parseRetryAfter` reads the former only. Time is counted in tokens of the limiter; the client of Blockscout has none
(`HasLimiter`). Jitter and bodies that cannot be sent again are left out: every request the adapters make has a body
that can be.

**`RowCodec`** are the mappers between aggregates, rows and task payloads, as pure operators. A JSON object is
the record of its keys: what `omitempty` leaves out is not in it, a missing key reads as the zero value. A Go
function with an error result is a pair of operators: `FOk(x)` says whether it returns without error, `F(x)` what it
then returns, so that a loop over elements is in order if all of them are. Hex texts, address spellings and cron expressions are records of
what the code distinguishes: a number, the address with whether its checksum is right, the number of
fields with whether their characters are allowed. Block numbers go through signed columns of the width
`MaxInt64`, and times through TIMESTAMPTZ columns that keep whole microseconds (`Timestamptz`, `Micro` units of
the clock). **`RequestPath`** extends it with the way of a request: the DTO mappings of both
routes, `ScheduleRun.Execute` with one step per call to the database or Redis, the fire of a schedule and
`HandleScheduledRun`, the worker's load, the result with its summary and discrepancy, the sweep, and a client
that pages through `GET /runs`. `cause` and `saved` are histories: the request a run stands for and the
aggregate that was last saved. What the other modules are about is only outlined: a schedule fires at any
time, an execution succeeds. Points a reader may stumble over:

- Bodies are within the published schema, which huma enforces (external): kinds are those of the enums, lists
  have their minimal lengths. Identifiers are fresh, so the 409 of a duplicate run does not arise, nor, as
  `StoredRowsReadBack` shows, the rejection of a payload; `Schedules` has that case for rows of another release.
- A call to the database or Redis that fails has had no effect here; the lost answer is in `RunPipeline`. The
  exception is the enqueue of a fired run, which may have happened although its fire is tried again.
- List filters and the total are left out, and so are the read-only routes other than `GET /runs`.
- The summary of a view is that of the run; its hex texts are as in the row.

`MCRunPipeline`, `MCComparison`, `MCProbeIncidents`, `MCExecutePasses`, `MCDiffReplay` and `MCRequestPath` hold the
symmetry and the values of constants that a configuration cannot write; `RateBudget`, `Schedules` and
`SourceFetch` are checked as they are. Operators introduced by a comment "Mutant of X" are faulty
variants of X that no specification uses: each shows that a property would notice such a bug.

## 4. Runs

| run | instance | shows |
|---|---|---|
| `pipeline_races` | one run, two workers, one canceller, one comparison, one retry, clock 0..2, faults and overlaps, fair | `RowsCoherent`, `SweepTakesOnlyOldFinishedRuns`, `SettledForGood`, `TasksSettle` hold in the worst setting |
| `pipeline_lifecycle` | two runs, two workers, faults, no cancel request, leases hold | `ImplementsLifecycle`, `NoComparisonRecordedTwice`, `DiffsBelongToStartedRuns` |
| `pipeline_finish` | two runs, two workers, one canceller, no faults, fair | `SubmittedRunsFinish` |
| `budget_windows` | two executions, a capped and an uncapped source, limit 1, two windows, two rounds, failing Redis, fair | `CountWithinLimit`, `OverspendIsStrayRefunds`, `LeaksAreAccountedFor`, `FanOutsJoin` |
| `schedules_converge` | two schedules, two replicas, one fired task with one retry, a day of two hours, faults, rows that stop decoding, fair | `FiresAccountedFor`, `FiresSettle`, `CancelledStopsFiring`, `SchedulesArePickedUp` |
| `comparison_samples` | up to three sources, five raw strings, block numbers of three bits, all default and six pinned tolerances | `OutcomeFitsSample`, `TrustIsDeterministic` |
| `probe_follow` | two probe calls with fourteen kinds of reply, one evaluation, three thresholds, clock 0..2, faults, fair | `EvidenceShowsBreach`, `IncidentsInSequence`, `IncidentsFollowMetric` |
| `requests_path` | two calls, the first with any of some fifty bodies on both routes, three runs, one schedule, clock 0, 3, 6 in columns that keep even instants, two time zones, pages of one run, signed columns of eight bits, failing calls and a dying server | `ExecutionMatchesRequest`, `StoredRowsReadBack`, `AnswersTellTheTruth`, `PagesMissOnlyForSweeps` |
| `passes_coverage` | all strategies over block numbers of three bits; runs of up to four metrics, two addresses, two tokens, three sources, one subject with lost or stale answers, fair | `SampleIsAsDocumented`, `SummaryCoversTheRun`, `ValuesComeFromTheirFetch`, `DisagreementsAreSaved`, `ExecutionEnds` |
| `replay_records` | three known types and an unknown one, two endpoints, two values, two updates in flight, one replay at a time, two records, two events | `StoredSecretsDecrypt`, `RecordsNarrow`, `ResolvedOnTwoAnswers`, `SweptForGood` |
| `fetch_calls` | every fetch of the three adapters, three attempts, a burst of one, Retry-After of none, one and three ticks in seconds and as a date, fair | `RateHeld`, `RetriesWait`, `CompleteOrNothing`, `PermanentErrorsAreAnswers`, `FetchesReturn` |
| `pipeline_cancel_race` | one run, one worker, one canceller | violates `TerminalIsFinal` |

`pipeline_races` also checks `TypeOK`; the type invariant of `RateBudget` is proved as a part of its inductive
invariant.

*Bounds.* Two workers and one canceller are the fewest that make three stale copies of one row; a
third of either only repeats a pair. One retry distinguishes first, last and archived attempt. The
clock of `pipeline_races` goes just far enough for a row to become old enough for the sweep while
another copy of it is still held; one comparison is enough to see it recorded twice. Two windows are what one
refund can straddle, and a limit of one makes every second reservation meet the boundary. Three
sources make the smallest sample in which a pair judged early and a pair judged late differ and
closeness within one is not transitive. Three instants give a window that holds a late observation
between two others, and evidence that must be cut. Block numbers of three bits put both ends of the
range, the wrap and lengths that cannot be represented within reach of every strategy; two addresses,
two tokens and a list that repeats a block are what distinguishes the keys of subjects. Two events
are an edit and a change upstream, or a sweep, during one replay, or two updates of one row; a record
and the record of its replay are two. Three attempts have a first, a middle and a last one, and
Retry-After is shorter than, equal to and longer than the backoff. Of the replies to a probe only a success
is slow: the failures stay below the latency limit, so that the three metrics trip apart. Two calls make a run
that is created while another is read, swept or executed; three runs are the two of a schedule (the one saved
with it and one it fires) and one beside them, and make lists of three pages in which an insert and a sweep both
move the offset. A clock that moves by three units where a column keeps every second makes stamps that are cut and
stamps that are not. While a client pages, only ordinary calls are made (`PagingBound`): what is in a row does not
matter to the order of rows. `PagesMissOnlyForSweeps` is tight: a bound of zero misses is violated.

*Deadlock.* `SourceFetch` never stops and is checked for deadlock. The other configurations say
`CHECK_DEADLOCK FALSE`: those systems end when the bound on runs, rounds, fires, events or time is used
up and nothing is left to do.

*Fairness.* Handlers, goroutines and evaluations run until they return: every call they make has a
timeout. asynq hands out queued tasks and recovers lapsed leases; a request that saved a run goes on
to enqueue it (or fails, where faults are on); an HTTP request is answered or times out and
time passes for limiters and backoffs; the platform restarts replicas and each keeps polling;
due entries fire. Faults, cancel requests, sweeps, operators and the clock of pipelines and probes
are under no obligation. The probe property asks in addition that evaluations fail only finitely
often, since a scheduler that fails for ever can promise nothing.

### Disagreements with the code's own words

Shown by `pipeline_cancel_race`:

- A cancelled run becomes completed (or failed) when the worker saves its copy: `RunRepo.Save` at
  `internal/infrastructure/persistence/run_repository.go:27` compares nothing, while
  `internal/verification/run.go:50` calls terminal "a final state that no transition may leave".

Visible in the models, without a run of their own:

- `FixedList.Blocks` copies its list (`internal/verification/sampling.go:57`), in whatever order and with whatever
  repetitions it was requested, while the interface says of every strategy that `Blocks()` "returns the selected block
  numbers in ascending order" (lines 22-23). The comment of `FixedList` itself says "verbatim", and that is what
  `SampleIsAsDocumented` holds it to; the other three strategies it holds to ascending order.
- A run whose task times out stays `running`: the failed copy is saved with the expired context
  (`internal/application/execute_run.go:111`) and the error of that save is dropped, while lines 222-223 say "Any
  error it returns causes Execute to transition the run to failed" (`SaveFailedFails` in `RunPipeline`).
- `NewSchedule` accepts cron expressions of six fields (`internal/verification/schedule.go:57`) and the example in
  the API schema has six (`internal/infrastructure/httpapi/dto/run.go:143`), while the scheduler takes five, as
  `internal/probe/probe.go:94` and `docs/plans/README.md:93` say: such a schedule is stored, listed and never
  fires. `SchedulesArePickedUp` excepts it.
- A scheduled trigger without a schedule is a plain error and so a 500
  (`internal/application/schedule_run.go:60`), although "Validation failures surface as ErrInvalidRun" (line 46),
  which would be a 400.
- `POST /runs` keeps the cron expression of the trigger beside that of the schedule; the two may differ, and the
  run saved first shows the former.
- The run that `POST /schedules` answers with is saved and never enqueued: it stays pending, although the
  response calls it "First Run the schedule materialised" (`internal/infrastructure/httpapi/dto/schedule.go:26`).
- `RunRepo.List` orders by `created_at` alone (`internal/infrastructure/persistence/run_repository.go:76`), so runs of
  one instant may change places between pages; `DiffRepo.List` has a tie-breaker (`diff_repository.go:116`).
- A run that executed and compared nothing has a zero summary, which the view leaves out; the schema says "absent
  for runs that never executed" (`internal/infrastructure/httpapi/dto/run.go:397`).
- A status above 599 is refused by `NewObservation`, so the call leaves no observation and `RunProbe.Execute` fails,
  although "the only `error` returns from Execute are repository / not-found failures"
  (`internal/application/probe/run_probe.go:25`; `RefuseResult` in `ProbeIncidents`).
- One active row that does not decode makes `ListActive` fail for all
  (`internal/infrastructure/persistence/schedule_repository.go:66`), although `GetConfigs`
  (`dispatcher.go:229`) says such records are skipped. Cancelled schedules also keep firing meanwhile,
  which is why `CancelledStopsFiring` and `SchedulesArePickedUp` are stated for tables that decode.
- `consecutive_failures` without a window looks back ten seconds per failure
  (`internal/application/probe/evaluate_window.go:81`), so a slower probe never has enough data;
  line 26 says "uses the most recent N regardless of time". `IncidentsFollowMetric` speaks of windows
  with enough data.
- A replay marks a record resolved when the sources that answer agree, even if the one that disagreed
  was silent (`internal/application/replay_diff.go:75`); line 14 says "Resolved=true means the original
  disagreement no longer holds". `ResolvedOnTwoAnswers` states what the code does ensure.
- An exhausted 429 or 5xx comes back from the client drained and closed. `callRPC` reads the body
  before it looks at the status (`adapters/rpc/jsonrpc.go:95`), so the error is a read error and not
  `ErrRateLimited` or `ErrSourceUnavailable`, although `internal/source/errors.go:8` says adapters must map
  every transport error. The other results "unnamed" of the model are a body cut short, null for the
  finalized block, and numbers the wrapped proxy cannot decode.
- The timeout of the `http.Client` is an exceeded deadline to `errors.Is`, so `DefaultRetryable`
  (`adapters/internal/httpx/retry.go:48`) never retries a slow upstream.
- Throttling inside a 200 is recognised by its wording only: in JSON-RPC "rate limit" within the band
  -32099..-32000 (`adapters/rpc/jsonrpc.go:175`), where other words become `ErrSourceUnavailable` and other codes
  `ErrInvalidResponse`; in the envelope by the words of its message; behind a raw proxy not at all. A body of a 200
  that a failed connection or an ended context cuts short is `ErrInvalidResponse` outside JSON-RPC
  (`adapters/internal/ethscan/client.go:148`, `adapters/blockscout/rest.go:50`). Both look permanent to callers;
  `PermanentErrorsAreAnswers` is about statuses and about what the decoders recognise (`KnownTemporary`).
- A `Retry-After` that is an HTTP-date counts as none (`adapters/internal/httpx/client.go:276`), although the comment of
  `Do` (line 127) says that the header "overrides the computed backoff when it asks for a longer wait". `RetriesWait`
  is about seconds. A call that has used up its attempts waits for nothing, and the next fetch starts at once.
- Blockscout's client has no limiter (`adapters/blockscout/adapter.go:71`), although
  `docs/plans/phase-03-source-adapters.md:41` plans five requests per second. `RateHeld` is about the other two.
- An answer of Redis that is lost, or a worker that dies, after `handlers.go:192` makes asynq try the fire again,
  and the fire starts a second run. `FiresAccountedFor` bounds the runs of a fire by its attempts.
- The loops of `LatestN` and of `Random` over a whole range step over the largest block number and do
  not end (`internal/verification/sampling.go:88`), and the length of the whole range is zero
  (`SampleIsAsDocumented` and `ExecutionEnds` except exactly these).
- `POST /sources` upserts, and neither it nor `PUT` builds the row: one enabled row of an unknown type or
  an rpc row without an endpoint fails `ForChain` for the whole chain. A `PUT` that raced a `DELETE` brings the
  row back.
- The key of a discrepancy has no token, so two ERC-20 balances of one address share it.
- A retry of a failed or interrupted run is refused by `Start`, so a pipeline never runs twice
  (`NoComparisonRecordedTwice` rests on it); `handlers.go:104` expects retries of the pipeline.
- A refund after the window rolled over takes a unit from the new window (`stray`), where
  `budget.go:125` calls such refunds no-ops.
- The timezone of a schedule is stored but not given to the cron engine (`dispatcher.go:250`).
- Each attempt of a retried fire saves another pending run (`saved` in `Schedules`); the earlier ones
  stay pending. Several worker replicas each fire the same entry: no `Unique` option is set.
- Two concurrent evaluations can open two incidents for one metric; `IncidentsInSequence` is
  therefore claimed for one evaluation at a time.
- Two schedules with the same cron expression and payload render to identical entries, which carry no job id;
  how asynq tells entries apart is its own matter, and the models register by job id.
- An error-rate threshold of zero trips on a healthy window, since the test is `>=`.
- A numeric tolerance over equal strings that are not numbers records a discrepancy in which all
  sources agree: `Decide` then trusts everyone.

## 5. Proofs

Every theorem holds for every value of the constants that its module's named assumption admits. The table gives the
property a run checks on a small instance, the theorem that states it in general, and what the theorem assumes
beyond that.

| module | theorem | states | for |
|---|---|---|---|
| `RunPipelineProofs` | `TypeCorrect` | `[]TypeOK` | everything |
| | `RowsStayCoherent` | `[]RowsCoherent` | everything |
| | `SweepIsSafe` | `SweepTakesOnlyOldFinishedRuns` | everything |
| | `SettledStaysSettled` | `SettledForGood` | everything |
| | `EnteredAtMostOnce` | `[]NoComparisonRecordedTwice` | `Overlap = FALSE`; faults and cancellers as they come |
| | `DiffsOfStartedRuns` | `[]DiffsBelongToStartedRuns` | `Cancellers = {}`; faults and overlaps as they come |
| | `TableImplementsLifecycle` | `ImplementsLifecycle` | `Cancellers = {}`, `Overlap = FALSE` |
| `RateBudgetProofs` | `LimitHolds` | `[]CountWithinLimit` | everything |
| | `OverspendBounded` | `[]OverspendIsStrayRefunds` | everything |
| | `LeaksBounded` | `[]LeaksAreAccountedFor` | everything |
| `ComparisonProofs` | `TrustIsDetermined` | `[]TrustIsDeterministic`, and that the fallback sort has one first cluster | everything |
| | `PairsDecideSample` | `[]OutcomeFitsSample` | pinned tolerances that are `Sensible` |
| `DiffReplayProofs` | `SecretsStayReadable` | `[]StoredSecretsDecrypt` | everything |
| | `ReplaysNarrow` | `[]RecordsNarrow` | everything |
| | `SilenceResolvesNothing` | `[]ResolvedOnTwoAnswers` | everything |
| | `NoRecordReturns` | `[]SweptForGood` | everything |
| `SourceFetchProofs` | `RequestsAreMetered` | `[]RateHeld` | everything; says nothing of Blockscout |
| | `RetriesAreHeldBack` | `RetriesWait` | everything; of dates only what concerns the context |
| | `NothingLeftOver` | `[]CompleteOrNothing` | everything |
| | `PermanentMeansAnswered` | `[]PermanentErrorsAreAnswers` | everything |
| `ProbeIncidentsProofs` | `IncidentsAreBacked` | `[]EvidenceShowsBreach` | everything |
| | `OneAfterAnother` | `[]IncidentsInSequence` | at most one evaluator (`Single`) |
| `ExecutePassesProofs` | `SummaryIsTheRun` | `[]SummaryCoversTheRun` | everything |
| | `NoDisagreementIsLost` | `[]DisagreementsAreSaved` | everything |
| | `EveryValueFromItsFetch` | `[]ValuesComeFromTheirFetch` | everything |
| | `SamplesAreAsDocumented` | `[]SampleIsAsDocumented` | everything |
| `RequestPathProofs` | `RowsReadBack` | `[]StoredRowsReadBack` | everything |
| | `WorkersDoAsAsked` | `[]ExecutionMatchesRequest` | everything |
| | `AnswersAreTrue` | `[]AnswersTellTheTruth` | everything |
| | `PagesAreNearlyComplete` | `[]PagesMissOnlyForSweeps` | everything |
| | `FiresBalance` | `[]FiresAccountedFor` of `Schedules` | `MaxRetry \in Nat`, as `SchedulesAssumption` has it |

*The extra hypotheses* are the ones under which the runs check the same properties, and the code needs them. With a
cancel request a terminal row may change (`pipeline_cancel_race`), and a cancelled run that a worker still executes
may get discrepancies; with a lapsed lease two workers may execute one run. Two evaluations at a time may open two
incidents. `Sensible` is new knowledge: a relative slack of more than 1000000 ppm on values of both signs accepts
-10 and 1 and rejects -1 and 1, so that the extremes no longer speak for the sample. The theorem therefore asks that
the slack be at most the whole or that no value be negative; balances and counts are not.

*The assumptions on constants* say what the code's types and constructors ensure: naturals where there are counters,
booleans for the switches, `Capped` within `Sources`, tolerances whose fields are block numbers, integers or
naturals, thresholds that pass `Threshold.Validate`, as `NewProbe` demands. `RateBudget` takes finitely many
executions, since its last theorem counts them. `JobsAssumption` types the jobs of `ExecutePasses` (strategies within
the width `Modulus`, ranges that `NewBlockRange` accepts, known metrics), `CodecAssumption` says that the metric registry is
keyed by the keys of its metrics, that zones are names and UTC is one, and that columns keep multiples of a
positive `Micro`, `NullAssumption` that a column that is not NULL is not Null.
`RequestPathAssumption` takes every body within the published schema, right or wrong in what the schema does not
say, every outcome whose numbers are `uint64`, and ids that are not Null; numbers of requests, runs, schedules and
pages, and the width of a column, are free.

`RequestPathProofs` takes `Schedules` with its variables, the one called `saved` there as `written`: a task is the same
in both modules, but what `Schedules` counts `RequestPath` names.

*The inductive invariants.* None of the properties is inductive alone; what had to be added says why each holds.
TLC checked the invariants on the instances of the runs before they were proved.

- Rows: a process may overwrite a good row with a bad copy, so `IInv` of `RunPipelineProofs` adds
  `CopiesCoherent`: every copy that may still be written is as coherent as a row, and the position of its worker
  tells its status. `RowWrites` says who writes rows, `TakingHold` who takes hold of a run.
- Once: that no comparison is recorded twice rests on the queue and on `Start` together. `Leased` and `LiveOwns`
  say that at most one living worker holds the task of a run; `Once` says that a row that may still be started was
  not executed, and how far the one execution is. For the refinement, `Private` says that the copy of an
  executing worker is one method call ahead of the row, so that each save is a step of `RunLifecycle`.
- Budget: `BucketCoversSpending` says that a bucket with its stray refunds covers what was spent from it;
  `UnitsAccountedFor` counts, for every source and window, the goroutines that hold a unit (`Out`), so that what
  leaks can be told from what is still on its way.
- Fires: `Balanced` ties the runs a fire has saved and started to its retries and to the state of its task: the
  current attempt has saved one run once it is past the save and started none before it is past the enqueue, and every
  earlier attempt has cost one retry.
- Comparison: `Reducing` is the invariant of the double loop over pairs (none of those judged discarded, `allOK`
  tells whether all were ok), `Visiting` that of the loop over clusters (`best` is the best of those visited). The
  rest are facts about data: the entries hold every source once (by counting places), the unsigned window with
  its two guards is the integer window for every modulus (`WindowIsExact`), the numeric test at the extremes
  bounds it within (`WithinBetween`), and finite sets of integers have extremes (`Extremes`: a smallest
  counterexample leads to a smaller one).
- Replay: what is inserted depends on what the request has heard, so `Requests` carries from `Load` to the
  insert that a request speaks of participants of its record only; `witness` keeps the answers a record was resolved
  on, so that they can be compared with one another. Secrets need `SecretsPaired`: also the rows
  that updates hold in memory have ciphertext and nonce of one encryption.
- Fetches: `Metered` conserves tokens over the current and the last tick, the request about to be sent included;
  `Waiting` says that the backoff covers the seconds the upstream asked for; `Underway` that all earlier calls of the
  fetch were answered.
- Incidents: `Observations`, `Evaluations` and `Windows` say that what an evaluation holds was stored before and
  still is, although more observations arrive; `TruncateKeeps` that cutting the evidence keeps the breach
  visible. `Sequenced` adds that the time an evaluation acts with is later than every incident it has seen.

- Passes: `IInv` of `ExecutePassesProofs` says for every position of the control what the passes behind it have
  visited (`Covered`) and that nothing else was (`Justified`), that no subject comes up twice (`Once`), and that a
  disagreement that was heard is saved or still to be compared (`Noted`). Under it are the facts about data: `Ascending`
  lists every element of a finite set once, the subjects of a pass are those `Due`, those of different passes
  differ. `SInv` is the invariant of the sampling loops: up to the last block the cursor and the blocks so far are
  those of plain integers (`Progress`), so that the wrap can only be reached by the loops the property
  excepts.
- Requests: `Way` of `RequestPathProofs` follows a request through its forms. `Stored` says that every row is the
  image of the run last saved, which is what was asked for; `Dispatched` that a payload names a pending run nobody
  has loaded; `Owned` that each call and each task has a run of its own, sent exactly when the answer says so; `Recurs`
  that each schedule and each payload is the image of the request of some call; `Recorded` the same for
  discrepancies. From there a chain of lemmas, one per mapper, shows that reading undoes writing but for the cut of
  times (`InColumns`; cutting twice is cutting once), and one per DTO
  (`BodiesMap`) that what passes the checks at the door is within what the later checks accept.
- Pages: `Paging` adds that the unseen runs before the reader's offset are no more than were swept. A row that
  enters only moves others back (`EntryPasses`); deleting k rows brings at most k before the offset, since rows
  without ties have different ranks (`SweepPasses`); and a page holds exactly the next ranks (`PagePasses`). That new runs
  carry the latest stamp turned out not to matter.

*What the proofs found.* `AtOnce` of `Sampling` was a `CASE` whose guards overlapped, on which TLC takes the first
and the prover may take any; it is now the chain of early returns that the code has. The error results of the mappers
had been a value of no type beside the results; as pairs `FOk`, `F` they can be reasoned about. Both changes leave the
state space of the runs as it was.

*Only model-checked.* Everything that needs fairness (`TasksSettle`, `SubmittedRunsFinish`, `FanOutsJoin`,
`FiresSettle`, `CancelledStopsFiring`, `SchedulesArePickedUp`, `IncidentsFollowMetric`, `ExecutionEnds`,
`FetchesReturn`), which the prover does not handle. `TerminalIsFinal` is violated, as the run shows.

## 6. Not modelled

- The values that adapters decode: only whether there is a usable one is kept.
- Schema validation of requests (huma), routing, middleware, health checks and the read-only routes other than
  `GET /runs`: they keep no state, and what they read is in the modules of the tables.
- The cipher itself and `net/http`: libraries, used through what their callers rely on.
- `internal/source/fake` and `internal/application/testsupport`: doubles for tests, no part of the program.
- `internal/config` and the wiring of the commands: values read once at start; which processes exist and which
  ports are filled is an assumption of the modules, stated with each.
- Logging and the dashboard: no protocol state; the dashboard only calls the HTTP API.
- The values of address and token plans other than known ones: samplers are ports without an implementation in the
  repository, so a plan yields any of its sets.
