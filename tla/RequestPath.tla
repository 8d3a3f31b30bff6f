----------------------------- MODULE RequestPath -----------------------------
(***************************************************************************)
(* A verification request on its way from the HTTP call to the worker that *)
(* executes it, and back to the reader of its results.                     *)
(*                                                                         *)
(*  POST /runs, POST /schedules -> ScheduleRun -> row of runs or schedules *)
(*  -> task payload -> worker -> row with its summary, discrepancy         *)
(*  -> GET /runs, page by page.                                            *)
(*                                                                         *)
(* What the other modules treat as an identifier is here the data itself:  *)
(* at every arrow it is written in one form and read in another            *)
(* (RowCodec).  When schedules fire, how tasks are retried and what an     *)
(* execution does are the subjects of Schedules, RunPipeline and           *)
(* ExecutePasses, and only outlined here.                                  *)
(***************************************************************************)
EXTENDS RowCodec, FiniteSets, SequencesExt

CONSTANTS
    Requests,   \* Requests[c]: bodies the call may send, within the published schema
    Outcomes,   \* what an execution may record
    Calls,      \* bound: HTTP calls
    RunIds,     \* bound: NewRunID never repeats one
    Jobs,       \* bound: newJobID never repeats one
    Strides,    \* how far the clock may get from one step to the next
    MaxTime,    \* bound on the clock
    PageSize,   \* the limit a reader asks for
    Faults      \* TRUE: the database, Redis and the server may fail

\* The data, as the published schema and the column types have it.
CronExprs == [fields : Nat, clean : BOOLEAN, padded : BOOLEAN]
Uint64 == 0..(2 * MaxInt64 + 1)
OrNull(S) == S \cup {Null}
Part(kind, Bodies) == [kind : {kind}, body : OrNull(Bodies)]

SamplingParts ==
    Part("fixed_list", [numbers : Seq(Nat)]) \cup Part("latest_n", [n : Nat])
    \cup Part("random", [start : Nat, end : Nat, count : Nat, seed : Int])
    \cup Part("sparse_steps", [start : Nat, end : Nat, step : Nat])
AddressPlanParts ==
    Part("known", [addresses : Seq(AddressText)]) \cup Part("top_n", [n : Nat])
    \cup Part("random", [count : Nat, seed : Int])
    \cup Part("recently_active", [recent_blocks : Nat, count : Nat, seed : Int])
TokenPlanParts == Part("known_tokens", [tokens : Seq(AddressText)])
Triggers ==
    [kind : {"manual"}, user : STRING] \cup [kind : {"scheduled"}, cron : CronExprs]
    \cup [kind : {"realtime"}, block : Nat]

RequestOK(req) ==
    /\ req \in [route : {"runs", "schedules"}, chain : Nat \ {0}, metrics : Seq(STRING),
               sampling : SamplingParts, trigger : OrNull(Triggers),
               schedule : OrNull([cron : CronExprs, timezone : STRING]),
               addressPlans : Seq(AddressPlanParts), tokenPlans : Seq(TokenPlanParts)]
    /\ req.metrics # <<>>
    /\ req.route = "runs" => req.trigger # Null

Subjects == [kind : STRING, block : OrNull(Uint64), address : OrNull(STRING),
             token : OrNull(STRING), name : STRING]
Values == [raw : STRING, fetchedAt : Nat, reflected : OrNull(Uint64)]

OutcomeOK(o) ==
    /\ o.summary \in [anchor : OrNull(Uint64), subjects : Seq(Subjects),
                     sources : Seq(STRING), count : Nat]
    /\ o.diff \in [run : {Null}, metric : {Metrics[k] : k \in DOMAIN Metrics},
                  block : Uint64, subject : [type : STRING, address : OrNull(STRING)],
                  values : {o.diff.values}, detectedAt : Nat]
    /\ o.diff.values \in [DOMAIN o.diff.values -> Values]
    /\ o.judgement \in [severity : STRING, trusted : Seq(STRING)]
    /\ o.meta \in [tier : Nat, anchor : Uint64, seed : OrNull(Int)]

ASSUME RequestPathAssumption ==
    /\ MaxTime \in Nat /\ Strides \subseteq Nat /\ PageSize \in Nat \ {0} /\ Faults \in BOOLEAN
    /\ Null \notin RunIds \cup Jobs
    /\ \A c \in Calls : \A req \in Requests[c] : RequestOK(req)
    /\ \A o \in Outcomes : OutcomeOK(o)

VARIABLES
    now,       \* the clock runs are stamped with
    calls,     \* calls[c]: the call and how far the server is with it
    runs,      \* the rows of runs, by id
    schedules, \* the rows of schedules, by id
    diffs,     \* the rows of discrepancies
    fires,     \* the scheduled_run tasks: payload and the run saved for it
    queue,     \* the execute_run payloads
    working,   \* the runs workers have loaded
    reader,    \* a client paging through GET /runs
    cause,     \* history: the request each run was made for
    saved      \* history: the run last saved under each id

vars == <<now, calls, runs, schedules, diffs, fires, queue, working, reader, cause, saved>>

Idle == [phase |-> "idle", req |-> Null, input |-> Null, run |-> Null, job |-> Null, code |-> 0]
NotReading == [phase |-> "idle", offset |-> 0, base |-> {}, seen |-> {}, swept |-> 0, tied |-> FALSE]

Present == DOMAIN runs
Fresh == RunIds \ DOMAIN cause
NoEntry == [x \in {} |-> Null]
Put(f, x, v) == [y \in DOMAIN f \cup {x} |-> IF y = x THEN v ELSE f[y]]

Init ==
    /\ now = 0
    /\ calls = [c \in Calls |-> Idle]
    /\ runs = NoEntry
    /\ schedules = NoEntry
    /\ diffs = {}
    /\ fires = {}
    /\ queue = {}
    /\ working = NoEntry
    /\ reader = NotReading
    /\ cause = NoEntry
    /\ saved = NoEntry
-----------------------------------------------------------------------------
(* The request as the use case sees it (package dto).                      *)

\* The body is that of the kind, Null when it is missing; others are ignored.
SamplingToDomainOk(s) ==
    /\ s.body # Null
    /\ s.kind \in {"random", "sparse_steps"} => NewBlockRangeOk(s.body.start, s.body.end)

SamplingToDomain(s) ==
    CASE s.kind = "fixed_list" -> [kind |-> s.kind, numbers |-> s.body.numbers]
      [] s.kind = "latest_n"   -> [kind |-> s.kind, n |-> s.body.n]
      [] s.kind = "random" ->
           [kind |-> s.kind, range |-> NewBlockRange(s.body.start, s.body.end),
            count |-> s.body.count, seed |-> s.body.seed]
      [] s.kind = "sparse_steps" ->
           [kind |-> s.kind, range |-> NewBlockRange(s.body.start, s.body.end),
            step |-> s.body.step]

\* The trigger keeps the cron expression as it was sent.
TriggerToDomain(t) ==
    CASE t.kind = "manual"    -> [kind |-> t.kind, user |-> t.user]
      [] t.kind = "scheduled" -> [kind |-> t.kind, cronExpr |-> t.cron]
      [] t.kind = "realtime"  -> [kind |-> t.kind, block |-> t.block]

Given(s) == s # Null /\ s.cron # EmptyCron
ScheduleToDomainOk(s) == Given(s) => NewScheduleOk(s.cron, s.timezone)
ScheduleToDomain(s) == IF Given(s) THEN NewSchedule(s.cron, s.timezone) ELSE NoSchedule

\* With its addresses parsed, a plan's body has the fields of the plan.
AddressPlanToDomainOk(p) ==
    p.body # Null /\ (p.kind = "known" => addressesFromOk(p.body.addresses))
AddressPlanToDomain(p) ==
    CASE p.kind = "known"  -> [kind |-> p.kind, addresses |-> addressesFrom(p.body.addresses)]
      [] p.kind = "top_n"  -> [kind |-> p.kind, n |-> p.body.n]
      [] p.kind = "random" -> [kind |-> p.kind, count |-> p.body.count, seed |-> p.body.seed]
      [] p.kind = "recently_active" ->
           [kind |-> p.kind, recent_blocks |-> p.body.recent_blocks,
            count |-> p.body.count, seed |-> p.body.seed]

TokenPlanToDomainOk(p) == p.body # Null /\ addressesFromOk(p.body.tokens)
TokenPlanToDomain(p) == [kind |-> p.kind, tokens |-> addressesFrom(p.body.tokens)]

ResolveAddressPlans(ps) == [i \in DOMAIN ps |-> AddressPlanToDomain(ps[i])]
ResolveTokenPlans(ps) == [i \in DOMAIN ps |-> TokenPlanToDomain(ps[i])]

\* What both routes make of a body, unless a part of it has an error.
InputOk(req) ==
    /\ SamplingToDomainOk(req.sampling) /\ ScheduleToDomainOk(req.schedule)
    /\ metricsFromOk(req.metrics)
    /\ \A i \in DOMAIN req.addressPlans : AddressPlanToDomainOk(req.addressPlans[i])
    /\ \A i \in DOMAIN req.tokenPlans : TokenPlanToDomainOk(req.tokenPlans[i])

InputOf(req, trigger) ==
    [chain |-> req.chain, strategy |-> SamplingToDomain(req.sampling), trigger |-> trigger,
     schedule |-> ScheduleToDomain(req.schedule), metrics |-> metricsFrom(req.metrics),
     addressPlans |-> ResolveAddressPlans(req.addressPlans),
     tokenPlans |-> ResolveTokenPlans(req.tokenPlans)]

ToUseCase(req) == InputOf(req, TriggerToDomain(req.trigger))

\* POST /schedules requires a schedule and makes the trigger from it.
scheduleRequestToUseCaseOk(req) == InputOk(req) /\ Given(req.schedule)
scheduleRequestToUseCase(req) ==
    InputOf(req, [kind |-> "scheduled", cronExpr |-> ScheduleToDomain(req.schedule).cron])

MappedOk(req) == IF req.route = "runs" THEN InputOk(req) ELSE scheduleRequestToUseCaseOk(req)
Mapped(req) == IF req.route = "runs" THEN ToUseCase(req) ELSE scheduleRequestToUseCase(req)
-----------------------------------------------------------------------------
(* ScheduleRun.Execute, one step per call to the database or to Redis.     *)

\* A scheduled trigger needs a schedule: ScheduleRecurring refuses without one.
Paired(in) == in.trigger.kind = "scheduled" => in.schedule # NoSchedule

\* Mutant of PairOk: the check is left to ScheduleRecurring.
PairUnchecked(in) == TRUE

\* Execute asks for it before anything is saved.
PairOk(in) == Paired(in)

\* The route maps the body.  A mapping error is 400; the error of PairOk is none
\* that MapError knows, so it is 500.
Post(c, req) ==
    LET call == [Idle EXCEPT !.req = req]
    IN  /\ calls[c] = Idle
        /\ calls' = [calls EXCEPT ![c] =
              IF ~MappedOk(req) THEN [call EXCEPT !.phase = "answered", !.code = 400]
              ELSE IF ~PairOk(Mapped(req)) THEN [call EXCEPT !.phase = "answered", !.code = 500]
              ELSE [call EXCEPT !.phase = "mapped", !.input = Mapped(req)]]
        /\ UNCHANGED <<now, runs, schedules, diffs, fires, queue, working, reader, cause, saved>>

\* The new run of an input: NewRun, then the token plans.
NewRunOf(r, in) ==
    NewRun(r, in.chain, in.strategy, in.metrics, in.trigger, now, in.addressPlans)
RunOfOk(r, in) ==
    /\ NewRunOk(in.chain, in.metrics)
    /\ in.tokenPlans # <<>> => SetTokenPlansOk(NewRunOf(r, in))

\* Mutant of RunOf: SetTokenPlans is not called.
RunOfNoTokens(r, in) == NewRunOf(r, in)

RunOf(r, in) ==
    IF in.tokenPlans = <<>> THEN NewRunOf(r, in)
    ELSE SetTokenPlans(NewRunOf(r, in), in.tokenPlans)

\* A BIGINT column has no room for the upper half of uint64.
Storable(chain) == chain <= MaxInt64

\* The id is free: FindByID finds nothing, and Save inserts the run.
SaveRun(c, r) ==
    LET run == RunOf(r, calls[c].input)
    IN  /\ calls[c].phase = "mapped"
        /\ r \in Fresh
        /\ RunOfOk(r, calls[c].input) /\ Storable(run.chain)
        /\ runs' = Put(runs, r, toRunModel(run))
        /\ saved' = Put(saved, r, run)
        /\ cause' = Put(cause, r, calls[c].req)
        /\ calls' = [calls EXCEPT ![c].phase = "saved", ![c].run = r]
        /\ UNCHANGED <<now, schedules, diffs, fires, queue, working, reader>>

\* The lookup or the insert fails.
SaveRunFails(c) ==
    /\ calls[c].phase = "mapped"
    /\ Faults \/ ~Storable(calls[c].input.chain)
    /\ calls' = [calls EXCEPT ![c].phase = "answered", ![c].code = 500]
    /\ UNCHANGED <<now, runs, schedules, diffs, fires, queue, working, reader, cause, saved>>

Answer(c, code) == calls' = [calls EXCEPT ![c].phase = "answered", ![c].code = code]

DispatchManual(c) ==
    /\ calls[c].phase = "saved" /\ calls[c].input.trigger.kind = "manual"
    /\ queue' = queue \cup {ExecuteRunPayload(calls[c].run)}
    /\ Answer(c, 201)
    /\ UNCHANGED <<now, runs, schedules, diffs, fires, working, reader, cause, saved>>

ScheduleOf(j, in) ==
    [jobID |-> j, chain |-> in.chain, schedule |-> in.schedule, strategy |-> in.strategy,
     metrics |-> in.metrics, addressPlans |-> in.addressPlans, tokenPlans |-> in.tokenPlans,
     createdAt |-> now, active |-> TRUE]

\* The run that was saved is never enqueued; the fires make runs of their own.
DispatchScheduled(c, j) ==
    /\ calls[c].phase = "saved" /\ calls[c].input.trigger.kind = "scheduled"
    /\ calls[c].input.schedule # NoSchedule
    /\ j \notin DOMAIN schedules
    /\ schedules' = Put(schedules, j, toScheduleModel(ScheduleOf(j, calls[c].input)))
    /\ calls' = [calls EXCEPT ![c].phase = "answered", ![c].code = 201, ![c].job = j]
    /\ UNCHANGED <<now, runs, diffs, fires, queue, working, reader, cause, saved>>

DispatchRealtime(c) ==
    /\ calls[c].phase = "saved" /\ calls[c].input.trigger.kind = "realtime"
    /\ Answer(c, 201)
    /\ UNCHANGED <<now, runs, schedules, diffs, fires, queue, working, reader, cause, saved>>

\* The enqueue or the insert fails: the run stays behind.
DispatchFails(c) ==
    /\ calls[c].phase = "saved" /\ calls[c].input.trigger.kind # "realtime"
    /\ Faults \/ ~Paired(calls[c].input)
    /\ Answer(c, 500)
    /\ UNCHANGED <<now, runs, schedules, diffs, fires, queue, working, reader, cause, saved>>

\* The server stops in the middle of a call, which is never answered.
ServerDies(c) ==
    /\ Faults
    /\ calls[c].phase \in {"mapped", "saved"}
    /\ calls' = [calls EXCEPT ![c].phase = "lost"]
    /\ UNCHANGED <<now, runs, schedules, diffs, fires, queue, working, reader, cause, saved>>
-----------------------------------------------------------------------------
(* The scheduler and HandleScheduledRun.                                   *)

ActiveJobs == {j \in DOMAIN schedules : schedules[j].active}

\* One row that does not decode fails the whole list.
ListActiveOk == \A j \in ActiveJobs : toScheduleRecordOk(schedules[j])

\* The cron engine has no seconds field; an entry it cannot parse is logged and
\* left out (asynq).
Registrable(cron) == cron.fields = 5

\* The entry of an active schedule enqueues its task.
Fire(j) ==
    LET record == toScheduleRecord(schedules[j])
    IN  /\ j \in ActiveJobs /\ ListActiveOk
        /\ Registrable(record.schedule.cron)
        /\ \A f \in fires : f.job # j
        /\ Fresh # {}
        /\ fires' = fires \cup {[job |-> j, payload |-> buildScheduledRunTask(record), run |-> Null]}
        /\ UNCHANGED <<now, calls, runs, schedules, diffs, queue, working, reader, cause, saved>>

\* The input HandleScheduledRun rebuilds from its payload.
PayloadInputOk(p) ==
    /\ UnmarshalScheduledRunPayloadOk(p)
    /\ unmarshalStrategyOk(Get(p, "strategy_kind", ""), p.strategy_data)
    /\ metricsFromOk(Get(p, "metric_keys", <<>>))
    /\ unmarshalAddressPlansOk(Get(p, "address_plans_data", <<>>))
    /\ unmarshalTokenPlansOk(Get(p, "token_plans_data", <<>>))

PayloadInput(p) ==
    [chain |-> p.chain_id, metrics |-> metricsFrom(Get(p, "metric_keys", <<>>)),
     strategy |-> unmarshalStrategy(Get(p, "strategy_kind", ""), p.strategy_data),
     trigger |-> [kind |-> "scheduled", cronExpr |-> p.cron_expr],
     addressPlans |-> unmarshalAddressPlans(Get(p, "address_plans_data", <<>>)),
     tokenPlans |-> unmarshalTokenPlans(Get(p, "token_plans_data", <<>>))]

\* history: the request a schedule was made for.
CauseOfJob(j) == calls[CHOOSE c \in Calls : calls[c].job = j].req

HandleScheduledRun(f, r) ==
    LET in == PayloadInput(f.payload)
        run == RunOf(r, in)
    IN  /\ f \in fires /\ f.run = Null
        /\ r \in Fresh
        /\ PayloadInputOk(f.payload) /\ RunOfOk(r, in)
        /\ runs' = Put(runs, r, toRunModel(run))
        /\ saved' = Put(saved, r, run)
        /\ cause' = Put(cause, r, CauseOfJob(f.job))
        /\ fires' = (fires \ {f}) \cup {[f EXCEPT !.run = r]}
        /\ UNCHANGED <<now, calls, schedules, diffs, queue, working, reader>>

EnqueueScheduledRun(f) ==
    /\ f \in fires /\ f.run # Null
    /\ queue' = queue \cup {ExecuteRunPayload(f.run)}
    /\ fires' = fires \ {f}
    /\ UNCHANGED <<now, calls, runs, schedules, diffs, working, reader, cause, saved>>

\* The enqueue fails, or it took effect and its answer or the acknowledgement of
\* the task is lost; the task is tried again from the start, or archived.
EnqueueScheduledRunFails(f) ==
    /\ Faults
    /\ f \in fires /\ f.run # Null
    /\ queue' \in {queue, queue \cup {ExecuteRunPayload(f.run)}}
    /\ \E again \in {{}, {[f EXCEPT !.run = Null]}} : fires' = (fires \ {f}) \cup again
    /\ UNCHANGED <<now, calls, runs, schedules, diffs, working, reader, cause, saved>>

\* DELETE /schedules/{id}
CancelSchedule(j) ==
    /\ j \in ActiveJobs
    /\ schedules' = [schedules EXCEPT ![j].active = FALSE]
    /\ UNCHANGED <<now, calls, runs, diffs, fires, queue, working, reader, cause, saved>>
-----------------------------------------------------------------------------
(* The worker and the retention sweep.                                     *)

\* HandleExecuteRun: the payload is the id, everything else comes from the row.
\* A row that does not decode is never executed.
Load(p) ==
    /\ p \in queue
    /\ queue' = queue \ {p}
    /\ working' = IF toRunOk(runs[p.run_id]) THEN Put(working, p.run_id, toRun(runs[p.run_id]))
                  ELSE working
    /\ UNCHANGED <<now, calls, runs, schedules, diffs, fires, reader, cause, saved>>

\* The execution records its summary, and a discrepancy if it found one.
Finish(r, o) ==
    LET run == [working[r] EXCEPT !.status = "completed", !.startedAt = now,
                                  !.finishedAt = now, !.summary = o.summary]
        d == [o.diff EXCEPT !.run = r]
    IN  /\ r \in DOMAIN working /\ saved[r].status = "pending"
        /\ runs' = [runs EXCEPT ![r] = toRunModel(run)]
        /\ saved' = [saved EXCEPT ![r] = run]
        /\ diffs' = diffs \cup {[of |-> <<r, o>>, row |-> toDiffModel(d, o.judgement, o.meta)]}
        /\ UNCHANGED <<now, calls, schedules, fires, queue, working, reader, cause>>

\* The sweep deletes what finished before the cutoff, discrepancies included.
Sweep ==
    LET old == {r \in Present : runs[r].finished_at # Null /\ runs[r].finished_at < Timestamptz(now)}
    IN  /\ old # {}
        /\ runs' = Restrict(runs, Present \ old)
        /\ diffs' = {d \in diffs : d.row.run_id \notin old}
        /\ reader' = [reader EXCEPT !.swept = IF reader.phase = "reading" THEN @ + Cardinality(old) ELSE @]
        /\ UNCHANGED <<now, calls, schedules, fires, queue, working, cause, saved>>
-----------------------------------------------------------------------------
(* GET /runs, one page after another.                                      *)

Newer(r, s) == runs[r].created_at >= runs[s].created_at
Ties == \E r, s \in Present : r # s /\ runs[r].created_at = runs[s].created_at

\* Mutant of Listings: the query has no ORDER BY.
ListingsUnordered == SetToSeqs(Present)

\* ORDER BY created_at DESC leaves the order of equal stamps open.
Listings == {s \in SetToSeqs(Present) : \A i, j \in DOMAIN s : i < j => Newer(s[i], s[j])}

StartReading ==
    /\ reader = NotReading /\ Present # {}
    /\ reader' = [NotReading EXCEPT !.phase = "reading", !.base = Present]
    /\ UNCHANGED <<now, calls, runs, schedules, diffs, fires, queue, working, cause, saved>>

\* The reader goes on until a page is not full.
ReadPage ==
    /\ reader.phase = "reading"
    /\ \E list \in Listings :
         LET page == SubSeq(list, reader.offset + 1, Min({reader.offset + PageSize, Len(list)}))
         IN  /\ \A r \in ToSet(page) : toRunOk(runs[r])
             /\ reader' = [reader EXCEPT !.offset = @ + Len(page),
                                         !.seen = @ \cup ToSet(page),
                                         !.tied = @ \/ Ties,
                                         !.phase = IF Len(page) < PageSize THEN "done" ELSE @]
    /\ UNCHANGED <<now, calls, runs, schedules, diffs, fires, queue, working, cause, saved>>

\* What GET /runs/{id} shows of a run.
ToRunView(r) ==
    [chain_id |-> r.chain, status |-> r.status, strategy_kind |-> r.strategy.kind,
     metrics |-> metricKeys(r.metrics), trigger_kind |-> r.trigger.kind,
     address_plan_kinds |-> [i \in DOMAIN r.addressPlans |-> r.addressPlans[i].kind],
     token_plan_kinds |-> [i \in DOMAIN r.tokenPlans |-> r.tokenPlans[i].kind],
     summary |-> IF r.summary = NoSummary THEN Null ELSE r.summary]

Tick ==
    /\ \E stride \in Strides : now + stride <= MaxTime /\ now' = now + stride
    /\ UNCHANGED <<calls, runs, schedules, diffs, fires, queue, working, reader, cause, saved>>
-----------------------------------------------------------------------------
Server(c) ==
    \/ \E req \in Requests[c] : Post(c, req)
    \/ \E r \in RunIds : SaveRun(c, r)
    \/ \E j \in Jobs : DispatchScheduled(c, j)
    \/ SaveRunFails(c) \/ DispatchManual(c) \/ DispatchRealtime(c)
    \/ DispatchFails(c) \/ ServerDies(c)

Next ==
    \/ \E c \in Calls : Server(c)
    \/ \E j \in Jobs : Fire(j) \/ CancelSchedule(j)
    \/ \E f \in fires, r \in RunIds : HandleScheduledRun(f, r)
    \/ \E f \in fires : EnqueueScheduledRun(f) \/ EnqueueScheduledRunFails(f)
    \/ \E p \in queue : Load(p)
    \/ \E r \in RunIds, o \in Outcomes : Finish(r, o)
    \/ Sweep \/ StartReading \/ ReadPage \/ Tick

Spec == Init /\ [][Next]_vars
-----------------------------------------------------------------------------
(* Properties.                                                             *)

\* What the client asked for, read off the body alone: every field of the
\* sub-struct its kind selects, with addresses for their spellings.
Denotes(body) ==
    [k \in DOMAIN body |->
        IF k \in {"addresses", "tokens"} THEN [i \in DOMAIN body[k] |-> body[k][i].address]
        ELSE body[k]]

Matches(value, asked) ==
    /\ value.kind = asked.kind
    /\ \A k \in DOMAIN asked.body :
         Denotes(asked.body)[k] = IF k \in {"start", "end"} THEN value.range[k] ELSE value[k]

AllMatch(values, asked) ==
    /\ Len(values) = Len(asked)
    /\ \A i \in DOMAIN asked : Matches(values[i], asked[i])

\* A worker executes what the client asked for, whichever way the request took:
\* through the runs table, or through the schedules table, the payload of the
\* fired task and a new row.  Chain, metrics in order, every parameter of the
\* strategy and of every plan survive each change of form, and a fired run
\* carries the cron expression of its schedule without its blanks.
ExecutionMatchesRequest ==
    \A r \in DOMAIN working :
        LET run == working[r]
            req == cause[r]
        IN  /\ run.chain = req.chain /\ metricKeys(run.metrics) = req.metrics
            /\ Matches(run.strategy, req.sampling)
            /\ AllMatch(run.addressPlans, req.addressPlans)
            /\ AllMatch(run.tokenPlans, req.tokenPlans)
            /\ \/ /\ req.route = "runs" /\ req.trigger.kind = "manual"
                  /\ run.trigger = [kind |-> "manual", user |-> req.trigger.user]
               \/ /\ req.schedule # Null
                  /\ run.trigger = [kind |-> "scheduled",
                                    cronExpr |-> [req.schedule.cron EXCEPT !.padded = FALSE]]

\* A run as its row keeps it: the times to the microsecond.
InColumns(run) ==
    [run EXCEPT !.createdAt = Timestamptz(@), !.startedAt = Optional(Timestamptz, @),
                !.finishedAt = Optional(Timestamptz, @)]

\* What every fire of a call's schedule is to rebuild.
InputOfFires(in) ==
    [chain |-> in.chain, metrics |-> in.metrics, strategy |-> in.strategy,
     trigger |-> [kind |-> "scheduled", cronExpr |-> in.schedule.cron],
     addressPlans |-> in.addressPlans, tokenPlans |-> in.tokenPlans]

\* Nothing that passed the checks at the door is refused by a later one.  Every
\* row decodes, and to what was saved but for the part of its times below a
\* microsecond: a run and a discrepancy field by field, a schedule to the job,
\* expression, timezone, chain, strategy, metrics and plans of the call that made
\* it (its creation time has no history to compare with).  Every payload rebuilds
\* the same input, with the expression of the schedule for its trigger.  A run
\* that did not would fail the page of GET /runs it is on, a schedule every poll
\* of every scheduler (RunRepo.List, ScheduleRepo.ListActive).
StoredRowsReadBack ==
    /\ \A r \in Present : toRunOk(runs[r]) /\ toRun(runs[r]) = InColumns(saved[r])
    /\ \A j \in DOMAIN schedules : \E c \in Calls :
         LET row == schedules[j]
             in == calls[c].input
         IN  /\ calls[c].job = j
             /\ toScheduleRecordOk(row)
             /\ toScheduleRecord(row) =
                  [ScheduleOf(j, in) EXCEPT !.createdAt = row.created_at, !.active = row.active]
             /\ \A f \in fires : f.job = j =>
                  PayloadInputOk(f.payload) /\ PayloadInput(f.payload) = InputOfFires(in)
    /\ \A f \in fires : f.job \in DOMAIN schedules
    /\ \A d \in diffs :
         LET o == d.of[2]
             read == toDiffRecord(d.row)
         IN  /\ toDiffRecordOk(d.row)
             /\ read.discrepancy = [o.diff EXCEPT !.run = d.of[1], !.detectedAt = Timestamptz(@)]
             /\ read.judgement = o.judgement
             /\ read.meta = [o.meta EXCEPT !.tier = IF @ = 0 THEN o.diff.metric.tier ELSE @]

\* A schedule is asked for and none is given.
Unpaired(req) ==
    /\ req.route = "schedules" \/ req.trigger.kind = "scheduled"
    /\ req.schedule = Null \/ req.schedule.cron = EmptyCron

\* The answer tells the truth.  A refused request has left nothing behind
\* ("Pair-validate ... so nothing is persisted on a bad request"), and an
\* accepted one is stored and dispatched as its trigger says.
AnswersTellTheTruth ==
    \A c \in Calls :
        LET call == calls[c] IN
        /\ call.code = 400 \/ (call.phase # "idle" /\ Unpaired(call.req))
              => call.run = Null /\ call.job = Null
        /\ call.code = 201 =>
             /\ call.run \in DOMAIN saved
             /\ LET view == ToRunView(saved[call.run])
                IN  /\ view.strategy_kind = call.req.sampling.kind
                    /\ view.metrics = call.req.metrics
                    /\ view.summary # Null => view.status = "completed"
             /\ call.input.trigger.kind = "manual" <=>
                  \/ ExecuteRunPayload(call.run) \in queue
                  \/ call.run \in DOMAIN working
             /\ call.input.trigger.kind = "scheduled" <=> call.job # Null

\* A reader who pages through GET /runs by offset misses at most one run for
\* each run the sweep deletes meanwhile; runs created meanwhile hide nothing.
\* Equal stamps are excepted, whose order may change from page to page.
PagesMissOnlyForSweeps ==
    (reader.phase = "done" /\ ~reader.tied)
        => Cardinality((reader.base \cap Present) \ reader.seen) <= reader.swept
=============================================================================
