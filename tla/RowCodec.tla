------------------------------ MODULE RowCodec ------------------------------
(***************************************************************************)
(* The textual forms of runs, schedules and discrepancies: the columns of  *)
(* their tables and the payloads of their tasks.                           *)
(*                                                                         *)
(* A JSON object is a record of the keys that were written.  Decoding      *)
(* gives a missing key the zero value of its type and ignores keys it does *)
(* not know, as encoding/json does.  A function F that may return an error *)
(* is two operators: FOk says that it returns none, F what it returns then. *)
(***************************************************************************)
EXTENDS Integers, Sequences

CONSTANTS
    Null,       \* a nil pointer, a NULL column
    Metrics,    \* verification.AllMetrics by key
    Zones,      \* the timezones time.LoadLocation finds
    MaxInt64,   \* bound: the largest value of a BIGINT column
    Micro       \* ticks of the clock to a microsecond

ASSUME CodecAssumption ==
    /\ MaxInt64 \in Nat \ {0} /\ Micro \in Nat \ {0}
    /\ \A k \in DOMAIN Metrics : Metrics[k] \in [key : {k}, category : STRING, tier : Nat]
    /\ "UTC" \in Zones /\ Zones \subseteq STRING

\* The text of an address is in one case, mixed with its checksum right, or
\* mixed with it wrong.
AddressText == [address : STRING, spelling : {"lower", "checksum", "typo"}]

\* What a column holds when it is not NULL.
ASSUME NullAssumption == Null \notin Int \cup STRING \cup [hex : Int] \cup AddressText

\* A field of a decoded object.
Get(doc, key, zero) == IF key \in DOMAIN doc THEN doc[key] ELSE zero

\* The object without the keys "omitempty" leaves out.
OmitEmpty(doc) == [k \in {k \in DOMAIN doc : doc[k] # Null} |-> doc[k]]
-----------------------------------------------------------------------------
(* Block numbers and addresses.                                            *)

\* BlockNumber.MarshalJSON writes the hex text of a number.
Hex(n) == [hex |-> n]
ParseHex(text) == text.hex

NewBlockRangeOk(start, end) == start <= end
NewBlockRange(start, end) == [start |-> start, end |-> end]

\* A checksum that is wrong is taken for a typo.
NewAddressOk(text) == text.spelling # "typo"
NewAddress(text) == text.address
AddressHex(a) == [address |-> a, spelling |-> "checksum"]

Optional(f(_), v) == IF v = Null THEN Null ELSE f(v)

\* int64(uint64) and back.
AsInt64(n) == IF n > MaxInt64 THEN n - 2 * (MaxInt64 + 1) ELSE n
AsUint64(n) == IF n < 0 THEN n + 2 * (MaxInt64 + 1) ELSE n
\* A time.Time counts nanoseconds; a TIMESTAMPTZ column, and a parameter that is
\* compared with one, keeps the whole microseconds of it.
Timestamptz(t) == t - (t % Micro)
-----------------------------------------------------------------------------
(* Schedules.                                                              *)

\* A cron expression is its number of fields, whether every character may occur
\* in one, and whether blanks surround it.
EmptyCron == [fields |-> 0, clean |-> TRUE, padded |-> FALSE]
NoSchedule == [cron |-> EmptyCron, timezone |-> Null]

validateCronShape(cron) == cron.fields \in {5, 6} /\ cron.clean

NewScheduleOk(cron, tz) == validateCronShape(cron) /\ tz \in Zones \cup {""}
NewSchedule(cron, tz) ==
    [cron |-> [cron EXCEPT !.padded = FALSE], timezone |-> IF tz = "" THEN "UTC" ELSE tz]
-----------------------------------------------------------------------------
(* Triggers and strategies.                                                *)

marshalTrigger(t) ==
    CASE t.kind = "manual"    -> [user |-> t.user]
      [] t.kind = "scheduled" -> [cron_expr |-> t.cronExpr]
      [] t.kind = "realtime"  -> [block_number |-> Hex(t.block)]

unmarshalTriggerOk(kind) == kind \in {"manual", "scheduled", "realtime"}
unmarshalTrigger(kind, data) ==
    CASE kind = "manual"    -> [kind |-> kind, user |-> Get(data, "user", "")]
      [] kind = "scheduled" -> [kind |-> kind, cronExpr |-> Get(data, "cron_expr", EmptyCron)]
      [] kind = "realtime"  -> [kind |-> kind, block |-> ParseHex(Get(data, "block_number", Hex(0)))]

rangeJSON(r) == [start |-> Hex(r.start), end |-> Hex(r.end)]
rangeFrom(data) ==
    LET r == Get(data, "range", [none |-> 0])
    IN  [start |-> ParseHex(Get(r, "start", Hex(0))), end |-> ParseHex(Get(r, "end", Hex(0)))]

marshalStrategy(s) ==
    CASE s.kind = "fixed_list"   -> [numbers |-> [i \in DOMAIN s.numbers |-> Hex(s.numbers[i])]]
      [] s.kind = "latest_n"     -> [n |-> s.n]
      [] s.kind = "random"       -> [range |-> rangeJSON(s.range), count |-> s.count, seed |-> s.seed]
      [] s.kind = "sparse_steps" -> [range |-> rangeJSON(s.range), step |-> s.step]

unmarshalStrategyOk(kind, data) ==
    /\ kind \in {"fixed_list", "latest_n", "random", "sparse_steps"}
    /\ kind \in {"random", "sparse_steps"} =>
         NewBlockRangeOk(rangeFrom(data).start, rangeFrom(data).end)

unmarshalStrategy(kind, data) ==
    LET range == rangeFrom(data)
        numbers == Get(data, "numbers", <<>>)
    IN  CASE kind = "fixed_list" ->
               [kind |-> kind, numbers |-> [i \in DOMAIN numbers |-> ParseHex(numbers[i])]]
          [] kind = "latest_n" -> [kind |-> kind, n |-> Get(data, "n", 0)]
          [] kind = "random" ->
               [kind |-> kind, range |-> NewBlockRange(range.start, range.end),
                count |-> Get(data, "count", 0), seed |-> Get(data, "seed", 0)]
          [] kind = "sparse_steps" ->
               [kind |-> kind, range |-> NewBlockRange(range.start, range.end),
                step |-> Get(data, "step", 0)]
-----------------------------------------------------------------------------
(* Sampling plans, each in an envelope of its kind.                        *)

addressTexts(as) == [i \in DOMAIN as |-> AddressHex(as[i])]
addressesFromOk(texts) == \A i \in DOMAIN texts : NewAddressOk(texts[i])
addressesFrom(texts) == [i \in DOMAIN texts |-> NewAddress(texts[i])]

marshalAddressPlanData(p) ==
    CASE p.kind = "known"           -> [addresses |-> addressTexts(p.addresses)]
      [] p.kind = "top_n"           -> [n |-> p.n]
      [] p.kind = "random"          -> [count |-> p.count, seed |-> p.seed]
      [] p.kind = "recently_active" ->
           [recent_blocks |-> p.recent_blocks, count |-> p.count, seed |-> p.seed]

marshalTokenPlanData(p) == [tokens |-> addressTexts(p.tokens)]

marshalAddressPlans(plans) ==
    [i \in DOMAIN plans |-> [kind |-> plans[i].kind, data |-> marshalAddressPlanData(plans[i])]]
marshalTokenPlans(plans) ==
    [i \in DOMAIN plans |-> [kind |-> plans[i].kind, data |-> marshalTokenPlanData(plans[i])]]

unmarshalAddressPlanOk(kind, data) ==
    /\ kind \in {"known", "top_n", "random", "recently_active"}
    /\ kind = "known" => addressesFromOk(Get(data, "addresses", <<>>))

unmarshalAddressPlan(kind, data) ==
    CASE kind = "known"  -> [kind |-> kind, addresses |-> addressesFrom(Get(data, "addresses", <<>>))]
      [] kind = "top_n"  -> [kind |-> kind, n |-> Get(data, "n", 0)]
      [] kind = "random" -> [kind |-> kind, count |-> Get(data, "count", 0), seed |-> Get(data, "seed", 0)]
      [] kind = "recently_active" ->
           [kind |-> kind, recent_blocks |-> Get(data, "recent_blocks", 0),
            count |-> Get(data, "count", 0), seed |-> Get(data, "seed", 0)]

unmarshalTokenPlanOk(kind, data) ==
    kind = "known_tokens" /\ addressesFromOk(Get(data, "tokens", <<>>))
unmarshalTokenPlan(kind, data) ==
    [kind |-> kind, tokens |-> addressesFrom(Get(data, "tokens", <<>>))]

\* NULL, "null" and "[]" are all read as no plan: <<>>.
unmarshalAddressPlansOk(data) ==
    \A i \in DOMAIN data : unmarshalAddressPlanOk(data[i].kind, data[i].data)
unmarshalAddressPlans(data) ==
    [i \in DOMAIN data |-> unmarshalAddressPlan(data[i].kind, data[i].data)]
unmarshalTokenPlansOk(data) ==
    \A i \in DOMAIN data : unmarshalTokenPlanOk(data[i].kind, data[i].data)
unmarshalTokenPlans(data) ==
    [i \in DOMAIN data |-> unmarshalTokenPlan(data[i].kind, data[i].data)]
-----------------------------------------------------------------------------
(* Metrics, subjects and the values of a discrepancy.                      *)

MetricByKeyOk(key) == key \in DOMAIN Metrics
MetricByKey(key) == Metrics[key]
metricKeys(ms) == [i \in DOMAIN ms |-> ms[i].key]
metricsFromOk(keys) == \A i \in DOMAIN keys : MetricByKeyOk(keys[i])
metricsFrom(keys) == [i \in DOMAIN keys |-> MetricByKey(keys[i])]

marshalSubjects(subjects) ==
    [i \in DOMAIN subjects |->
        OmitEmpty([k |-> subjects[i].kind,
                   b |-> Optional(Hex, subjects[i].block),
                   a |-> Optional(AddressHex, subjects[i].address),
                   t |-> Optional(AddressHex, subjects[i].token),
                   n |-> IF subjects[i].name = "" THEN Null ELSE subjects[i].name])]

subjectFromOk(doc) ==
    \A text \in {Get(doc, "a", Null), Get(doc, "t", Null)} : text # Null => NewAddressOk(text)
subjectFrom(doc) ==
    [kind |-> doc.k, block |-> Optional(ParseHex, Get(doc, "b", Null)),
     address |-> Optional(NewAddress, Get(doc, "a", Null)),
     token |-> Optional(NewAddress, Get(doc, "t", Null)), name |-> Get(doc, "n", "")]

unmarshalSubjectsOk(data) == \A i \in DOMAIN data : subjectFromOk(data[i])
unmarshalSubjects(data) == [i \in DOMAIN data |-> subjectFrom(data[i])]

marshalValues(values) ==
    [s \in DOMAIN values |->
        OmitEmpty([raw |-> values[s].raw, fetched_at |-> values[s].fetchedAt,
                   reflected_block |-> Optional(Hex, values[s].reflected)])]

unmarshalValues(data) ==
    [s \in DOMAIN data |->
        [raw |-> Get(data[s], "raw", ""), fetchedAt |-> Get(data[s], "fetched_at", 0),
         reflected |-> Optional(ParseHex, Get(data[s], "reflected_block", Null))]]
-----------------------------------------------------------------------------
(* The runs table.                                                         *)

NoSummary == [anchor |-> Null, subjects |-> <<>>, sources |-> <<>>, count |-> 0]

NewRunOk(chain, metrics) == chain # 0 /\ metrics # <<>>
NewRun(id, chain, strategy, metrics, trigger, now, addressPlans) ==
    [id |-> id, chain |-> chain, strategy |-> strategy, metrics |-> metrics,
     trigger |-> trigger, status |-> "pending", createdAt |-> now,
     startedAt |-> Null, finishedAt |-> Null, errorMsg |-> "",
     addressPlans |-> addressPlans, tokenPlans |-> <<>>, summary |-> NoSummary]

\* Only a pending run takes them.
SetTokenPlansOk(run) == run.status = "pending"
SetTokenPlans(run, plans) == [run EXCEPT !.tokenPlans = plans]

toRunModel(r) ==
    [id |-> r.id, chain_id |-> r.chain, status |-> r.status,
     trigger_type |-> r.trigger.kind, trigger_data |-> marshalTrigger(r.trigger),
     strategy_kind |-> r.strategy.kind, strategy_data |-> marshalStrategy(r.strategy),
     address_plans |-> marshalAddressPlans(r.addressPlans),
     token_plans |-> marshalTokenPlans(r.tokenPlans),
     metrics |-> metricKeys(r.metrics), error_msg |-> r.errorMsg,
     created_at |-> Timestamptz(r.createdAt),
     started_at |-> Optional(Timestamptz, r.startedAt),
     finished_at |-> Optional(Timestamptz, r.finishedAt),
     anchor_block |-> Optional(AsInt64, r.summary.anchor),
     subjects |-> marshalSubjects(r.summary.subjects),
     sources_used |-> r.summary.sources, comparisons_count |-> r.summary.count]

\* Rehydrate trusts the status and the timestamps, and refuses what no run lacks.
RehydrateOk(chain, metrics, status) == chain # 0 /\ metrics # <<>> /\ status # ""

toRunOk(m) ==
    /\ unmarshalTriggerOk(m.trigger_type)
    /\ unmarshalStrategyOk(m.strategy_kind, m.strategy_data)
    /\ unmarshalAddressPlansOk(m.address_plans) /\ unmarshalTokenPlansOk(m.token_plans)
    /\ metricsFromOk(m.metrics) /\ unmarshalSubjectsOk(m.subjects)
    /\ RehydrateOk(m.chain_id, m.metrics, m.status)

toRun(m) ==
    [id |-> m.id, chain |-> m.chain_id,
     strategy |-> unmarshalStrategy(m.strategy_kind, m.strategy_data),
     metrics |-> metricsFrom(m.metrics),
     trigger |-> unmarshalTrigger(m.trigger_type, m.trigger_data),
     status |-> m.status, createdAt |-> m.created_at, startedAt |-> m.started_at,
     finishedAt |-> m.finished_at, errorMsg |-> m.error_msg,
     addressPlans |-> unmarshalAddressPlans(m.address_plans),
     tokenPlans |-> unmarshalTokenPlans(m.token_plans),
     summary |-> [anchor |-> Optional(AsUint64, m.anchor_block),
                  subjects |-> unmarshalSubjects(m.subjects),
                  sources |-> m.sources_used, count |-> m.comparisons_count]]
-----------------------------------------------------------------------------
(* The schedules table.                                                    *)

\* Mutant of toScheduleModel: the column keeps its default.
toScheduleModelDefaultZone(s) ==
    [job_id |-> s.jobID, chain_id |-> s.chain, cron_expr |-> s.schedule.cron,
     timezone |-> "UTC",
     strategy_kind |-> s.strategy.kind, strategy_data |-> marshalStrategy(s.strategy),
     address_plans |-> marshalAddressPlans(s.addressPlans),
     token_plans |-> marshalTokenPlans(s.tokenPlans),
     metrics |-> metricKeys(s.metrics), active |-> s.active,
     created_at |-> Timestamptz(s.createdAt)]

toScheduleModel(s) ==
    [job_id |-> s.jobID, chain_id |-> s.chain, cron_expr |-> s.schedule.cron,
     timezone |-> IF s.schedule.timezone = Null THEN "UTC" ELSE s.schedule.timezone,
     strategy_kind |-> s.strategy.kind, strategy_data |-> marshalStrategy(s.strategy),
     address_plans |-> marshalAddressPlans(s.addressPlans),
     token_plans |-> marshalTokenPlans(s.tokenPlans),
     metrics |-> metricKeys(s.metrics), active |-> s.active,
     created_at |-> Timestamptz(s.createdAt)]

toScheduleRecordOk(m) ==
    /\ NewScheduleOk(m.cron_expr, m.timezone)
    /\ unmarshalStrategyOk(m.strategy_kind, m.strategy_data)
    /\ unmarshalAddressPlansOk(m.address_plans) /\ unmarshalTokenPlansOk(m.token_plans)
    /\ metricsFromOk(m.metrics)

toScheduleRecord(m) ==
    [jobID |-> m.job_id, chain |-> m.chain_id, schedule |-> NewSchedule(m.cron_expr, m.timezone),
     strategy |-> unmarshalStrategy(m.strategy_kind, m.strategy_data),
     metrics |-> metricsFrom(m.metrics), addressPlans |-> unmarshalAddressPlans(m.address_plans),
     tokenPlans |-> unmarshalTokenPlans(m.token_plans), createdAt |-> m.created_at,
     active |-> m.active]
-----------------------------------------------------------------------------
(* The discrepancies table.                                                *)

\* A tier the caller does not supply is the one of the metric's capability, and
\* an anchor of zero is stored as NULL.
toDiffModel(d, judgement, meta) ==
    LET tier == IF meta.tier # 0 THEN meta.tier ELSE d.metric.tier
    IN  [run_id |-> d.run, metric_key |-> d.metric.key, metric_category |-> d.metric.category,
         block_number |-> AsInt64(d.block), subject_type |-> d.subject.type,
         subject_addr |-> d.subject.address, values |-> marshalValues(d.values),
         severity |-> judgement.severity, trusted_sources |-> judgement.trusted,
         detected_at |-> Timestamptz(d.detectedAt),
         tier |-> IF tier = 0 THEN Null ELSE tier,
         anchor_block |-> IF meta.anchor = 0 THEN Null ELSE AsInt64(meta.anchor),
         sampling_seed |-> meta.seed]

toDiffRecordOk(m) == MetricByKeyOk(m.metric_key)
toDiffRecord(m) ==
    [discrepancy |-> [run |-> m.run_id, metric |-> MetricByKey(m.metric_key),
                      block |-> AsUint64(m.block_number),
                      subject |-> [type |-> m.subject_type, address |-> m.subject_addr],
                      values |-> unmarshalValues(m.values), detectedAt |-> m.detected_at],
     judgement |-> [severity |-> m.severity, trusted |-> m.trusted_sources],
     meta |-> [tier |-> IF m.tier = Null THEN 0 ELSE m.tier,
               anchor |-> IF m.anchor_block = Null THEN 0 ELSE AsUint64(m.anchor_block),
               seed |-> m.sampling_seed]]
-----------------------------------------------------------------------------
(* The payloads of the tasks.                                              *)

buildScheduledRunTask(r) ==
    [chain_id |-> r.chain, strategy_kind |-> r.strategy.kind,
     strategy_data |-> marshalStrategy(r.strategy), metric_keys |-> metricKeys(r.metrics),
     address_plans_data |-> marshalAddressPlans(r.addressPlans),
     token_plans_data |-> marshalTokenPlans(r.tokenPlans),
     cron_expr |-> r.schedule.cron]

UnmarshalScheduledRunPayloadOk(p) ==
    /\ Get(p, "chain_id", 0) # 0 /\ Get(p, "strategy_kind", "") # ""
    /\ Get(p, "metric_keys", <<>>) # <<>>

ExecuteRunPayload(id) == [run_id |-> id]
=============================================================================
