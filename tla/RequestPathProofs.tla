-------------------------- MODULE RequestPathProofs --------------------------
(***************************************************************************)
(* Proofs about the way of a request, for every body within the schema,    *)
(* every outcome of an execution and any number of calls, runs, schedules  *)
(* and pages.                                                              *)
(***************************************************************************)
EXTENDS RequestPath, SequenceTheorems, FiniteSetTheorems, TLAPS

(* What is stored, as the domain has it. *)

Ranges == {g \in [start : Nat, end : Nat] : g.start <= g.end}

Strategies ==
    [kind : {"fixed_list"}, numbers : Seq(Nat)] \cup [kind : {"latest_n"}, n : Nat]
    \cup [kind : {"random"}, range : Ranges, count : Nat, seed : Int]
    \cup [kind : {"sparse_steps"}, range : Ranges, step : Nat]

AddressPlans ==
    [kind : {"known"}, addresses : Seq(STRING)] \cup [kind : {"top_n"}, n : Nat]
    \cup [kind : {"random"}, count : Nat, seed : Int]
    \cup [kind : {"recently_active"}, recent_blocks : Nat, count : Nat, seed : Int]

TokenPlans == [kind : {"known_tokens"}, tokens : Seq(STRING)]

RunTriggers ==
    [kind : {"manual"}, user : STRING] \cup [kind : {"scheduled"}, cronExpr : CronExprs]
    \cup [kind : {"realtime"}, block : Nat]

KnownMetrics == {Metrics[k] : k \in DOMAIN Metrics}

Summaries == [anchor : OrNull(Uint64), subjects : Seq(Subjects), sources : Seq(STRING), count : Nat]

Runs == [id : RunIds, chain : Nat \ {0}, strategy : Strategies,
         metrics : Seq(KnownMetrics) \ {<<>>}, trigger : RunTriggers,
         status : {"pending", "completed"}, createdAt : Nat,
         startedAt : OrNull(Nat), finishedAt : OrNull(Nat), errorMsg : {""},
         addressPlans : Seq(AddressPlans), tokenPlans : Seq(TokenPlans), summary : Summaries]
-----------------------------------------------------------------------------
(* Every form reads back. *)

\* A sequence is the function of its elements.
LEMMA SeqIsFunction ==
    ASSUME NEW S, NEW s \in Seq(S)
    PROVE  /\ s = [i \in DOMAIN s |-> s[i]]
           /\ \A i \in DOMAIN s : s[i] \in S
           /\ DOMAIN s = 1..Len(s) /\ Len(s) \in Nat
<1>1. s \in [1..Len(s) -> S] /\ Len(s) \in Nat
  BY LenProperties
<1> QED
  BY <1>1

\* A sequence of addresses reads back from its texts.
LEMMA AddressesReadBack ==
    ASSUME NEW as \in Seq(STRING)
    PROVE  /\ addressesFromOk(addressTexts(as))
           /\ addressesFrom(addressTexts(as)) = as
<1>1. as = [i \in DOMAIN as |-> as[i]]
  BY SeqIsFunction
<1>2. DOMAIN addressTexts(as) = DOMAIN as /\ \A i \in DOMAIN as : addressTexts(as)[i] = AddressHex(as[i])
  BY DEF addressTexts
<1>3. \A i \in DOMAIN as : NewAddress(AddressHex(as[i])) = as[i] /\ NewAddressOk(AddressHex(as[i]))
  BY DEF NewAddress, AddressHex, NewAddressOk
<1> QED
  BY <1>1, <1>2, <1>3 DEF addressesFrom, addressesFromOk

\* A strategy reads back from its columns.
LEMMA StrategyReadsBack ==
    ASSUME NEW s \in Strategies
    PROVE  /\ unmarshalStrategyOk(s.kind, marshalStrategy(s))
           /\ unmarshalStrategy(s.kind, marshalStrategy(s)) = s
<1>1. CASE s \in [kind : {"fixed_list"}, numbers : Seq(Nat)]
  <2> DEFINE d == marshalStrategy(s)
  <2>1. s.kind = "fixed_list" /\ s.numbers \in Seq(Nat) /\ s = [kind |-> "fixed_list", numbers |-> s.numbers]
    BY <1>1
  <2>2. d = [numbers |-> [i \in DOMAIN s.numbers |-> Hex(s.numbers[i])]]
    BY <2>1 DEF marshalStrategy
  <2>3. Get(d, "numbers", <<>>) = [i \in DOMAIN s.numbers |-> Hex(s.numbers[i])]
    BY <2>2 DEF Get
  <2>4. s.numbers = [i \in DOMAIN s.numbers |-> s.numbers[i]]
    BY <2>1, SeqIsFunction
  <2>5. [i \in DOMAIN Get(d, "numbers", <<>>) |-> ParseHex(Get(d, "numbers", <<>>)[i])] = s.numbers
    BY <2>3, <2>4 DEF ParseHex, Hex
  <2>6. unmarshalStrategy("fixed_list", d) = [kind |-> "fixed_list", numbers |-> s.numbers]
    BY <2>5 DEF unmarshalStrategy
  <2> QED
    BY <2>1, <2>6 DEF unmarshalStrategyOk
<1>2. CASE s \in [kind : {"latest_n"}, n : Nat]
  <2>1. s.kind = "latest_n" /\ s = [kind |-> "latest_n", n |-> s.n]
    BY <1>2
  <2>2. marshalStrategy(s) = [n |-> s.n]
    BY <2>1 DEF marshalStrategy
  <2>3. Get(marshalStrategy(s), "n", 0) = s.n
    BY <2>2 DEF Get
  <2> QED
    BY <2>1, <2>3 DEF unmarshalStrategyOk, unmarshalStrategy
<1>3. CASE s \in [kind : {"random"}, range : Ranges, count : Nat, seed : Int]
  <2> DEFINE d == marshalStrategy(s)
  <2>1. /\ s.kind = "random" /\ s.range \in Ranges
        /\ s = [kind |-> "random", range |-> s.range, count |-> s.count, seed |-> s.seed]
    BY <1>3
  <2>2. d = [range |-> rangeJSON(s.range), count |-> s.count, seed |-> s.seed]
    BY <2>1 DEF marshalStrategy
  <2>3. /\ Get(d, "range", [none |-> 0]) = rangeJSON(s.range)
        /\ Get(d, "count", 0) = s.count /\ Get(d, "seed", 0) = s.seed
    BY <2>2 DEF Get
  <2>4. rangeFrom(d) = [start |-> s.range.start, end |-> s.range.end]
    BY <2>3 DEF rangeFrom, rangeJSON, Get, Hex, ParseHex
  <2>5. s.range = [start |-> s.range.start, end |-> s.range.end] /\ s.range.start <= s.range.end
    BY <2>1 DEF Ranges
  <2> HIDE DEF d
  <2>6. unmarshalStrategy("random", d) = s
    BY <2>1, <2>3, <2>4, <2>5 DEF unmarshalStrategy, NewBlockRange
  <2>7. unmarshalStrategyOk("random", d)
    BY <2>4, <2>5 DEF unmarshalStrategyOk, NewBlockRangeOk
  <2> QED
    BY <2>1, <2>6, <2>7 DEF d
<1>4. CASE s \in [kind : {"sparse_steps"}, range : Ranges, step : Nat]
  <2> DEFINE d == marshalStrategy(s)
  <2>1. /\ s.kind = "sparse_steps" /\ s.range \in Ranges
        /\ s = [kind |-> "sparse_steps", range |-> s.range, step |-> s.step]
    BY <1>4
  <2>2. d = [range |-> rangeJSON(s.range), step |-> s.step]
    BY <2>1 DEF marshalStrategy
  <2>3. /\ Get(d, "range", [none |-> 0]) = rangeJSON(s.range) /\ Get(d, "step", 0) = s.step
    BY <2>2 DEF Get
  <2>4. rangeFrom(d) = [start |-> s.range.start, end |-> s.range.end]
    BY <2>3 DEF rangeFrom, rangeJSON, Get, Hex, ParseHex
  <2>5. s.range = [start |-> s.range.start, end |-> s.range.end] /\ s.range.start <= s.range.end
    BY <2>1 DEF Ranges
  <2> HIDE DEF d
  <2>6. unmarshalStrategy("sparse_steps", d) = s
    BY <2>1, <2>3, <2>4, <2>5 DEF unmarshalStrategy, NewBlockRange
  <2>7. unmarshalStrategyOk("sparse_steps", d)
    BY <2>4, <2>5 DEF unmarshalStrategyOk, NewBlockRangeOk
  <2> QED
    BY <2>1, <2>6, <2>7 DEF d
<1> QED
  BY <1>1, <1>2, <1>3, <1>4 DEF Strategies

\* An address plan reads back from its envelope.
LEMMA AddressPlanReadsBack ==
    ASSUME NEW p \in AddressPlans
    PROVE  /\ unmarshalAddressPlanOk(p.kind, marshalAddressPlanData(p))
           /\ unmarshalAddressPlan(p.kind, marshalAddressPlanData(p)) = p
<1>1. CASE p \in [kind : {"known"}, addresses : Seq(STRING)]
  <2>1. p.kind = "known" /\ p.addresses \in Seq(STRING) /\ p = [kind |-> "known", addresses |-> p.addresses]
    BY <1>1
  <2>2. marshalAddressPlanData(p) = [addresses |-> addressTexts(p.addresses)]
    BY <2>1 DEF marshalAddressPlanData
  <2>3. Get(marshalAddressPlanData(p), "addresses", <<>>) = addressTexts(p.addresses)
    BY <2>2 DEF Get
  <2>4. /\ addressesFromOk(addressTexts(p.addresses))
        /\ addressesFrom(addressTexts(p.addresses)) = p.addresses
    BY <2>1, AddressesReadBack
  <2> QED
    BY <2>1, <2>3, <2>4 DEF unmarshalAddressPlanOk, unmarshalAddressPlan
<1>2. CASE p \in [kind : {"top_n"}, n : Nat]
  <2>1. p.kind = "top_n" /\ p = [kind |-> "top_n", n |-> p.n]
    BY <1>2
  <2>2. marshalAddressPlanData(p) = [n |-> p.n]
    BY <2>1 DEF marshalAddressPlanData
  <2>3. Get(marshalAddressPlanData(p), "n", 0) = p.n
    BY <2>2 DEF Get
  <2> QED
    BY <2>1, <2>3 DEF unmarshalAddressPlanOk, unmarshalAddressPlan
<1>3. CASE p \in [kind : {"random"}, count : Nat, seed : Int]
  <2>1. p.kind = "random" /\ p = [kind |-> "random", count |-> p.count, seed |-> p.seed]
    BY <1>3
  <2>2. marshalAddressPlanData(p) = [count |-> p.count, seed |-> p.seed]
    BY <2>1 DEF marshalAddressPlanData
  <2>3. /\ Get(marshalAddressPlanData(p), "count", 0) = p.count
        /\ Get(marshalAddressPlanData(p), "seed", 0) = p.seed
    BY <2>2 DEF Get
  <2> QED
    BY <2>1, <2>3 DEF unmarshalAddressPlanOk, unmarshalAddressPlan
<1>4. CASE p \in [kind : {"recently_active"}, recent_blocks : Nat, count : Nat, seed : Int]
  <2>1. /\ p.kind = "recently_active"
        /\ p = [kind |-> "recently_active", recent_blocks |-> p.recent_blocks,
                count |-> p.count, seed |-> p.seed]
    BY <1>4
  <2>2. marshalAddressPlanData(p) = [recent_blocks |-> p.recent_blocks, count |-> p.count, seed |-> p.seed]
    BY <2>1 DEF marshalAddressPlanData
  <2>3. /\ Get(marshalAddressPlanData(p), "recent_blocks", 0) = p.recent_blocks
        /\ Get(marshalAddressPlanData(p), "count", 0) = p.count
        /\ Get(marshalAddressPlanData(p), "seed", 0) = p.seed
    BY <2>2 DEF Get
  <2> QED
    BY <2>1, <2>3 DEF unmarshalAddressPlanOk, unmarshalAddressPlan
<1> QED
  BY <1>1, <1>2, <1>3, <1>4 DEF AddressPlans

\* So does a token plan.
LEMMA TokenPlanReadsBack ==
    ASSUME NEW p \in TokenPlans
    PROVE  /\ unmarshalTokenPlanOk(p.kind, marshalTokenPlanData(p))
           /\ unmarshalTokenPlan(p.kind, marshalTokenPlanData(p)) = p
<1>1. p.kind = "known_tokens" /\ p.tokens \in Seq(STRING) /\ p = [kind |-> "known_tokens", tokens |-> p.tokens]
  BY DEF TokenPlans
<1>2. Get(marshalTokenPlanData(p), "tokens", <<>>) = addressTexts(p.tokens)
  BY DEF Get, marshalTokenPlanData
<1>3. addressesFromOk(addressTexts(p.tokens)) /\ addressesFrom(addressTexts(p.tokens)) = p.tokens
  BY <1>1, AddressesReadBack
<1> QED
  BY <1>1, <1>2, <1>3 DEF unmarshalTokenPlanOk, unmarshalTokenPlan

\* The column of all address plans, and of all token plans.
LEMMA PlansReadBack ==
    /\ \A ps \in Seq(AddressPlans) :
         /\ unmarshalAddressPlansOk(marshalAddressPlans(ps))
         /\ unmarshalAddressPlans(marshalAddressPlans(ps)) = ps
    /\ \A ps \in Seq(TokenPlans) :
         /\ unmarshalTokenPlansOk(marshalTokenPlans(ps))
         /\ unmarshalTokenPlans(marshalTokenPlans(ps)) = ps
<1>1. ASSUME NEW ps \in Seq(AddressPlans)
      PROVE  /\ unmarshalAddressPlansOk(marshalAddressPlans(ps))
             /\ unmarshalAddressPlans(marshalAddressPlans(ps)) = ps
  <2> DEFINE d == marshalAddressPlans(ps)
  <2>1. ps = [i \in DOMAIN ps |-> ps[i]] /\ \A i \in DOMAIN ps : ps[i] \in AddressPlans
    BY SeqIsFunction
  <2>2. /\ DOMAIN d = DOMAIN ps
        /\ \A i \in DOMAIN ps : d[i].kind = ps[i].kind /\ d[i].data = marshalAddressPlanData(ps[i])
    BY DEF marshalAddressPlans
  <2>3. \A i \in DOMAIN ps : /\ unmarshalAddressPlanOk(d[i].kind, d[i].data)
                             /\ unmarshalAddressPlan(d[i].kind, d[i].data) = ps[i]
    BY <2>1, <2>2, AddressPlanReadsBack
  <2> HIDE DEF d
  <2>4. unmarshalAddressPlansOk(d) /\ unmarshalAddressPlans(d) = [i \in DOMAIN ps |-> ps[i]]
    BY <2>2, <2>3 DEF unmarshalAddressPlansOk, unmarshalAddressPlans
  <2> QED
    BY <2>1, <2>4 DEF d
<1>2. ASSUME NEW ps \in Seq(TokenPlans)
      PROVE  /\ unmarshalTokenPlansOk(marshalTokenPlans(ps))
             /\ unmarshalTokenPlans(marshalTokenPlans(ps)) = ps
  <2> DEFINE d == marshalTokenPlans(ps)
  <2>1. ps = [i \in DOMAIN ps |-> ps[i]] /\ \A i \in DOMAIN ps : ps[i] \in TokenPlans
    BY SeqIsFunction
  <2>2. /\ DOMAIN d = DOMAIN ps
        /\ \A i \in DOMAIN ps : d[i].kind = ps[i].kind /\ d[i].data = marshalTokenPlanData(ps[i])
    BY DEF marshalTokenPlans
  <2>3. \A i \in DOMAIN ps : /\ unmarshalTokenPlanOk(d[i].kind, d[i].data)
                             /\ unmarshalTokenPlan(d[i].kind, d[i].data) = ps[i]
    BY <2>1, <2>2, TokenPlanReadsBack
  <2> HIDE DEF d
  <2>4. unmarshalTokenPlansOk(d) /\ unmarshalTokenPlans(d) = [i \in DOMAIN ps |-> ps[i]]
    BY <2>2, <2>3 DEF unmarshalTokenPlansOk, unmarshalTokenPlans
  <2> QED
    BY <2>1, <2>4 DEF d
<1> QED
  BY <1>1, <1>2

\* A trigger reads back from its columns.
LEMMA TriggerReadsBack ==
    ASSUME NEW t \in RunTriggers
    PROVE  /\ unmarshalTriggerOk(t.kind)
           /\ unmarshalTrigger(t.kind, marshalTrigger(t)) = t
<1>1. CASE t \in [kind : {"manual"}, user : STRING]
  <2>1. t.kind = "manual" /\ t = [kind |-> "manual", user |-> t.user]
    BY <1>1
  <2>2. Get(marshalTrigger(t), "user", "") = t.user
    BY <2>1 DEF marshalTrigger, Get
  <2> QED
    BY <2>1, <2>2 DEF unmarshalTriggerOk, unmarshalTrigger
<1>2. CASE t \in [kind : {"scheduled"}, cronExpr : CronExprs]
  <2>1. t.kind = "scheduled" /\ t = [kind |-> "scheduled", cronExpr |-> t.cronExpr]
    BY <1>2
  <2>2. Get(marshalTrigger(t), "cron_expr", EmptyCron) = t.cronExpr
    BY <2>1 DEF marshalTrigger, Get
  <2> QED
    BY <2>1, <2>2 DEF unmarshalTriggerOk, unmarshalTrigger
<1>3. CASE t \in [kind : {"realtime"}, block : Nat]
  <2>1. t.kind = "realtime" /\ t = [kind |-> "realtime", block |-> t.block]
    BY <1>3
  <2>2. Get(marshalTrigger(t), "block_number", Hex(0)) = Hex(t.block)
    BY <2>1 DEF marshalTrigger, Get
  <2>3. ParseHex(Hex(t.block)) = t.block
    BY DEF ParseHex, Hex
  <2> QED
    BY <2>1, <2>2, <2>3 DEF unmarshalTriggerOk, unmarshalTrigger
<1> QED
  BY <1>1, <1>2, <1>3 DEF RunTriggers

\* Metrics read back from their keys, and are as many.
LEMMA MetricsReadBack ==
    ASSUME NEW ms \in Seq(KnownMetrics)
    PROVE  /\ metricsFromOk(metricKeys(ms))
           /\ metricsFrom(metricKeys(ms)) = ms
           /\ ms # <<>> => metricKeys(ms) # <<>>
<1>1. ms = [i \in DOMAIN ms |-> ms[i]] /\ \A i \in DOMAIN ms : ms[i] \in KnownMetrics
  BY SeqIsFunction
<1>2. \A m \in KnownMetrics : m.key \in DOMAIN Metrics /\ Metrics[m.key] = m
  BY CodecAssumption DEF KnownMetrics
<1>3. DOMAIN metricKeys(ms) = DOMAIN ms /\ \A i \in DOMAIN ms : metricKeys(ms)[i] = ms[i].key
  BY DEF metricKeys
<1>4. metricsFromOk(metricKeys(ms))
  BY <1>1, <1>2, <1>3 DEF metricsFromOk, MetricByKeyOk
<1>5. metricsFrom(metricKeys(ms)) = [i \in DOMAIN ms |-> ms[i]]
  BY <1>1, <1>2, <1>3 DEF metricsFrom, MetricByKey
<1>6. ms # <<>> => metricKeys(ms) # <<>>
  <2> SUFFICES ASSUME metricKeys(ms) = <<>> PROVE ms = <<>>
    OBVIOUS
  <2>1. DOMAIN ms = {}
    BY <1>3
  <2>2. Len(ms) = 0
    BY <2>1, SeqIsFunction
  <2> QED
    BY <2>2, EmptySeq
<1> QED
  BY <1>1, <1>4, <1>5, <1>6

\* A key that was left out reads as its zero value, every other one as written.
LEMMA GetOmitted ==
    ASSUME NEW doc, NEW key, NEW zero, key \in DOMAIN doc
    PROVE  Get(OmitEmpty(doc), key, zero) = IF doc[key] = Null THEN zero ELSE doc[key]
BY DEF Get, OmitEmpty

\* An optional number reads back from an optional text.
LEMMA OptionalHexReadsBack ==
    ASSUME NEW v \in OrNull(Uint64)
    PROVE  Optional(ParseHex, Optional(Hex, v)) = v
<1>1. CASE v = Null
  BY <1>1 DEF Optional
<1>2. CASE v # Null
  <2>1. v \in Int
    BY <1>2, CodecAssumption DEF OrNull, Uint64
  <2>2. Hex(v) \in [hex : Int] /\ ParseHex(Hex(v)) = v
    BY <2>1 DEF Hex, ParseHex
  <2>3. Hex(v) # Null
    BY <2>2, NullAssumption
  <2> QED
    BY <1>2, <2>2, <2>3 DEF Optional
<1> QED
  BY <1>1, <1>2

\* So does an optional address.
LEMMA OptionalAddressReadsBack ==
    ASSUME NEW v \in OrNull(STRING)
    PROVE  /\ Optional(NewAddress, Optional(AddressHex, v)) = v
           /\ Optional(AddressHex, v) # Null => NewAddressOk(Optional(AddressHex, v))
<1>1. CASE v = Null
  BY <1>1 DEF Optional
<1>2. CASE v # Null
  <2>1. v \in STRING
    BY <1>2 DEF OrNull
  <2>2. /\ AddressHex(v) \in AddressText /\ NewAddress(AddressHex(v)) = v
        /\ NewAddressOk(AddressHex(v))
    BY <2>1 DEF AddressHex, NewAddress, NewAddressOk, AddressText
  <2>3. AddressHex(v) # Null
    BY <2>2, NullAssumption
  <2> QED
    BY <1>2, <2>2, <2>3 DEF Optional
<1> QED
  BY <1>1, <1>2

\* A height in the upper half of uint64 is stored as a negative number, and
\* comes back as itself.
LEMMA HeightsReadBack ==
    ASSUME NEW n \in Uint64
    PROVE  AsInt64(n) \in Int /\ AsUint64(AsInt64(n)) = n /\ n \in Nat
<1>1. n \in Nat /\ n <= 2 * MaxInt64 + 1 /\ MaxInt64 \in Nat
  BY CodecAssumption DEF Uint64
<1> QED
  BY <1>1 DEF AsInt64, AsUint64

\* An optional height as well.
LEMMA OptionalHeightReadsBack ==
    ASSUME NEW v \in OrNull(Uint64)
    PROVE  Optional(AsUint64, Optional(AsInt64, v)) = v
<1>1. CASE v = Null
  BY <1>1 DEF Optional
<1>2. CASE v # Null
  <2>1. v \in Uint64
    BY <1>2 DEF OrNull
  <2>2. AsInt64(v) \in Int /\ AsUint64(AsInt64(v)) = v
    BY <2>1, HeightsReadBack
  <2>3. AsInt64(v) # Null
    BY <2>2, NullAssumption
  <2> QED
    BY <1>2, <2>2, <2>3 DEF Optional
<1> QED
  BY <1>1, <1>2

\* The object a subject is written as.
SubjectDoc(s) ==
    [k |-> s.kind, b |-> Optional(Hex, s.block), a |-> Optional(AddressHex, s.address),
     t |-> Optional(AddressHex, s.token), n |-> IF s.name = "" THEN Null ELSE s.name]

\* A subject reads back from its object.
LEMMA SubjectReadsBack ==
    ASSUME NEW s \in Subjects
    PROVE  /\ subjectFromOk(OmitEmpty(SubjectDoc(s)))
           /\ subjectFrom(OmitEmpty(SubjectDoc(s))) = s
<1> DEFINE d == SubjectDoc(s)
           e == OmitEmpty(d)
<1>1. /\ s = [kind |-> s.kind, block |-> s.block, address |-> s.address, token |-> s.token,
              name |-> s.name]
      /\ s.kind \in STRING /\ s.block \in OrNull(Uint64) /\ s.address \in OrNull(STRING)
      /\ s.token \in OrNull(STRING) /\ s.name \in STRING
  BY DEF Subjects
<1>2. /\ DOMAIN d = {"k", "b", "a", "t", "n"}
      /\ d.k = s.kind /\ d.b = Optional(Hex, s.block) /\ d.a = Optional(AddressHex, s.address)
      /\ d.t = Optional(AddressHex, s.token) /\ d.n = IF s.name = "" THEN Null ELSE s.name
  BY DEF SubjectDoc
<1> HIDE DEF d
<1>3. Get(e, "b", Null) = d.b /\ Get(e, "a", Null) = d.a /\ Get(e, "t", Null) = d.t
  BY <1>2, GetOmitted
<1>4. Get(e, "n", "") = s.name
  <2>1. Get(e, "n", "") = IF d.n = Null THEN "" ELSE d.n
    BY <1>2, GetOmitted
  <2>2. s.name # Null
    BY <1>1, NullAssumption
  <2> QED
    BY <1>2, <2>1, <2>2
<1>5. e.k = s.kind
  <2>1. s.kind # Null
    BY <1>1, NullAssumption
  <2> QED
    BY <1>2, <2>1 DEF OmitEmpty
<1> HIDE DEF e
<1>6. Optional(ParseHex, Get(e, "b", Null)) = s.block
  BY <1>1, <1>2, <1>3, OptionalHexReadsBack
<1>7. Optional(NewAddress, Get(e, "a", Null)) = s.address
  BY <1>1, <1>2, <1>3, OptionalAddressReadsBack
<1>8. Optional(NewAddress, Get(e, "t", Null)) = s.token
  BY <1>1, <1>2, <1>3, OptionalAddressReadsBack
<1>9. subjectFrom(e) = s
  BY <1>1, <1>4, <1>5, <1>6, <1>7, <1>8 DEF subjectFrom
<1>10. subjectFromOk(e)
  BY <1>1, <1>2, <1>3, OptionalAddressReadsBack, ZenonT(60) DEF subjectFromOk
<1> QED
  BY <1>9, <1>10 DEF e, d

\* The column of all subjects.
LEMMA SubjectsReadBack ==
    ASSUME NEW ss \in Seq(Subjects)
    PROVE  /\ unmarshalSubjectsOk(marshalSubjects(ss))
           /\ unmarshalSubjects(marshalSubjects(ss)) = ss
<1> DEFINE d == marshalSubjects(ss)
<1>1. ss = [i \in DOMAIN ss |-> ss[i]] /\ \A i \in DOMAIN ss : ss[i] \in Subjects
  BY SeqIsFunction
<1>2. DOMAIN d = DOMAIN ss /\ \A i \in DOMAIN ss : d[i] = OmitEmpty(SubjectDoc(ss[i]))
  BY DEF marshalSubjects, SubjectDoc
<1> HIDE DEF d
<1>3. \A i \in DOMAIN ss : subjectFromOk(d[i]) /\ subjectFrom(d[i]) = ss[i]
  BY <1>1, <1>2, SubjectReadsBack
<1>4. unmarshalSubjectsOk(d) /\ unmarshalSubjects(d) = [i \in DOMAIN ss |-> ss[i]]
  BY <1>2, <1>3 DEF unmarshalSubjectsOk, unmarshalSubjects
<1> QED
  BY <1>1, <1>4 DEF d

\* A column keeps a time to the microsecond, and keeps what it has kept.
LEMMA TimesKept ==
    ASSUME NEW t \in Nat
    PROVE  Timestamptz(t) \in Nat /\ Timestamptz(Timestamptz(t)) = Timestamptz(t)
<1> DEFINE m == Micro
           q == t \div m
<1>1. m \in Nat \ {0}
  BY CodecAssumption
<1>2. q \in Nat /\ t % m \in Nat /\ t = m * q + (t % m)
  BY <1>1
<1>3. (m * q) % m = 0
  BY <1>1, <1>2
<1>4. Timestamptz(t) = m * q /\ m * q \in Nat
  BY <1>1, <1>2 DEF Timestamptz
<1> HIDE DEF q
<1>5. Timestamptz(m * q) = m * q
  BY <1>3, <1>4 DEF Timestamptz
<1> QED
  BY <1>4, <1>5

\* A run with the times its columns keep.
LEMMA InColumnsFacts ==
    ASSUME NEW r \in Runs
    PROVE  /\ InColumns(r) \in Runs
           /\ InColumns(r) =
                [id |-> r.id, chain |-> r.chain, strategy |-> r.strategy, metrics |-> r.metrics,
                 trigger |-> r.trigger, status |-> r.status, createdAt |-> Timestamptz(r.createdAt),
                 startedAt |-> Optional(Timestamptz, r.startedAt),
                 finishedAt |-> Optional(Timestamptz, r.finishedAt), errorMsg |-> r.errorMsg,
                 addressPlans |-> r.addressPlans, tokenPlans |-> r.tokenPlans, summary |-> r.summary]
           /\ InColumns(r).chain = r.chain /\ InColumns(r).strategy = r.strategy
           /\ InColumns(r).metrics = r.metrics /\ InColumns(r).addressPlans = r.addressPlans
           /\ InColumns(r).tokenPlans = r.tokenPlans /\ InColumns(r).trigger = r.trigger
           /\ InColumns(r).createdAt = Timestamptz(r.createdAt)
<1>1. /\ r.createdAt \in Nat /\ r.startedAt \in OrNull(Nat) /\ r.finishedAt \in OrNull(Nat)
      /\ DOMAIN r = {"id", "chain", "strategy", "metrics", "trigger", "status", "createdAt", "startedAt",
                     "finishedAt", "errorMsg", "addressPlans", "tokenPlans", "summary"}
      /\ r = [id |-> r.id, chain |-> r.chain, strategy |-> r.strategy, metrics |-> r.metrics,
              trigger |-> r.trigger, status |-> r.status, createdAt |-> r.createdAt,
              startedAt |-> r.startedAt, finishedAt |-> r.finishedAt, errorMsg |-> r.errorMsg,
              addressPlans |-> r.addressPlans, tokenPlans |-> r.tokenPlans, summary |-> r.summary]
  BY DEF Runs
<1> DEFINE a == Timestamptz(r.createdAt)
           b == Optional(Timestamptz, r.startedAt)
           e == Optional(Timestamptz, r.finishedAt)
<1>2. a \in Nat /\ b \in OrNull(Nat) /\ e \in OrNull(Nat)
  BY <1>1, TimesKept DEF Optional, OrNull
<1>3. PICK x : x = InColumns(r)
  OBVIOUS
<1>4. x = [r EXCEPT !.createdAt = a, !.startedAt = b, !.finishedAt = e]
  BY <1>3 DEF InColumns
<1> HIDE DEF a, b, e
<1>5. DOMAIN x = DOMAIN r /\ x = [k \in DOMAIN x |-> x[k]]
  BY <1>4
<1>6. x.createdAt = a /\ x.startedAt = b /\ x.finishedAt = e
  BY <1>1, <1>4
<1>7. /\ x.id = r.id /\ x.chain = r.chain /\ x.strategy = r.strategy /\ x.metrics = r.metrics
      /\ x.trigger = r.trigger /\ x.status = r.status /\ x.errorMsg = r.errorMsg
      /\ x.addressPlans = r.addressPlans /\ x.tokenPlans = r.tokenPlans /\ x.summary = r.summary
  BY <1>1, <1>4
<1>8. x = [id |-> r.id, chain |-> r.chain, strategy |-> r.strategy, metrics |-> r.metrics,
           trigger |-> r.trigger, status |-> r.status, createdAt |-> a, startedAt |-> b,
           finishedAt |-> e, errorMsg |-> r.errorMsg,
           addressPlans |-> r.addressPlans, tokenPlans |-> r.tokenPlans, summary |-> r.summary]
  BY <1>1, <1>5, <1>6, <1>7
<1>9. x \in Runs
  BY <1>2, <1>8 DEF Runs
<1> QED
  BY <1>3, <1>6, <1>7, <1>8, <1>9, Zenon DEF a, b, e

\* Every run reads back from its row, with the times the columns keep.
LEMMA RunReadsBack ==
    ASSUME NEW r \in Runs
    PROVE  toRunOk(toRunModel(r)) /\ toRun(toRunModel(r)) = InColumns(r)
<1> DEFINE m == toRunModel(r)
<1>1. /\ r = [id |-> r.id, chain |-> r.chain, strategy |-> r.strategy, metrics |-> r.metrics,
              trigger |-> r.trigger, status |-> r.status, createdAt |-> r.createdAt,
              startedAt |-> r.startedAt, finishedAt |-> r.finishedAt, errorMsg |-> r.errorMsg,
              addressPlans |-> r.addressPlans, tokenPlans |-> r.tokenPlans, summary |-> r.summary]
      /\ r.chain \in Nat \ {0} /\ r.strategy \in Strategies
      /\ r.metrics \in Seq(KnownMetrics) /\ r.metrics # <<>>
      /\ r.trigger \in RunTriggers /\ r.status \in {"pending", "completed"}
      /\ r.addressPlans \in Seq(AddressPlans) /\ r.tokenPlans \in Seq(TokenPlans)
      /\ r.summary \in Summaries
  BY DEF Runs
<1>2. /\ m.id = r.id /\ m.chain_id = r.chain /\ m.status = r.status
      /\ m.trigger_type = r.trigger.kind /\ m.trigger_data = marshalTrigger(r.trigger)
      /\ m.strategy_kind = r.strategy.kind /\ m.strategy_data = marshalStrategy(r.strategy)
      /\ m.address_plans = marshalAddressPlans(r.addressPlans)
      /\ m.token_plans = marshalTokenPlans(r.tokenPlans)
      /\ m.metrics = metricKeys(r.metrics) /\ m.error_msg = r.errorMsg
      /\ m.created_at = Timestamptz(r.createdAt)
      /\ m.started_at = Optional(Timestamptz, r.startedAt)
      /\ m.finished_at = Optional(Timestamptz, r.finishedAt)
      /\ m.anchor_block = Optional(AsInt64, r.summary.anchor)
      /\ m.subjects = marshalSubjects(r.summary.subjects)
      /\ m.sources_used = r.summary.sources /\ m.comparisons_count = r.summary.count
  BY DEF toRunModel
<1> HIDE DEF m
<1>3. /\ r.summary = [anchor |-> r.summary.anchor, subjects |-> r.summary.subjects,
                      sources |-> r.summary.sources, count |-> r.summary.count]
      /\ r.summary.anchor \in OrNull(Uint64) /\ r.summary.subjects \in Seq(Subjects)
  BY <1>1 DEF Summaries
<1>4. /\ unmarshalTriggerOk(m.trigger_type)
      /\ unmarshalTrigger(m.trigger_type, m.trigger_data) = r.trigger
  BY <1>1, <1>2, TriggerReadsBack
<1>5. /\ unmarshalStrategyOk(m.strategy_kind, m.strategy_data)
      /\ unmarshalStrategy(m.strategy_kind, m.strategy_data) = r.strategy
  BY <1>1, <1>2, StrategyReadsBack
<1>6. /\ unmarshalAddressPlansOk(m.address_plans) /\ unmarshalAddressPlans(m.address_plans) = r.addressPlans
      /\ unmarshalTokenPlansOk(m.token_plans) /\ unmarshalTokenPlans(m.token_plans) = r.tokenPlans
  BY <1>1, <1>2, PlansReadBack
<1>7. /\ metricsFromOk(m.metrics) /\ metricsFrom(m.metrics) = r.metrics /\ m.metrics # <<>>
  BY <1>1, <1>2, MetricsReadBack
<1>8. /\ unmarshalSubjectsOk(m.subjects) /\ unmarshalSubjects(m.subjects) = r.summary.subjects
  BY <1>2, <1>3, SubjectsReadBack
<1>9. Optional(AsUint64, m.anchor_block) = r.summary.anchor
  BY <1>2, <1>3, OptionalHeightReadsBack
<1>10. toRunOk(m)
  BY <1>1, <1>2, <1>4, <1>5, <1>6, <1>7, <1>8 DEF toRunOk, RehydrateOk
<1>11. toRun(m) = InColumns(r)
  <2>1. [anchor |-> Optional(AsUint64, m.anchor_block), subjects |-> unmarshalSubjects(m.subjects),
         sources |-> m.sources_used, count |-> m.comparisons_count] = r.summary
    BY <1>2, <1>3, <1>8, <1>9
  <2>2. InColumns(r) =
          [id |-> r.id, chain |-> r.chain, strategy |-> r.strategy, metrics |-> r.metrics,
           trigger |-> r.trigger, status |-> r.status, createdAt |-> Timestamptz(r.createdAt),
           startedAt |-> Optional(Timestamptz, r.startedAt),
           finishedAt |-> Optional(Timestamptz, r.finishedAt), errorMsg |-> r.errorMsg,
           addressPlans |-> r.addressPlans, tokenPlans |-> r.tokenPlans, summary |-> r.summary]
    BY InColumnsFacts
  <2> QED
    BY <1>2, <1>4, <1>5, <1>6, <1>7, <2>1, <2>2, Zenon DEF toRun
<1> QED
  BY <1>10, <1>11 DEF m

\* The object a value is written as.
ValueDoc(v) == [raw |-> v.raw, fetched_at |-> v.fetchedAt, reflected_block |-> Optional(Hex, v.reflected)]

\* The values of a discrepancy read back, source by source.
LEMMA ValuesReadBack ==
    ASSUME NEW vs, vs \in [DOMAIN vs -> Values]
    PROVE  unmarshalValues(marshalValues(vs)) = vs
<1> DEFINE d == marshalValues(vs)
<1>1. DOMAIN d = DOMAIN vs /\ \A s \in DOMAIN vs : d[s] = OmitEmpty(ValueDoc(vs[s]))
  BY DEF marshalValues, ValueDoc
<1>2. ASSUME NEW v \in Values
      PROVE  /\ Get(OmitEmpty(ValueDoc(v)), "raw", "") = v.raw
             /\ Get(OmitEmpty(ValueDoc(v)), "fetched_at", 0) = v.fetchedAt
             /\ Optional(ParseHex, Get(OmitEmpty(ValueDoc(v)), "reflected_block", Null)) = v.reflected
             /\ v = [raw |-> v.raw, fetchedAt |-> v.fetchedAt, reflected |-> v.reflected]
  <2> DEFINE e == ValueDoc(v)
  <2>1. /\ v = [raw |-> v.raw, fetchedAt |-> v.fetchedAt, reflected |-> v.reflected]
        /\ v.raw \in STRING /\ v.fetchedAt \in Nat /\ v.reflected \in OrNull(Uint64)
    BY DEF Values
  <2>2. /\ DOMAIN e = {"raw", "fetched_at", "reflected_block"}
        /\ e.raw = v.raw /\ e.fetched_at = v.fetchedAt /\ e.reflected_block = Optional(Hex, v.reflected)
    BY DEF ValueDoc
  <2> HIDE DEF e
  <2>3. v.raw # Null
    BY <2>1, NullAssumption
  <2>4. v.fetchedAt # Null
    BY <2>1, NullAssumption
  <2>5. /\ Get(OmitEmpty(e), "raw", "") = v.raw /\ Get(OmitEmpty(e), "fetched_at", 0) = v.fetchedAt
        /\ Get(OmitEmpty(e), "reflected_block", Null) = Optional(Hex, v.reflected)
    BY <2>2, <2>3, <2>4, GetOmitted
  <2>6. Optional(ParseHex, Get(OmitEmpty(e), "reflected_block", Null)) = v.reflected
    BY <2>1, <2>5, OptionalHexReadsBack
  <2> QED
    BY <2>1, <2>5, <2>6 DEF e
<1> HIDE DEF d
<1>3. \A s \in DOMAIN vs :
         [raw |-> Get(d[s], "raw", ""), fetchedAt |-> Get(d[s], "fetched_at", 0),
          reflected |-> Optional(ParseHex, Get(d[s], "reflected_block", Null))] = vs[s]
  <2> TAKE s \in DOMAIN vs
  <2>1. vs[s] \in Values /\ d[s] = OmitEmpty(ValueDoc(vs[s]))
    BY <1>1
  <2>2. /\ Get(d[s], "raw", "") = vs[s].raw /\ Get(d[s], "fetched_at", 0) = vs[s].fetchedAt
        /\ Optional(ParseHex, Get(d[s], "reflected_block", Null)) = vs[s].reflected
        /\ vs[s] = [raw |-> vs[s].raw, fetchedAt |-> vs[s].fetchedAt, reflected |-> vs[s].reflected]
    BY <1>2, <2>1
  <2> QED
    BY <2>2
<1>4. unmarshalValues(d) = [s \in DOMAIN vs |-> vs[s]]
  BY <1>1, <1>3 DEF unmarshalValues
<1>5. vs = [s \in DOMAIN vs |-> vs[s]]
  OBVIOUS
<1> QED
  BY <1>4, <1>5 DEF d

\* The row of a discrepancy an execution finds.
DiffRow(r, o) == toDiffModel([o.diff EXCEPT !.run = r], o.judgement, o.meta)

\* A discrepancy reads back as it was found, to the microsecond, with its
\* judgement, and with the tier of its metric where the execution supplied none.
LEMMA DiffReadsBack ==
    ASSUME NEW r, NEW o \in Outcomes
    PROVE  LET read == toDiffRecord(DiffRow(r, o))
           IN  /\ toDiffRecordOk(DiffRow(r, o))
               /\ read.discrepancy = [o.diff EXCEPT !.run = r, !.detectedAt = Timestamptz(@)]
               /\ read.judgement = o.judgement
               /\ read.meta = [o.meta EXCEPT !.tier = IF @ = 0 THEN o.diff.metric.tier ELSE @]
<1> DEFINE d == [o.diff EXCEPT !.run = r, !.detectedAt = Timestamptz(@)]
           m == DiffRow(r, o)
           read == toDiffRecord(m)
           tier == IF o.meta.tier # 0 THEN o.meta.tier ELSE o.diff.metric.tier
<1>1. OutcomeOK(o)
  BY RequestPathAssumption
<1>2. /\ o.diff.metric \in KnownMetrics /\ o.diff.block \in Uint64
      /\ o.diff.subject = [type |-> o.diff.subject.type, address |-> o.diff.subject.address]
      /\ [o.diff EXCEPT !.run = r]
           = [run |-> r, metric |-> o.diff.metric, block |-> o.diff.block, subject |-> o.diff.subject,
              values |-> o.diff.values, detectedAt |-> o.diff.detectedAt]
  BY <1>1 DEF OutcomeOK, KnownMetrics
<1>11. d = [run |-> r, metric |-> o.diff.metric, block |-> o.diff.block, subject |-> o.diff.subject,
            values |-> o.diff.values, detectedAt |-> Timestamptz(o.diff.detectedAt)]
  <2>1. PICK t : t = Timestamptz(o.diff.detectedAt)
    OBVIOUS
  <2>2. o.diff = [run |-> Null, metric |-> o.diff.metric, block |-> o.diff.block,
                  subject |-> o.diff.subject, values |-> o.diff.values, detectedAt |-> o.diff.detectedAt]
    BY <1>1 DEF OutcomeOK
  <2>3. PICK x : x = [o.diff EXCEPT !.run = r, !.detectedAt = t]
    OBVIOUS
  <2>4. DOMAIN o.diff = {"run", "metric", "block", "subject", "values", "detectedAt"}
    BY <2>2
  <2>5. /\ DOMAIN x = DOMAIN o.diff /\ x = [k \in DOMAIN x |-> x[k]]
        /\ x.run = r /\ x.detectedAt = t /\ x.metric = o.diff.metric /\ x.block = o.diff.block
        /\ x.subject = o.diff.subject /\ x.values = o.diff.values
    BY <2>3, <2>4
  <2>6. x = [run |-> r, metric |-> o.diff.metric, block |-> o.diff.block, subject |-> o.diff.subject,
             values |-> o.diff.values, detectedAt |-> t]
    BY <2>4, <2>5
  <2> QED
    BY <2>1, <2>3, <2>6
<1>3. /\ o.judgement = [severity |-> o.judgement.severity, trusted |-> o.judgement.trusted]
      /\ o.meta = [tier |-> o.meta.tier, anchor |-> o.meta.anchor, seed |-> o.meta.seed]
      /\ o.meta.tier \in Nat /\ o.meta.anchor \in Uint64
      /\ o.diff.values \in [DOMAIN o.diff.values -> Values]
  BY <1>1 DEF OutcomeOK
<1>4. /\ o.diff.metric.key \in DOMAIN Metrics /\ Metrics[o.diff.metric.key] = o.diff.metric
      /\ o.diff.metric.tier \in Nat
  BY <1>2, CodecAssumption DEF KnownMetrics
<1>5. /\ m.run_id = r /\ m.metric_key = o.diff.metric.key /\ m.block_number = AsInt64(o.diff.block)
      /\ m.subject_type = o.diff.subject.type /\ m.subject_addr = o.diff.subject.address
      /\ m.values = marshalValues(o.diff.values) /\ m.detected_at = Timestamptz(o.diff.detectedAt)
      /\ m.severity = o.judgement.severity /\ m.trusted_sources = o.judgement.trusted
      /\ m.tier = (IF tier = 0 THEN Null ELSE tier)
      /\ m.anchor_block = (IF o.meta.anchor = 0 THEN Null ELSE AsInt64(o.meta.anchor))
      /\ m.sampling_seed = o.meta.seed
  BY <1>2 DEF DiffRow, toDiffModel
<1> HIDE DEF m
<1>6. toDiffRecordOk(m)
  BY <1>4, <1>5 DEF toDiffRecordOk, MetricByKeyOk
<1>7. read.discrepancy = d
  <2>1. AsUint64(AsInt64(o.diff.block)) = o.diff.block
    BY <1>2, HeightsReadBack
  <2>2. unmarshalValues(m.values) = o.diff.values
    BY <1>3, <1>5, ValuesReadBack
  <2>3. read.discrepancy = [run |-> m.run_id, metric |-> MetricByKey(m.metric_key),
                      block |-> AsUint64(m.block_number),
                      subject |-> [type |-> m.subject_type, address |-> m.subject_addr],
                      values |-> unmarshalValues(m.values), detectedAt |-> m.detected_at]
    BY DEF toDiffRecord
  <2> QED
    BY <1>2, <1>4, <1>5, <1>11, <2>1, <2>2, <2>3 DEF MetricByKey
<1>8. read.judgement = o.judgement
  BY <1>3, <1>5 DEF toDiffRecord
<1>9. read.meta = [tier |-> tier, anchor |-> o.meta.anchor, seed |-> o.meta.seed]
  <2>1. tier \in Nat /\ tier # Null
    BY <1>3, <1>4, NullAssumption
  <2>2. (IF m.tier = Null THEN 0 ELSE m.tier) = tier
    BY <1>5, <2>1
  <2>3. AsInt64(o.meta.anchor) # Null /\ AsUint64(AsInt64(o.meta.anchor)) = o.meta.anchor
    BY <1>3, HeightsReadBack, NullAssumption
  <2>4. (IF m.anchor_block = Null THEN 0 ELSE AsUint64(m.anchor_block)) = o.meta.anchor
    BY <1>5, <2>3
  <2>5. read.meta = [tier |-> IF m.tier = Null THEN 0 ELSE m.tier,
                     anchor |-> IF m.anchor_block = Null THEN 0 ELSE AsUint64(m.anchor_block),
                     seed |-> m.sampling_seed]
    BY DEF toDiffRecord
  <2> QED
    BY <1>5, <2>2, <2>4, <2>5
<1>10. [tier |-> tier, anchor |-> o.meta.anchor, seed |-> o.meta.seed]
         = [o.meta EXCEPT !.tier = IF @ = 0 THEN o.diff.metric.tier ELSE @]
  BY <1>3
<1> QED
  BY <1>6, <1>7, <1>8, <1>9, <1>10 DEF m
-----------------------------------------------------------------------------
(* What the routes make of a body is what it says. *)

\* Addresses are taken for what they are, however they are spelled.
LEMMA AddressesMap ==
    ASSUME NEW texts \in Seq(AddressText)
    PROVE  /\ addressesFrom(texts) \in Seq(STRING)
           /\ addressesFrom(texts) = [i \in DOMAIN texts |-> texts[i].address]
<1>1. DOMAIN texts = 1..Len(texts) /\ Len(texts) \in Nat /\ \A i \in DOMAIN texts : texts[i] \in AddressText
  BY SeqIsFunction
<1>2. addressesFrom(texts) = [i \in DOMAIN texts |-> texts[i].address]
  BY DEF addressesFrom, NewAddress
<1>3. \A i \in 1..Len(texts) : texts[i].address \in STRING
  BY <1>1 DEF AddressText
<1>4. [i \in 1..Len(texts) |-> texts[i].address] \in Seq(STRING)
  BY <1>1, <1>3, IsASeq
<1> QED
  BY <1>1, <1>2, <1>4

\* Every parameter of the sampling reaches the strategy.
LEMMA SamplingMaps ==
    ASSUME NEW s \in SamplingParts, SamplingToDomainOk(s)
    PROVE  SamplingToDomain(s) \in Strategies /\ Matches(SamplingToDomain(s), s)
<1> DEFINE v == SamplingToDomain(s)
<1>0. s.body # Null
  BY DEF SamplingToDomainOk
<1>1. CASE s \in Part("fixed_list", [numbers : Seq(Nat)])
  <2>1. s.kind = "fixed_list" /\ s.body \in [numbers : Seq(Nat)]
    BY <1>0, <1>1 DEF Part, OrNull
  <2>2. v = [kind |-> "fixed_list", numbers |-> s.body.numbers]
    BY <2>1 DEF SamplingToDomain
  <2>3. DOMAIN s.body = {"numbers"} /\ Denotes(s.body)["numbers"] = s.body.numbers
    BY <2>1 DEF Denotes
  <2> QED
    BY <2>1, <2>2, <2>3 DEF Strategies, Matches
<1>2. CASE s \in Part("latest_n", [n : Nat])
  <2>1. s.kind = "latest_n" /\ s.body \in [n : Nat]
    BY <1>0, <1>2 DEF Part, OrNull
  <2>2. v = [kind |-> "latest_n", n |-> s.body.n]
    BY <2>1 DEF SamplingToDomain
  <2>3. DOMAIN s.body = {"n"} /\ Denotes(s.body)["n"] = s.body.n
    BY <2>1 DEF Denotes
  <2> QED
    BY <2>1, <2>2, <2>3 DEF Strategies, Matches
<1>3. CASE s \in Part("random", [start : Nat, end : Nat, count : Nat, seed : Int])
  <2>1. s.kind = "random" /\ s.body \in [start : Nat, end : Nat, count : Nat, seed : Int]
    BY <1>0, <1>3 DEF Part, OrNull
  <2>2. v = [kind |-> "random", range |-> [start |-> s.body.start, end |-> s.body.end],
             count |-> s.body.count, seed |-> s.body.seed]
    BY <2>1 DEF SamplingToDomain, NewBlockRange
  <2>3. s.body.start <= s.body.end
    BY <2>1 DEF SamplingToDomainOk, NewBlockRangeOk
  <2>4. [start |-> s.body.start, end |-> s.body.end] \in Ranges
    BY <2>1, <2>3 DEF Ranges
  <2>5. v \in Strategies
    BY <2>1, <2>2, <2>4 DEF Strategies
  <2>6. /\ DOMAIN s.body = {"start", "end", "count", "seed"}
        /\ Denotes(s.body)["start"] = v.range["start"] /\ Denotes(s.body)["end"] = v.range["end"]
        /\ Denotes(s.body)["count"] = v["count"] /\ Denotes(s.body)["seed"] = v["seed"]
    BY <2>1, <2>2 DEF Denotes
  <2>7. v.kind = s.kind
    BY <2>1, <2>2
  <2> HIDE DEF v
  <2>8. Matches(v, s)
    BY <2>6, <2>7 DEF Matches
  <2> QED
    BY <2>5, <2>8 DEF v
<1>4. CASE s \in Part("sparse_steps", [start : Nat, end : Nat, step : Nat])
  <2>1. s.kind = "sparse_steps" /\ s.body \in [start : Nat, end : Nat, step : Nat]
    BY <1>0, <1>4 DEF Part, OrNull
  <2>2. v = [kind |-> "sparse_steps", range |-> [start |-> s.body.start, end |-> s.body.end],
             step |-> s.body.step]
    BY <2>1 DEF SamplingToDomain, NewBlockRange
  <2>3. s.body.start <= s.body.end
    BY <2>1 DEF SamplingToDomainOk, NewBlockRangeOk
  <2>4. [start |-> s.body.start, end |-> s.body.end] \in Ranges
    BY <2>1, <2>3 DEF Ranges
  <2>5. v \in Strategies
    BY <2>1, <2>2, <2>4 DEF Strategies
  <2>6. /\ DOMAIN s.body = {"start", "end", "step"}
        /\ Denotes(s.body)["start"] = v.range["start"] /\ Denotes(s.body)["end"] = v.range["end"]
        /\ Denotes(s.body)["step"] = v["step"]
    BY <2>1, <2>2 DEF Denotes
  <2>7. v.kind = s.kind
    BY <2>1, <2>2
  <2> HIDE DEF v
  <2>8. Matches(v, s)
    BY <2>6, <2>7 DEF Matches
  <2> QED
    BY <2>5, <2>8 DEF v
<1> QED
  BY <1>1, <1>2, <1>3, <1>4 DEF SamplingParts

\* Every parameter of an address plan reaches the plan.
LEMMA AddressPlanMaps ==
    ASSUME NEW p \in AddressPlanParts, AddressPlanToDomainOk(p)
    PROVE  AddressPlanToDomain(p) \in AddressPlans /\ Matches(AddressPlanToDomain(p), p)
<1> DEFINE v == AddressPlanToDomain(p)
<1>0. p.body # Null
  BY DEF AddressPlanToDomainOk
<1>1. CASE p \in Part("known", [addresses : Seq(AddressText)])
  <2>1. p.kind = "known" /\ p.body \in [addresses : Seq(AddressText)]
    BY <1>0, <1>1 DEF Part, OrNull
  <2>2. v = [kind |-> "known", addresses |-> addressesFrom(p.body.addresses)]
    BY <2>1 DEF AddressPlanToDomain
  <2>3. /\ addressesFrom(p.body.addresses) \in Seq(STRING)
        /\ addressesFrom(p.body.addresses) = [i \in DOMAIN p.body.addresses |-> p.body.addresses[i].address]
    BY <2>1, AddressesMap
  <2>4. /\ DOMAIN p.body = {"addresses"}
        /\ Denotes(p.body)["addresses"] = [i \in DOMAIN p.body.addresses |-> p.body.addresses[i].address]
    BY <2>1 DEF Denotes
  <2>5. v \in AddressPlans
    BY <2>2, <2>3 DEF AddressPlans
  <2>6. v.kind = p.kind /\ Denotes(p.body)["addresses"] = v["addresses"]
    BY <2>1, <2>2, <2>3, <2>4
  <2> HIDE DEF v
  <2>7. Matches(v, p)
    BY <2>4, <2>6 DEF Matches
  <2> QED
    BY <2>5, <2>7 DEF v
<1>2. CASE p \in Part("top_n", [n : Nat])
  <2>1. p.kind = "top_n" /\ p.body \in [n : Nat]
    BY <1>0, <1>2 DEF Part, OrNull
  <2>2. v = [kind |-> "top_n", n |-> p.body.n]
    BY <2>1 DEF AddressPlanToDomain
  <2>3. DOMAIN p.body = {"n"} /\ Denotes(p.body)["n"] = p.body.n
    BY <2>1 DEF Denotes
  <2> QED
    BY <2>1, <2>2, <2>3 DEF AddressPlans, Matches
<1>3. CASE p \in Part("random", [count : Nat, seed : Int])
  <2>1. p.kind = "random" /\ p.body \in [count : Nat, seed : Int]
    BY <1>0, <1>3 DEF Part, OrNull
  <2>2. v = [kind |-> "random", count |-> p.body.count, seed |-> p.body.seed]
    BY <2>1 DEF AddressPlanToDomain
  <2>3. /\ DOMAIN p.body = {"count", "seed"} /\ Denotes(p.body)["count"] = p.body.count
        /\ Denotes(p.body)["seed"] = p.body.seed
    BY <2>1 DEF Denotes
  <2> QED
    BY <2>1, <2>2, <2>3 DEF AddressPlans, Matches
<1>4. CASE p \in Part("recently_active", [recent_blocks : Nat, count : Nat, seed : Int])
  <2>1. p.kind = "recently_active" /\ p.body \in [recent_blocks : Nat, count : Nat, seed : Int]
    BY <1>0, <1>4 DEF Part, OrNull
  <2>2. v = [kind |-> "recently_active", recent_blocks |-> p.body.recent_blocks,
             count |-> p.body.count, seed |-> p.body.seed]
    BY <2>1 DEF AddressPlanToDomain
  <2>3. /\ DOMAIN p.body = {"recent_blocks", "count", "seed"}
        /\ Denotes(p.body)["recent_blocks"] = p.body.recent_blocks
        /\ Denotes(p.body)["count"] = p.body.count /\ Denotes(p.body)["seed"] = p.body.seed
    BY <2>1 DEF Denotes
  <2> QED
    BY <2>1, <2>2, <2>3 DEF AddressPlans, Matches
<1> QED
  BY <1>1, <1>2, <1>3, <1>4 DEF AddressPlanParts

\* Every token of a token plan reaches the plan.
LEMMA TokenPlanMaps ==
    ASSUME NEW p \in TokenPlanParts, TokenPlanToDomainOk(p)
    PROVE  TokenPlanToDomain(p) \in TokenPlans /\ Matches(TokenPlanToDomain(p), p)
<1> DEFINE v == TokenPlanToDomain(p)
<1>1. p.kind = "known_tokens" /\ p.body \in [tokens : Seq(AddressText)]
  BY DEF TokenPlanToDomainOk, TokenPlanParts, Part, OrNull
<1>2. /\ addressesFrom(p.body.tokens) \in Seq(STRING)
      /\ addressesFrom(p.body.tokens) = [i \in DOMAIN p.body.tokens |-> p.body.tokens[i].address]
  BY <1>1, AddressesMap
<1>3. v = [kind |-> "known_tokens", tokens |-> addressesFrom(p.body.tokens)]
  BY <1>1 DEF TokenPlanToDomain
<1>4. /\ DOMAIN p.body = {"tokens"}
      /\ Denotes(p.body)["tokens"] = [i \in DOMAIN p.body.tokens |-> p.body.tokens[i].address]
  BY <1>1 DEF Denotes
<1>5. v \in TokenPlans
  BY <1>2, <1>3 DEF TokenPlans
<1>6. v.kind = p.kind /\ Denotes(p.body)["tokens"] = v["tokens"]
  BY <1>1, <1>2, <1>3, <1>4
<1> HIDE DEF v
<1>7. Matches(v, p)
  BY <1>4, <1>6 DEF Matches
<1> QED
  BY <1>5, <1>7 DEF v

\* A sequence has the length of its domain.
LEMMA LengthOfDomain ==
    ASSUME NEW S, NEW f, NEW n \in Nat, DOMAIN f = 1..n, f = [i \in 1..n |-> f[i]],
           \A i \in 1..n : f[i] \in S
    PROVE  f \in Seq(S) /\ Len(f) = n
<1>1. f \in [1..n -> S]
  OBVIOUS
<1>2. f \in Seq(S)
  BY <1>1
<1>3. DOMAIN f = 1..Len(f) /\ Len(f) \in Nat
  BY <1>2, LenProperties
<1> QED
  BY <1>2, <1>3

\* Every plan of a body, in its order.
LEMMA PlansMap ==
    /\ \A ps \in Seq(AddressPlanParts) :
         (\A i \in DOMAIN ps : AddressPlanToDomainOk(ps[i]))
           => ResolveAddressPlans(ps) \in Seq(AddressPlans) /\ AllMatch(ResolveAddressPlans(ps), ps)
    /\ \A ps \in Seq(TokenPlanParts) :
         (\A i \in DOMAIN ps : TokenPlanToDomainOk(ps[i]))
           => ResolveTokenPlans(ps) \in Seq(TokenPlans) /\ AllMatch(ResolveTokenPlans(ps), ps)
<1>1. ASSUME NEW ps \in Seq(AddressPlanParts), \A i \in DOMAIN ps : AddressPlanToDomainOk(ps[i])
      PROVE  ResolveAddressPlans(ps) \in Seq(AddressPlans) /\ AllMatch(ResolveAddressPlans(ps), ps)
  <2> DEFINE f == ResolveAddressPlans(ps)
  <2>1. /\ DOMAIN ps = 1..Len(ps) /\ Len(ps) \in Nat
        /\ \A i \in DOMAIN ps : ps[i] \in AddressPlanParts
    BY SeqIsFunction
  <2>2. /\ DOMAIN f = 1..Len(ps) /\ f = [i \in 1..Len(ps) |-> f[i]]
        /\ \A i \in DOMAIN ps : f[i] = AddressPlanToDomain(ps[i])
    BY <2>1 DEF ResolveAddressPlans
  <2> HIDE DEF f
  <2>3. \A i \in DOMAIN ps : f[i] \in AddressPlans /\ Matches(f[i], ps[i])
    BY <1>1, <2>1, <2>2, AddressPlanMaps
  <2>4. f \in Seq(AddressPlans) /\ Len(f) = Len(ps)
    BY <2>1, <2>2, <2>3, LengthOfDomain
  <2> QED
    BY <2>3, <2>4 DEF AllMatch, f
<1>2. ASSUME NEW ps \in Seq(TokenPlanParts), \A i \in DOMAIN ps : TokenPlanToDomainOk(ps[i])
      PROVE  ResolveTokenPlans(ps) \in Seq(TokenPlans) /\ AllMatch(ResolveTokenPlans(ps), ps)
  <2> DEFINE f == ResolveTokenPlans(ps)
  <2>1. /\ DOMAIN ps = 1..Len(ps) /\ Len(ps) \in Nat
        /\ \A i \in DOMAIN ps : ps[i] \in TokenPlanParts
    BY SeqIsFunction
  <2>2. /\ DOMAIN f = 1..Len(ps) /\ f = [i \in 1..Len(ps) |-> f[i]]
        /\ \A i \in DOMAIN ps : f[i] = TokenPlanToDomain(ps[i])
    BY <2>1 DEF ResolveTokenPlans
  <2> HIDE DEF f
  <2>3. \A i \in DOMAIN ps : f[i] \in TokenPlans /\ Matches(f[i], ps[i])
    BY <1>2, <2>1, <2>2, TokenPlanMaps
  <2>4. f \in Seq(TokenPlans) /\ Len(f) = Len(ps)
    BY <2>1, <2>2, <2>3, LengthOfDomain
  <2> QED
    BY <2>3, <2>4 DEF AllMatch, f
<1> QED
  BY <1>1, <1>2

\* Metrics are known, and their keys are those of the body.
LEMMA MetricsMap ==
    ASSUME NEW keys \in Seq(STRING), keys # <<>>, metricsFromOk(keys)
    PROVE  /\ metricsFrom(keys) \in Seq(KnownMetrics) \ {<<>>}
           /\ metricKeys(metricsFrom(keys)) = keys
<1> DEFINE f == metricsFrom(keys)
<1>1. keys = [i \in DOMAIN keys |-> keys[i]] /\ DOMAIN keys = 1..Len(keys) /\ Len(keys) \in Nat
  BY SeqIsFunction
<1>2. /\ DOMAIN f = 1..Len(keys) /\ f = [i \in 1..Len(keys) |-> f[i]]
      /\ \A i \in DOMAIN keys : f[i] = Metrics[keys[i]]
  BY <1>1 DEF metricsFrom, MetricByKey
<1>3. \A i \in DOMAIN keys : keys[i] \in DOMAIN Metrics
  BY DEF metricsFromOk, MetricByKeyOk
<1> HIDE DEF f
<1>4. \A i \in DOMAIN keys : f[i] \in KnownMetrics /\ f[i].key = keys[i]
  <2>1. ASSUME NEW k \in DOMAIN Metrics PROVE Metrics[k] \in KnownMetrics /\ Metrics[k].key = k
    BY CodecAssumption DEF KnownMetrics
  <2> QED
    BY <1>2, <1>3, <2>1
<1>5. f \in Seq(KnownMetrics) /\ Len(f) = Len(keys)
  BY <1>1, <1>2, <1>4, LengthOfDomain
<1>6. Len(keys) \in Nat \ {0}
  BY EmptySeq
<1>7. f # <<>>
  BY <1>5, <1>6
<1>8. metricKeys(f) = [i \in DOMAIN keys |-> keys[i]]
  BY <1>1, <1>2, <1>4 DEF metricKeys
<1> QED
  BY <1>1, <1>5, <1>7, <1>8 DEF f

\* What a run, or the input it is made from, is made of.
Content(x) ==
    /\ x.chain \in Nat \ {0} /\ x.strategy \in Strategies
    /\ x.metrics \in Seq(KnownMetrics) \ {<<>>}
    /\ x.addressPlans \in Seq(AddressPlans) /\ x.tokenPlans \in Seq(TokenPlans)

\* It is what the body asked for.
Asked(x, req) ==
    /\ x.chain = req.chain /\ metricKeys(x.metrics) = req.metrics
    /\ Matches(x.strategy, req.sampling)
    /\ AllMatch(x.addressPlans, req.addressPlans) /\ AllMatch(x.tokenPlans, req.tokenPlans)

\* The cron expression of a schedule, as it is kept.
CronOf(schedule) == [schedule.cron EXCEPT !.padded = FALSE]

\* The input of a body the routes take.
InputIs(in, req) ==
    /\ in \in [chain : {in.chain}, strategy : {in.strategy}, trigger : {in.trigger},
               schedule : {in.schedule}, metrics : {in.metrics},
               addressPlans : {in.addressPlans}, tokenPlans : {in.tokenPlans}]
    /\ Content(in) /\ Asked(in, req)
    /\ in.trigger \in RunTriggers
    /\ in.trigger.kind = "manual" =>
         /\ req.route = "runs" /\ req.trigger.kind = "manual"
         /\ in.trigger = [kind |-> "manual", user |-> req.trigger.user]
    /\ in.schedule # NoSchedule =>
         /\ Given(req.schedule) /\ in.schedule.cron = CronOf(req.schedule)
         /\ in.schedule.cron \in CronExprs
         /\ in.schedule = [cron |-> in.schedule.cron, timezone |-> in.schedule.timezone]
         /\ in.schedule.timezone \in STRING /\ in.schedule.timezone # ""
         /\ NewScheduleOk(in.schedule.cron, in.schedule.timezone)
    /\ Paired(in) => ~Unpaired(req)

\* The routes make of a body they take what it says.
LEMMA BodiesMap ==
    ASSUME NEW req, RequestOK(req), MappedOk(req)
    PROVE  InputIs(Mapped(req), req)
<1> DEFINE in == Mapped(req)
           trigger == IF req.route = "runs" THEN TriggerToDomain(req.trigger)
                      ELSE [kind |-> "scheduled", cronExpr |-> ScheduleToDomain(req.schedule).cron]
<1>1. /\ req.route \in {"runs", "schedules"} /\ req.chain \in Nat \ {0} /\ req.metrics \in Seq(STRING)
      /\ req.metrics # <<>> /\ req.sampling \in SamplingParts
      /\ req.schedule \in OrNull([cron : CronExprs, timezone : STRING])
      /\ req.addressPlans \in Seq(AddressPlanParts) /\ req.tokenPlans \in Seq(TokenPlanParts)
      /\ req.route = "runs" => req.trigger \in Triggers
  BY DEF RequestOK, OrNull
<1>2. InputOk(req) /\ (req.route = "schedules" => Given(req.schedule))
  BY <1>1 DEF MappedOk, scheduleRequestToUseCaseOk
<1>3. in = [chain |-> req.chain, strategy |-> SamplingToDomain(req.sampling), trigger |-> trigger,
            schedule |-> ScheduleToDomain(req.schedule), metrics |-> metricsFrom(req.metrics),
            addressPlans |-> ResolveAddressPlans(req.addressPlans),
            tokenPlans |-> ResolveTokenPlans(req.tokenPlans)]
  BY DEF Mapped, ToUseCase, scheduleRequestToUseCase, InputOf
<1> HIDE DEF in, trigger
<1>4. SamplingToDomain(req.sampling) \in Strategies /\ Matches(SamplingToDomain(req.sampling), req.sampling)
  BY <1>1, <1>2, SamplingMaps DEF InputOk
<1>5. /\ metricsFrom(req.metrics) \in Seq(KnownMetrics) \ {<<>>}
      /\ metricKeys(metricsFrom(req.metrics)) = req.metrics
  BY <1>1, <1>2, MetricsMap DEF InputOk
<1>6. /\ ResolveAddressPlans(req.addressPlans) \in Seq(AddressPlans)
      /\ AllMatch(ResolveAddressPlans(req.addressPlans), req.addressPlans)
      /\ ResolveTokenPlans(req.tokenPlans) \in Seq(TokenPlans)
      /\ AllMatch(ResolveTokenPlans(req.tokenPlans), req.tokenPlans)
  BY <1>1, <1>2, PlansMap DEF InputOk
<1>7. Content(in) /\ Asked(in, req)
  BY <1>1, <1>3, <1>4, <1>5, <1>6 DEF Content, Asked
<1>8. ASSUME Given(req.schedule)
      PROVE  /\ in.schedule.cron = CronOf(req.schedule) /\ in.schedule.cron \in CronExprs
             /\ NewScheduleOk(in.schedule.cron, in.schedule.timezone)
             /\ in.schedule = [cron |-> in.schedule.cron, timezone |-> in.schedule.timezone]
             /\ in.schedule.timezone \in STRING /\ in.schedule.timezone # ""
             /\ in.schedule # NoSchedule
  <2>1. /\ req.schedule \in [cron : CronExprs, timezone : STRING]
        /\ NewScheduleOk(req.schedule.cron, req.schedule.timezone)
    BY <1>1, <1>2, <1>8 DEF Given, OrNull, InputOk, ScheduleToDomainOk
  <2> DEFINE tz == IF req.schedule.timezone = "" THEN "UTC" ELSE req.schedule.timezone
             sch == in.schedule
  <2>3. tz \in {"UTC", req.schedule.timezone}
    OBVIOUS
  <2>2. sch = [cron |-> CronOf(req.schedule), timezone |-> tz]
    BY <1>3, <1>8 DEF ScheduleToDomain, NewSchedule, CronOf
  <2>9. tz \in STRING /\ tz # ""
    <3>1. req.schedule.timezone \in STRING
      BY <2>1
    <3>2. CASE req.schedule.timezone = ""
      BY <3>2, CodecAssumption
    <3>3. CASE req.schedule.timezone # ""
      BY <3>1, <3>3
    <3> QED
      BY <3>2, <3>3
  <2> HIDE DEF tz
  <2>10. /\ in.schedule = [cron |-> in.schedule.cron, timezone |-> in.schedule.timezone]
         /\ in.schedule.timezone \in STRING /\ in.schedule.timezone # ""
    <3>1. PICK u : u = in.schedule
      OBVIOUS
    <3>2. u = [cron |-> CronOf(req.schedule), timezone |-> tz]
      BY <2>2, <3>1
    <3>3. u.cron = CronOf(req.schedule) /\ u.timezone = tz
      BY <3>2
    <3>4. u = [cron |-> u.cron, timezone |-> u.timezone] /\ u.timezone \in STRING /\ u.timezone # ""
      BY <2>9, <3>2, <3>3, Zenon
    <3> QED
      BY <3>1, <3>4, Zenon
  <2>4. /\ CronOf(req.schedule) \in CronExprs
        /\ CronOf(req.schedule).fields = req.schedule.cron.fields
        /\ CronOf(req.schedule).clean = req.schedule.cron.clean
    BY <2>1 DEF CronOf, CronExprs
  <2>5. /\ validateCronShape(req.schedule.cron) /\ req.schedule.cron.fields \in {5, 6}
        /\ req.schedule.timezone \in Zones \cup {""}
    BY <2>1, Zenon DEF NewScheduleOk, validateCronShape
  <2>6. in.schedule.cron = CronOf(req.schedule) /\ in.schedule.timezone \in Zones \cup {""}
    <3>1. /\ in.schedule.cron = CronOf(req.schedule)
          /\ in.schedule.timezone \in {"UTC", req.schedule.timezone}
      BY <2>2, <2>3
    <3>2. "UTC" \in Zones
      BY CodecAssumption
    <3>3. CASE in.schedule.timezone = "UTC"
      BY <3>1, <3>2, <3>3
    <3>4. CASE in.schedule.timezone = req.schedule.timezone
      BY <2>5, <3>1, <3>4
    <3> QED
      BY <3>1, <3>3, <3>4
  <2>7. NewScheduleOk(in.schedule.cron, in.schedule.timezone)
    <3>1. validateCronShape(CronOf(req.schedule))
      BY <2>4, <2>5, Zenon DEF validateCronShape
    <3> QED
      BY <2>6, <3>1 DEF NewScheduleOk
  <2>8. in.schedule # NoSchedule
    <3>1. NoSchedule.cron.fields = 0
      BY DEF NoSchedule, EmptyCron
    <3>2. in.schedule.cron.fields \in {5, 6}
      BY <2>4, <2>5, <2>6, Zenon
    <3> QED
      BY <3>1, <3>2
  <2> QED
    BY <2>4, <2>6, <2>7, <2>8, <2>10, Zenon
<1>9. ~Given(req.schedule) => in.schedule = NoSchedule
  BY <1>3 DEF ScheduleToDomain
<1>10. in.schedule # NoSchedule =>
          /\ Given(req.schedule) /\ in.schedule.cron = CronOf(req.schedule)
          /\ in.schedule.cron \in CronExprs
          /\ in.schedule = [cron |-> in.schedule.cron, timezone |-> in.schedule.timezone]
          /\ in.schedule.timezone \in STRING /\ in.schedule.timezone # ""
          /\ NewScheduleOk(in.schedule.cron, in.schedule.timezone)
  BY <1>8, <1>9, Zenon
<1>11. in \in [chain : {in.chain}, strategy : {in.strategy}, trigger : {in.trigger},
               schedule : {in.schedule}, metrics : {in.metrics},
               addressPlans : {in.addressPlans}, tokenPlans : {in.tokenPlans}]
  BY <1>3
<1>12. CASE req.route = "runs"
  <2>1. in.trigger = TriggerToDomain(req.trigger) /\ req.trigger \in Triggers
    BY <1>1, <1>3, <1>12 DEF trigger
  <2>2. CASE req.trigger \in [kind : {"manual"}, user : STRING]
    <3>1. /\ req.trigger.kind = "manual" /\ in.trigger = [kind |-> "manual", user |-> req.trigger.user]
          /\ req.trigger.user \in STRING
      BY <2>1, <2>2 DEF TriggerToDomain
    <3>2. in.trigger \in RunTriggers
      BY <3>1 DEF RunTriggers
    <3>3. ~Unpaired(req)
      BY <3>1, <1>12 DEF Unpaired
    <3> QED
      BY <3>1, <3>2, <3>3, <1>7, <1>10, <1>11, <1>12, Zenon DEF InputIs, in
  <2>3. CASE req.trigger \in [kind : {"scheduled"}, cron : CronExprs]
    <3>1. /\ req.trigger.kind = "scheduled" /\ in.trigger = [kind |-> "scheduled", cronExpr |-> req.trigger.cron]
          /\ req.trigger.cron \in CronExprs
      BY <2>1, <2>3 DEF TriggerToDomain
    <3>2. in.trigger \in RunTriggers /\ in.trigger.kind = "scheduled"
      BY <3>1 DEF RunTriggers
    <3>3. Paired(in) => ~Unpaired(req)
      BY <1>9, <3>2 DEF Paired, Unpaired, Given
    <3>4. in.trigger.kind # "manual"
      BY <3>2
    <3> QED
      BY <3>2, <3>3, <3>4, <1>7, <1>10, <1>11, Zenon DEF InputIs, in
  <2>4. CASE req.trigger \in [kind : {"realtime"}, block : Nat]
    <3>1. /\ req.trigger.kind = "realtime" /\ in.trigger = [kind |-> "realtime", block |-> req.trigger.block]
          /\ req.trigger.block \in Nat
      BY <2>1, <2>4 DEF TriggerToDomain
    <3>2. in.trigger \in RunTriggers /\ in.trigger.kind = "realtime"
      BY <3>1 DEF RunTriggers
    <3>3. ~Unpaired(req) /\ in.trigger.kind # "manual"
      BY <3>1, <1>12 DEF Unpaired
    <3> QED
      BY <3>2, <3>3, <1>7, <1>10, <1>11, Zenon DEF InputIs, in
  <2> QED
    BY <2>1, <2>2, <2>3, <2>4 DEF Triggers, in
<1>13. CASE req.route = "schedules"
  <2>1. in.trigger = [kind |-> "scheduled", cronExpr |-> in.schedule.cron] /\ Given(req.schedule)
    BY <1>2, <1>3, <1>13 DEF trigger
  <2>4. in.schedule.cron \in CronExprs
    BY <2>1, <1>8, Zenon
  <2>2. in.trigger \in RunTriggers /\ in.trigger.kind # "manual"
    BY <2>1, <2>4 DEF RunTriggers
  <2>3. ~Unpaired(req)
    BY <2>1 DEF Unpaired, Given
  <2> QED
    BY <2>2, <2>3, <1>7, <1>10, <1>11, Zenon DEF InputIs, in
<1> QED
  BY <1>1, <1>12, <1>13
-----------------------------------------------------------------------------
(* From the input to the run, directly or by way of a schedule. *)

\* Two have the same content.
SameContent(x, y) ==
    /\ x.chain = y.chain /\ x.strategy = y.strategy /\ x.metrics = y.metrics
    /\ x.addressPlans = y.addressPlans /\ x.tokenPlans = y.tokenPlans

\* A run is not another for the times its columns keep.
LEMMA InColumnsContent ==
    ASSUME NEW r \in Runs
    PROVE  /\ InColumns(r) \in Runs /\ SameContent(InColumns(r), r)
           /\ InColumns(r).trigger = r.trigger /\ InColumns(r).createdAt = Timestamptz(r.createdAt)
BY InColumnsFacts, Zenon DEF SameContent

\* A run that nobody has executed.
Unexecuted(run) == run.status = "pending" /\ run.finishedAt = Null /\ run.summary = NoSummary

\* The new run of an input has its content and its trigger.
LEMMA RunOfIsRun ==
    ASSUME NEW r \in RunIds, NEW in, Content(in), in.trigger \in RunTriggers, now \in Nat
    PROVE  LET run == RunOf(r, in)
           IN  /\ run \in Runs /\ SameContent(run, in) /\ run.trigger = in.trigger
               /\ Unexecuted(run) /\ run.createdAt = now
<1> DEFINE run == RunOf(r, in)
<1>1. <<>> \in Seq(TokenPlans) /\ <<>> \in Seq(Subjects) /\ <<>> \in Seq(STRING)
  BY EmptySeq
<1>2. NoSummary \in Summaries
  BY <1>1 DEF NoSummary, Summaries, OrNull
<1>3. run = [id |-> r, chain |-> in.chain, strategy |-> in.strategy, metrics |-> in.metrics,
             trigger |-> in.trigger, status |-> "pending", createdAt |-> now,
             startedAt |-> Null, finishedAt |-> Null, errorMsg |-> "",
             addressPlans |-> in.addressPlans, tokenPlans |-> in.tokenPlans, summary |-> NoSummary]
  BY DEF RunOf, NewRunOf, NewRun, SetTokenPlans
<1> HIDE DEF run
<1>4. run \in Runs
  BY <1>2, <1>3 DEF Runs, Content, OrNull
<1>5. /\ SameContent(run, in) /\ run.trigger = in.trigger /\ Unexecuted(run) /\ run.createdAt = now
  BY <1>3 DEF SameContent, Unexecuted
<1> QED
  BY <1>4, <1>5 DEF run

\* The columns of a schedule are those of its job and its input.
RowIs(row, j, in) ==
    /\ DOMAIN row = {"job_id", "chain_id", "cron_expr", "timezone", "strategy_kind", "strategy_data",
                     "address_plans", "token_plans", "metrics", "active", "created_at"}
    /\ row.job_id = j /\ row.chain_id = in.chain
    /\ row.cron_expr = in.schedule.cron /\ row.timezone = in.schedule.timezone
    /\ row.strategy_kind = in.strategy.kind /\ row.strategy_data = marshalStrategy(in.strategy)
    /\ row.address_plans = marshalAddressPlans(in.addressPlans)
    /\ row.token_plans = marshalTokenPlans(in.tokenPlans) /\ row.metrics = metricKeys(in.metrics)

\* A schedule can be kept.
Keepable(schedule) ==
    /\ schedule.cron \in CronExprs /\ schedule.cron = CronOf(schedule)
    /\ NewScheduleOk(schedule.cron, schedule.timezone)
    /\ schedule = [cron |-> schedule.cron, timezone |-> schedule.timezone]
    /\ schedule.timezone \in STRING /\ schedule.timezone # ""

\* The row of a schedule reads back.
LEMMA ScheduleReadsBack ==
    ASSUME NEW in, NEW j, NEW row, Content(in), Keepable(in.schedule), RowIs(row, j, in)
    PROVE  /\ toScheduleRecordOk(row)
           /\ toScheduleRecord(row) =
                [jobID |-> j, chain |-> in.chain, schedule |-> in.schedule, strategy |-> in.strategy,
                 metrics |-> in.metrics, addressPlans |-> in.addressPlans,
                 tokenPlans |-> in.tokenPlans, createdAt |-> row.created_at, active |-> row.active]
<1>1. /\ row.job_id = j /\ row.chain_id = in.chain /\ row.cron_expr = in.schedule.cron
      /\ row.strategy_kind = in.strategy.kind /\ row.strategy_data = marshalStrategy(in.strategy)
      /\ row.address_plans = marshalAddressPlans(in.addressPlans)
      /\ row.token_plans = marshalTokenPlans(in.tokenPlans) /\ row.metrics = metricKeys(in.metrics)
      /\ row.timezone = in.schedule.timezone
  BY DEF RowIs
<1>2. /\ unmarshalStrategyOk(row.strategy_kind, row.strategy_data)
      /\ unmarshalStrategy(row.strategy_kind, row.strategy_data) = in.strategy
  BY <1>1, StrategyReadsBack DEF Content
<1>3. /\ unmarshalAddressPlansOk(row.address_plans) /\ unmarshalTokenPlansOk(row.token_plans)
      /\ unmarshalAddressPlans(row.address_plans) = in.addressPlans
      /\ unmarshalTokenPlans(row.token_plans) = in.tokenPlans
  BY <1>1, PlansReadBack DEF Content
<1>4. metricsFromOk(row.metrics) /\ metricsFrom(row.metrics) = in.metrics
  BY <1>1, MetricsReadBack DEF Content
<1>5. NewScheduleOk(row.cron_expr, row.timezone)
  BY <1>1 DEF Keepable, NewScheduleOk
<1>6. toScheduleRecordOk(row)
  BY <1>2, <1>3, <1>4, <1>5 DEF toScheduleRecordOk
<1>7. NewSchedule(row.cron_expr, row.timezone) = in.schedule
  <2>1. [in.schedule.cron EXCEPT !.padded = FALSE] = in.schedule.cron
    BY DEF Keepable, CronOf
  <2>2. in.schedule.timezone # ""
    BY DEF Keepable
  <2>3. NewSchedule(row.cron_expr, row.timezone)
          = [cron |-> in.schedule.cron, timezone |-> in.schedule.timezone]
    BY <1>1, <2>1, <2>2 DEF NewSchedule
  <2> QED
    BY <2>3 DEF Keepable
<1>8. toScheduleRecord(row) =
        [jobID |-> j, chain |-> in.chain, schedule |-> in.schedule, strategy |-> in.strategy,
         metrics |-> in.metrics, addressPlans |-> in.addressPlans,
         tokenPlans |-> in.tokenPlans, createdAt |-> row.created_at, active |-> row.active]
  BY <1>1, <1>2, <1>3, <1>4, <1>7 DEF toScheduleRecord
<1> QED
  BY <1>6, <1>8

\* The payload of a task reads back.
LEMMA TaskReadsBack ==
    ASSUME NEW in, NEW rec, Content(in), SameContent(rec, in)
    PROVE  LET p == buildScheduledRunTask(rec)
           IN  /\ PayloadInputOk(p) /\ SameContent(PayloadInput(p), in) /\ Content(PayloadInput(p))
               /\ PayloadInput(p) =
                    [chain |-> in.chain, metrics |-> in.metrics, strategy |-> in.strategy,
                     trigger |-> [kind |-> "scheduled", cronExpr |-> rec.schedule.cron],
                     addressPlans |-> in.addressPlans, tokenPlans |-> in.tokenPlans]
<1> DEFINE p == buildScheduledRunTask(rec)
<1>1. p = [chain_id |-> in.chain, strategy_kind |-> in.strategy.kind,
           strategy_data |-> marshalStrategy(in.strategy), metric_keys |-> metricKeys(in.metrics),
           address_plans_data |-> marshalAddressPlans(in.addressPlans),
           token_plans_data |-> marshalTokenPlans(in.tokenPlans),
           cron_expr |-> rec.schedule.cron]
  BY DEF buildScheduledRunTask, SameContent
<1> HIDE DEF p
<1>2. /\ p.chain_id = in.chain /\ Get(p, "chain_id", 0) = in.chain
      /\ Get(p, "strategy_kind", "") = in.strategy.kind
      /\ p.strategy_data = marshalStrategy(in.strategy)
      /\ Get(p, "metric_keys", <<>>) = metricKeys(in.metrics)
      /\ Get(p, "address_plans_data", <<>>) = marshalAddressPlans(in.addressPlans)
      /\ Get(p, "token_plans_data", <<>>) = marshalTokenPlans(in.tokenPlans)
      /\ p.cron_expr = rec.schedule.cron
  BY <1>1 DEF Get
<1>3. /\ unmarshalStrategyOk(in.strategy.kind, marshalStrategy(in.strategy))
      /\ unmarshalStrategy(in.strategy.kind, marshalStrategy(in.strategy)) = in.strategy
      /\ in.strategy.kind # ""
  <2>1. in.strategy \in Strategies
    BY DEF Content
  <2>2. in.strategy.kind \in {"fixed_list", "latest_n", "random", "sparse_steps"}
    BY <2>1 DEF Strategies
  <2> QED
    BY <2>1, <2>2, StrategyReadsBack
<1>4. /\ unmarshalAddressPlansOk(marshalAddressPlans(in.addressPlans))
      /\ unmarshalTokenPlansOk(marshalTokenPlans(in.tokenPlans))
      /\ unmarshalAddressPlans(marshalAddressPlans(in.addressPlans)) = in.addressPlans
      /\ unmarshalTokenPlans(marshalTokenPlans(in.tokenPlans)) = in.tokenPlans
  BY PlansReadBack DEF Content
<1>5. /\ metricsFromOk(metricKeys(in.metrics)) /\ metricsFrom(metricKeys(in.metrics)) = in.metrics
      /\ metricKeys(in.metrics) # <<>>
  <2>1. in.metrics \in Seq(KnownMetrics) /\ in.metrics # <<>>
    BY DEF Content
  <2> QED
    BY <2>1, MetricsReadBack
<1>6. UnmarshalScheduledRunPayloadOk(p)
  BY <1>2, <1>3, <1>5 DEF UnmarshalScheduledRunPayloadOk, Content
<1>7. PayloadInputOk(p)
  BY <1>2, <1>3, <1>4, <1>5, <1>6 DEF PayloadInputOk
<1>8. PayloadInput(p) = [chain |-> in.chain, metrics |-> in.metrics, strategy |-> in.strategy,
                         trigger |-> [kind |-> "scheduled", cronExpr |-> rec.schedule.cron],
                         addressPlans |-> in.addressPlans, tokenPlans |-> in.tokenPlans]
  BY <1>2, <1>3, <1>4, <1>5 DEF PayloadInput
<1>9. SameContent(PayloadInput(p), in) /\ Content(PayloadInput(p))
  BY <1>8 DEF SameContent, Content
<1> QED
  BY <1>7, <1>8, <1>9 DEF p
-----------------------------------------------------------------------------
(* The invariant of the path. *)

Bodies == UNION {Requests[c] : c \in Calls}

CallRecords ==
    [phase : {"idle", "mapped", "saved", "lost", "answered"}, req : OrNull(Bodies),
     input : OrNull({Mapped(q) : q \in {b \in Bodies : MappedOk(b)}}), run : OrNull(RunIds), job : OrNull(Jobs),
     code : {0, 201, 400, 500}]

\* How far a call is says what is left behind of it.
CallIs(call) ==
    /\ call.phase # "answered" => call.code = 0
    /\ call.phase \in {"mapped", "saved", "lost"} \/ call.run # Null =>
         /\ call.req \in Bodies /\ MappedOk(call.req)
         /\ call.input = Mapped(call.req) /\ Paired(call.input)
    /\ call.phase = "mapped" \/ call.code = 400 => call.run = Null
    /\ call.phase = "saved" \/ call.code = 201 => call.run # Null
    /\ call.job # Null <=> (call.code = 201 /\ call.input.trigger.kind = "scheduled")

\* The calls as records.
CallsTyped ==
    /\ now \in Nat /\ calls \in [Calls -> CallRecords]
    /\ \A c \in Calls : CallIs(calls[c])

\* Every row is the form of the run that was saved, which is what was asked for.
\* Only a run somebody has executed is swept.
Stored ==
    /\ DOMAIN saved = DOMAIN cause /\ DOMAIN cause \subseteq RunIds
    /\ \A r \in DOMAIN saved : saved[r] \in Runs /\ Asked(saved[r], cause[r])
    /\ DOMAIN runs \subseteq DOMAIN saved
    /\ \A r \in DOMAIN runs : runs[r] = toRunModel(saved[r])
    /\ \A r \in DOMAIN saved :
         saved[r].status = "pending" => Unexecuted(saved[r]) /\ r \in DOMAIN runs

\* The run is on its way to a worker, or was.
Sent(r) == ExecuteRunPayload(r) \in queue \/ r \in DOMAIN working

\* A trigger a worker may see.
TriggerIs(t, req) ==
    \/ /\ req.route = "runs" /\ req.trigger.kind = "manual"
       /\ t = [kind |-> "manual", user |-> req.trigger.user]
    \/ /\ req.schedule # Null
       /\ t = [kind |-> "scheduled", cronExpr |-> CronOf(req.schedule)]

\* A payload is the id of a run nobody has loaded, a worker's run is the one it
\* was asked for.
Dispatched ==
    /\ \A p \in queue :
         /\ p = ExecuteRunPayload(p.run_id) /\ p.run_id \in DOMAIN saved \ DOMAIN working
         /\ saved[p.run_id].status = "pending"
    /\ DOMAIN working \subseteq DOMAIN saved
    /\ \A r \in DOMAIN working :
         /\ working[r] \in Runs /\ Asked(working[r], cause[r])
         /\ saved[r].status = "pending" => working[r] = InColumns(saved[r])
    /\ \A r \in DOMAIN saved : Sent(r) => TriggerIs(saved[r].trigger, cause[r])
    /\ \A r \in DOMAIN working : TriggerIs(working[r].trigger, cause[r])
    /\ \A r \in DOMAIN saved : saved[r].status # "pending" => r \in DOMAIN working

\* The run of a call is what was asked for, and is sent when the answer says so.
CallOwns(call) ==
    /\ call.run \in DOMAIN saved /\ cause[call.run] = call.req
    /\ SameContent(saved[call.run], call.input) /\ saved[call.run].trigger = call.input.trigger
    /\ Sent(call.run) <=> (call.code = 201 /\ call.input.trigger.kind = "manual")

\* The run of a task is one a worker may see, and is not sent yet.
TaskOwns(r) == r \in DOMAIN saved /\ ~Sent(r) /\ TriggerIs(saved[r].trigger, cause[r])

\* Each call and each task has a run of its own.
Owned ==
    /\ \A c \in Calls : calls[c].run # Null => CallOwns(calls[c])
    /\ \A c, d \in Calls : c # d /\ calls[c].run # Null => calls[c].run # calls[d].run
    /\ \A f \in fires : f.run # Null => TaskOwns(f.run) /\ \A c \in Calls : calls[c].run # f.run
    /\ \A f, g \in fires : f # g /\ f.run # Null => f.run # g.run

\* What HandleScheduledRun makes of a payload.
PayloadIs(p, in) ==
    /\ PayloadInputOk(p) /\ Content(PayloadInput(p)) /\ SameContent(PayloadInput(p), in)
    /\ PayloadInput(p) = InputOfFires(in)

\* Every schedule, and every task of it, is the one some call asked for.
Recurs ==
    /\ DOMAIN schedules \subseteq Jobs
    /\ \A j \in DOMAIN schedules : \E c \in Calls : calls[c].job = j
    /\ \A c \in Calls : calls[c].job # Null =>
         /\ calls[c].job \in DOMAIN schedules /\ calls[c].input.schedule # NoSchedule
         /\ RowIs(schedules[calls[c].job], calls[c].job, calls[c].input)
    /\ \A f \in fires :
         /\ f \in [job : DOMAIN schedules, payload : {f.payload}, run : OrNull(RunIds)]
         /\ \A c \in Calls : calls[c].job = f.job => PayloadIs(f.payload, calls[c].input)

\* Every row of discrepancies is the form of an outcome.
Recorded == \A d \in diffs : \E r \in RunIds, o \in Outcomes : d = [of |-> <<r, o>>, row |-> DiffRow(r, o)]

\* The inductive invariant.
Way == CallsTyped /\ Stored /\ Dispatched /\ Owned /\ Recurs /\ Recorded

\* A function with one entry more.
LEMMA PutFacts ==
    ASSUME NEW f, NEW x, NEW v
    PROVE  /\ DOMAIN Put(f, x, v) = DOMAIN f \cup {x}
           /\ Put(f, x, v)[x] = v
           /\ \A y \in DOMAIN f : y # x => Put(f, x, v)[y] = f[y]
BY DEF Put

\* What is known of a call the server went on with.
LEMMA InputOfCall ==
    ASSUME CallsTyped, NEW c \in Calls,
           calls[c].phase \in {"mapped", "saved", "lost"} \/ calls[c].run # Null
    PROVE  /\ InputIs(calls[c].input, calls[c].req) /\ Paired(calls[c].input)
           /\ MappedOk(calls[c].req) /\ calls[c].input = Mapped(calls[c].req)
           /\ calls[c].req \in Bodies
<1>1. /\ calls[c].req \in Bodies /\ MappedOk(calls[c].req)
      /\ calls[c].input = Mapped(calls[c].req) /\ Paired(calls[c].input)
  BY DEF CallsTyped, CallIs
<1>2. RequestOK(calls[c].req)
  BY <1>1, RequestPathAssumption DEF Bodies
<1> QED
  BY <1>1, <1>2, BodiesMap

\* A kept schedule reads back with the same cron expression.
LEMMA InputKeepable ==
    ASSUME NEW in, NEW req, InputIs(in, req), in.schedule # NoSchedule
    PROVE  Keepable(in.schedule) /\ req.schedule # Null
<1>1. /\ in.schedule.cron = CronOf(req.schedule) /\ in.schedule.cron \in CronExprs
      /\ NewScheduleOk(in.schedule.cron, in.schedule.timezone) /\ req.schedule # Null
      /\ in.schedule = [cron |-> in.schedule.cron, timezone |-> in.schedule.timezone]
      /\ in.schedule.timezone \in STRING /\ in.schedule.timezone # ""
  BY DEF InputIs, Given
<1> DEFINE x == req.schedule.cron
           y == in.schedule.cron
<1>2. y = [x EXCEPT !.padded = FALSE] /\ DOMAIN y = {"fields", "clean", "padded"}
  BY <1>1 DEF CronOf, CronExprs
<1>3. DOMAIN x = {"fields", "clean", "padded"}
  BY <1>2
<1> HIDE DEF y
<1>4. [y EXCEPT !.padded = FALSE] = y
  BY <1>2, <1>3
<1>5. y = CronOf(in.schedule)
  BY <1>4 DEF CronOf, y
<1> QED
  BY <1>1, <1>5 DEF Keepable, y

\* A call after a step of the server.
Moved(call, phase, run, job, code) ==
    [phase |-> phase, req |-> call.req, input |-> call.input, run |-> run, job |-> job, code |-> code]

\* A call changed in some of its fields.
LEMMA MovedFacts ==
    ASSUME NEW call \in CallRecords, call.job = Null, call.code = 0
    PROVE  /\ \A r : [call EXCEPT !.phase = "saved", !.run = r] = Moved(call, "saved", r, Null, 0)
           /\ \A j : [call EXCEPT !.phase = "answered", !.code = 201, !.job = j]
                       = Moved(call, "answered", call.run, j, 201)
           /\ \A code : [call EXCEPT !.phase = "answered", !.code = code]
                       = Moved(call, "answered", call.run, Null, code)
           /\ [call EXCEPT !.phase = "lost"] = Moved(call, "lost", call.run, Null, 0)
<1> DEFINE Fields == {"phase", "req", "input", "run", "job", "code"}
<1>1. DOMAIN call = Fields
  BY DEF CallRecords
<1>2. ASSUME NEW r
      PROVE  [call EXCEPT !.phase = "saved", !.run = r] = Moved(call, "saved", r, Null, 0)
  <2> DEFINE e == [call EXCEPT !.phase = "saved", !.run = r]
  <2>1. /\ DOMAIN e = Fields /\ e = [x \in DOMAIN e |-> e[x]]
        /\ e.phase = "saved" /\ e.req = call.req /\ e.input = call.input /\ e.run = r
        /\ e.job = Null /\ e.code = 0
    BY <1>1
  <2> HIDE DEF e
  <2>2. e = Moved(call, "saved", r, Null, 0)
    BY <2>1 DEF Moved
  <2> QED
    BY <2>2 DEF e
<1>3. ASSUME NEW j
      PROVE  [call EXCEPT !.phase = "answered", !.code = 201, !.job = j] = Moved(call, "answered", call.run, j, 201)
  <2> DEFINE e == [call EXCEPT !.phase = "answered", !.code = 201, !.job = j]
  <2>1. /\ DOMAIN e = Fields /\ e = [x \in DOMAIN e |-> e[x]]
        /\ e.phase = "answered" /\ e.req = call.req /\ e.input = call.input /\ e.run = call.run
        /\ e.job = j /\ e.code = 201
    BY <1>1, ZenonT(60)
  <2> HIDE DEF e
  <2>2. e = Moved(call, "answered", call.run, j, 201)
    BY <2>1 DEF Moved
  <2> QED
    BY <2>2 DEF e
<1>4. ASSUME NEW code
      PROVE  [call EXCEPT !.phase = "answered", !.code = code] = Moved(call, "answered", call.run, Null, code)
  <2> DEFINE e == [call EXCEPT !.phase = "answered", !.code = code]
  <2>1. /\ DOMAIN e = Fields /\ e = [x \in DOMAIN e |-> e[x]]
        /\ e.phase = "answered" /\ e.req = call.req /\ e.input = call.input /\ e.run = call.run
        /\ e.job = Null /\ e.code = code
    BY <1>1
  <2> HIDE DEF e
  <2>2. e = Moved(call, "answered", call.run, Null, code)
    BY <2>1 DEF Moved
  <2> QED
    BY <2>2 DEF e
<1>5. [call EXCEPT !.phase = "lost"] = Moved(call, "lost", call.run, Null, 0)
  BY DEF Moved, CallRecords
<1> QED
  BY <1>2, <1>3, <1>4, <1>5

\* What the steps of the server do to a call.
LEMMA ServerSteps ==
    ASSUME CallsTyped, NEW c \in Calls, calls[c].phase \in {"mapped", "saved"}
    PROVE  /\ \A r \in RunIds : SaveRun(c, r)
                => calls' = [calls EXCEPT ![c] = Moved(calls[c], "saved", r, Null, 0)]
           /\ \A j \in Jobs : DispatchScheduled(c, j)
                => calls' = [calls EXCEPT ![c] = Moved(calls[c], "answered", calls[c].run, j, 201)]
           /\ \A code : Answer(c, code)
                => calls' = [calls EXCEPT ![c] = Moved(calls[c], "answered", calls[c].run, Null, code)]
           /\ ServerDies(c)
                => calls' = [calls EXCEPT ![c] = Moved(calls[c], "lost", calls[c].run, Null, 0)]
<1>1. /\ calls \in [Calls -> CallRecords] /\ calls[c] \in CallRecords
      /\ calls[c].code = 0 /\ calls[c].job = Null
  BY DEF CallsTyped, CallIs
<1> DEFINE call == calls[c]
<1>2. /\ \A r : [call EXCEPT !.phase = "saved", !.run = r] = Moved(call, "saved", r, Null, 0)
      /\ \A j : [call EXCEPT !.phase = "answered", !.code = 201, !.job = j]
                  = Moved(call, "answered", call.run, j, 201)
      /\ \A code : [call EXCEPT !.phase = "answered", !.code = code]
                  = Moved(call, "answered", call.run, Null, code)
      /\ [call EXCEPT !.phase = "lost"] = Moved(call, "lost", call.run, Null, 0)
  BY <1>1, MovedFacts
<1>3. DOMAIN calls = Calls
  BY <1>1
<1>4. \A r : [calls EXCEPT ![c].phase = "saved", ![c].run = r]
               = [calls EXCEPT ![c] = [call EXCEPT !.phase = "saved", !.run = r]]
  BY <1>3
<1>5. \A j : [calls EXCEPT ![c].phase = "answered", ![c].code = 201, ![c].job = j]
               = [calls EXCEPT ![c] = [call EXCEPT !.phase = "answered", !.code = 201, !.job = j]]
  BY <1>3, ZenonT(60)
<1>6. \A code : [calls EXCEPT ![c].phase = "answered", ![c].code = code]
               = [calls EXCEPT ![c] = [call EXCEPT !.phase = "answered", !.code = code]]
  BY <1>3
<1>7. [calls EXCEPT ![c].phase = "lost"] = [calls EXCEPT ![c] = [call EXCEPT !.phase = "lost"]]
  BY <1>3
<1>8. ASSUME NEW r \in RunIds, SaveRun(c, r)
      PROVE  calls' = [calls EXCEPT ![c] = Moved(calls[c], "saved", r, Null, 0)]
  BY <1>2, <1>4, <1>8 DEF SaveRun
<1>9. ASSUME NEW j \in Jobs, DispatchScheduled(c, j)
      PROVE  calls' = [calls EXCEPT ![c] = Moved(calls[c], "answered", calls[c].run, j, 201)]
  BY <1>2, <1>5, <1>9, ZenonT(60) DEF DispatchScheduled
<1>10. ASSUME NEW code, Answer(c, code)
      PROVE  calls' = [calls EXCEPT ![c] = Moved(calls[c], "answered", calls[c].run, Null, code)]
  BY <1>2, <1>6, <1>10 DEF Answer
<1>11. ASSUME ServerDies(c)
      PROVE  calls' = [calls EXCEPT ![c] = Moved(calls[c], "lost", calls[c].run, Null, 0)]
  BY <1>2, <1>7, <1>11 DEF ServerDies
<1> QED
  BY <1>8, <1>9, <1>10, <1>11

\* One call moves.
LEMMA OneCallMoves ==
    ASSUME CallsTyped, NEW c \in Calls, NEW call \in CallRecords, CallIs(call),
           calls' = [calls EXCEPT ![c] = call], now' = now
    PROVE  CallsTyped'
<1>1. calls' \in [Calls -> CallRecords] /\ now' \in Nat
  BY DEF CallsTyped
<1>2. \A d \in Calls : calls'[d] = IF d = c THEN call ELSE calls[d]
  BY DEF CallsTyped
<1>3. \A d \in Calls : CallIs(calls'[d])
  BY <1>2 DEF CallsTyped
<1> QED
  BY <1>1, <1>3 DEF CallsTyped

\* The calls stay what they are.
LEMMA CallsTypedStep ==
    ASSUME CallsTyped, [Next]_vars
    PROVE  CallsTyped'
<1>1. ASSUME NEW c \in Calls, NEW req \in Requests[c], Post(c, req) PROVE CallsTyped'
  <2>1. req \in Bodies
    BY DEF Bodies
  <2> DEFINE At(phase, input, code) ==
                 [phase |-> phase, req |-> req, input |-> input, run |-> Null, job |-> Null, code |-> code]
  <2> DEFINE call == [Idle EXCEPT !.req = req]
  <2>2. /\ DOMAIN call = {"phase", "req", "input", "run", "job", "code"}
        /\ call.req = req /\ call.input = Null
        /\ call.run = Null /\ call.job = Null
        /\ call.code = 0
    BY DEF Idle
  <2> HIDE DEF call
  <2>4. call \in CallRecords
    BY <2>1 DEF call, Idle, CallRecords, OrNull
  <2>3. now' = now
    BY <1>1 DEF Post
  <2>5. CASE ~MappedOk(req)
    <3> DEFINE new == At("answered", Null, 400)
    <3>1. PICK e : e = [call EXCEPT !.phase = "answered", !.code = 400] /\ calls' = [calls EXCEPT ![c] = e]
      BY <1>1, <2>5 DEF Post, call
    <3>2. e = [call EXCEPT !.phase = "answered", !.code = 400]
      BY <3>1
    <3>3. e = new
      <4>1. DOMAIN e = DOMAIN call /\ e = [x \in DOMAIN e |-> e[x]]
        BY <3>2, ZenonT(60)
      <4>2. e.phase = "answered" /\ e.code = 400
        BY <2>2, <3>2
      <4>3. e.req = req /\ e.input = Null /\ e.run = Null /\ e.job = Null
        BY <2>2, <3>2
      <4> QED
        BY <2>2, <4>1, <4>2, <4>3
    <3>4. new \in CallRecords
      BY <2>1, <2>5 DEF CallRecords, OrNull
    <3>5. CallIs(new)
      BY <2>1, <2>5 DEF CallIs, PairOk
    <3> HIDE DEF new
    <3> QED
      BY <2>3, <3>1, <3>3, <3>4, <3>5, OneCallMoves, ZenonT(60)
  <2>6. CASE MappedOk(req) /\ ~PairOk(Mapped(req))
    <3> DEFINE new == At("answered", Null, 500)
    <3>1. PICK e : e = [call EXCEPT !.phase = "answered", !.code = 500] /\ calls' = [calls EXCEPT ![c] = e]
      BY <1>1, <2>6 DEF Post, call
    <3>2. e = [call EXCEPT !.phase = "answered", !.code = 500]
      BY <3>1
    <3>3. e = new
      <4>1. DOMAIN e = DOMAIN call /\ e = [x \in DOMAIN e |-> e[x]]
        BY <3>2, ZenonT(60)
      <4>2. e.phase = "answered" /\ e.code = 500
        BY <2>2, <3>2
      <4>3. e.req = req /\ e.input = Null /\ e.run = Null /\ e.job = Null
        BY <2>2, <3>2
      <4> QED
        BY <2>2, <4>1, <4>2, <4>3
    <3>4. new \in CallRecords
      BY <2>1, <2>6 DEF CallRecords, OrNull
    <3>5. CallIs(new)
      BY <2>1, <2>6 DEF CallIs, PairOk
    <3> HIDE DEF new
    <3> QED
      BY <2>3, <3>1, <3>3, <3>4, <3>5, OneCallMoves, ZenonT(60)
  <2>7. CASE MappedOk(req) /\ PairOk(Mapped(req))
    <3> DEFINE new == At("mapped", Mapped(req), 0)
    <3>1. PICK e : e = [call EXCEPT !.phase = "mapped", !.input = Mapped(req)] /\ calls' = [calls EXCEPT ![c] = e]
      BY <1>1, <2>7 DEF Post, call
    <3>2. e = new
      BY <2>2, <3>1
    <3>3. new \in CallRecords
      BY <2>1, <2>7 DEF CallRecords, OrNull
    <3>4. CallIs(new)
      BY <2>1, <2>7 DEF CallIs, PairOk
    <3> HIDE DEF new
    <3> QED
      BY <2>3, <3>1, <3>2, <3>3, <3>4, OneCallMoves, ZenonT(60)
  <2> QED
    BY <2>5, <2>6, <2>7
<1>2. ASSUME NEW c \in Calls, NEW r \in RunIds, SaveRun(c, r) PROVE CallsTyped'
  <2> DEFINE call == Moved(calls[c], "saved", r, Null, 0)
  <2>1. calls[c] \in CallRecords /\ CallIs(calls[c]) /\ calls[c].phase = "mapped"
    BY <1>2 DEF CallsTyped, SaveRun
  <2>2. calls' = [calls EXCEPT ![c] = call] /\ now' = now
    BY <1>2, <2>1, ServerSteps DEF SaveRun
  <2>3. call \in CallRecords
    BY <2>1 DEF Moved, CallRecords, OrNull
  <2>4. r # Null
    BY RequestPathAssumption
  <2>5. CallIs(call)
    BY <2>1, <2>4 DEF Moved, CallIs
  <2> HIDE DEF call
  <2> QED
    BY <2>2, <2>3, <2>5, OneCallMoves, ZenonT(60)
<1>3. ASSUME NEW c \in Calls, NEW j \in Jobs, DispatchScheduled(c, j) PROVE CallsTyped'
  <2> DEFINE call == Moved(calls[c], "answered", calls[c].run, j, 201)
  <2>1. calls[c] \in CallRecords /\ CallIs(calls[c]) /\ calls[c].phase = "saved"
    BY <1>3 DEF CallsTyped, DispatchScheduled
  <2>2. calls' = [calls EXCEPT ![c] = call] /\ now' = now /\ calls[c].input.trigger.kind = "scheduled"
    BY <1>3, <2>1, ServerSteps, ZenonT(60) DEF DispatchScheduled
  <2>3. call \in CallRecords
    BY <2>1 DEF Moved, CallRecords, OrNull
  <2>4. j # Null
    BY RequestPathAssumption
  <2>5. CallIs(call)
    BY <2>1, <2>2, <2>4 DEF Moved, CallIs
  <2> HIDE DEF call
  <2> QED
    BY <2>2, <2>3, <2>5, OneCallMoves, ZenonT(60)
<1>4. ASSUME NEW c \in Calls, NEW code \in {201, 500}, Answer(c, code), now' = now,
             calls[c].phase \in {"mapped", "saved"}, code = 201 => calls[c].phase = "saved",
             code = 201 => calls[c].input.trigger.kind # "scheduled"
      PROVE  CallsTyped'
  <2> DEFINE call == Moved(calls[c], "answered", calls[c].run, Null, code)
  <2>1. calls[c] \in CallRecords /\ CallIs(calls[c])
    BY DEF CallsTyped
  <2>2. calls' = [calls EXCEPT ![c] = call]
    BY <1>4, ServerSteps
  <2>3. call \in CallRecords
    BY <2>1 DEF Moved, CallRecords, OrNull
  <2>4. CallIs(call)
    BY <1>4, <2>1 DEF Moved, CallIs
  <2>5. now' = now
    BY <1>4
  <2> HIDE DEF call
  <2> QED
    BY <2>2, <2>3, <2>4, <2>5, OneCallMoves, ZenonT(60)
<1>5. ASSUME NEW c \in Calls, ServerDies(c) PROVE CallsTyped'
  <2> DEFINE call == Moved(calls[c], "lost", calls[c].run, Null, 0)
  <2>1. calls[c] \in CallRecords /\ CallIs(calls[c]) /\ calls[c].phase \in {"mapped", "saved"}
    BY <1>5 DEF CallsTyped, ServerDies
  <2>2. calls' = [calls EXCEPT ![c] = call] /\ now' = now
    BY <1>5, <2>1, ServerSteps DEF ServerDies
  <2>3. call \in CallRecords
    BY <2>1 DEF Moved, CallRecords, OrNull
  <2>4. CallIs(call)
    BY <2>1 DEF Moved, CallIs
  <2> HIDE DEF call
  <2> QED
    BY <2>2, <2>3, <2>4, OneCallMoves, ZenonT(60)
<1>6. ASSUME NEW c \in Calls, SaveRunFails(c) PROVE CallsTyped'
  <2>1. Answer(c, 500) /\ now' = now /\ calls[c].phase = "mapped"
    BY <1>6 DEF SaveRunFails, Answer
  <2> QED
    BY <1>4, <2>1
<1>7. ASSUME NEW c \in Calls, DispatchManual(c) PROVE CallsTyped'
  BY <1>4, <1>7 DEF DispatchManual
<1>8. ASSUME NEW c \in Calls, DispatchRealtime(c) PROVE CallsTyped'
  BY <1>4, <1>8 DEF DispatchRealtime
<1>9. ASSUME NEW c \in Calls, DispatchFails(c) PROVE CallsTyped'
  BY <1>4, <1>9 DEF DispatchFails
<1>10. ASSUME UNCHANGED calls, now' \in Nat PROVE CallsTyped'
  BY <1>10 DEF CallsTyped
<1>11. now \in Nat
  BY DEF CallsTyped
<1>12. CASE Tick
  BY <1>10, <1>11, <1>12, RequestPathAssumption DEF Tick
<1>13. CASE UNCHANGED vars
  BY <1>10, <1>11, <1>13 DEF vars
<1>14. ASSUME NEW f, NEW r, HandleScheduledRun(f, r) PROVE CallsTyped'
  BY <1>10, <1>11, <1>14 DEF HandleScheduledRun
<1>15. ASSUME NEW r, NEW o, Finish(r, o) PROVE CallsTyped'
  BY <1>10, <1>11, <1>15 DEF Finish
<1>16. CASE \/ \E j \in Jobs : Fire(j) \/ CancelSchedule(j)
            \/ \E f \in fires : EnqueueScheduledRun(f) \/ EnqueueScheduledRunFails(f)
            \/ \E p \in queue : Load(p)
            \/ Sweep \/ StartReading \/ ReadPage
  BY <1>10, <1>11, <1>16
     DEF Fire, CancelSchedule, EnqueueScheduledRun, EnqueueScheduledRunFails, Load, Sweep, StartReading, ReadPage
<1> QED
  BY <1>1, <1>2, <1>3, <1>5, <1>6, <1>7, <1>8, <1>9, <1>12, <1>13, <1>14, <1>15, <1>16
     DEF Next, Server

\* What was asked for is a matter of content.
LEMMA AskedOfContent ==
    ASSUME NEW x, NEW in, NEW req, SameContent(x, in), Asked(in, req)
    PROVE  Asked(x, req)
BY DEF SameContent, Asked

\* What a task makes of its payload is what the request of its schedule asked for.
LEMMA FiredInput ==
    ASSUME CallsTyped, Recurs, NEW f \in fires
    PROVE  LET in == PayloadInput(f.payload)
               req == CauseOfJob(f.job)
           IN  /\ PayloadInputOk(f.payload) /\ Content(in) /\ in.trigger \in RunTriggers
               /\ Asked(in, req) /\ TriggerIs(in.trigger, req)
<1> DEFINE in == PayloadInput(f.payload)
<1>1. f.job \in DOMAIN schedules
  BY DEF Recurs
<1>2. PICK c \in Calls : calls[c].job = f.job /\ CauseOfJob(f.job) = calls[c].req
  <2>1. \E c \in Calls : calls[c].job = f.job
    BY <1>1 DEF Recurs
  <2> QED
    BY <2>1 DEF CauseOfJob
<1>3. calls[c].job # Null
  BY <1>1, <1>2, RequestPathAssumption DEF Recurs
<1>4. calls[c].run # Null
  BY <1>3 DEF CallsTyped, CallIs
<1>5. InputIs(calls[c].input, calls[c].req)
  BY <1>4, InputOfCall
<1>6. calls[c].input.schedule # NoSchedule
  BY <1>3 DEF Recurs
<1>7. /\ Given(calls[c].req.schedule) /\ calls[c].input.schedule.cron = CronOf(calls[c].req.schedule)
      /\ calls[c].input.schedule.cron \in CronExprs /\ Asked(calls[c].input, calls[c].req)
  BY <1>5, <1>6 DEF InputIs
<1>8. /\ PayloadInputOk(f.payload) /\ Content(in) /\ SameContent(in, calls[c].input)
      /\ in.trigger = [kind |-> "scheduled", cronExpr |-> calls[c].input.schedule.cron]
  <2>1. PayloadIs(f.payload, calls[c].input)
    BY <1>2 DEF Recurs
  <2>2. in = InputOfFires(calls[c].input)
    BY <2>1 DEF PayloadIs
  <2> HIDE DEF in
  <2>3. in.trigger = [kind |-> "scheduled", cronExpr |-> calls[c].input.schedule.cron]
    BY <2>2 DEF InputOfFires
  <2> QED
    BY <2>1, <2>3 DEF PayloadIs, in
<1>9. in.trigger \in RunTriggers /\ TriggerIs(in.trigger, calls[c].req)
  BY <1>7, <1>8 DEF RunTriggers, TriggerIs, Given
<1>10. Asked(in, calls[c].req)
  BY <1>7, <1>8, AskedOfContent
<1> QED
  BY <1>2, <1>8, <1>9, <1>10

\* What Finish makes of a run.
Finished(e, run, o) ==
    e = [run EXCEPT !.status = "completed", !.startedAt = now, !.finishedAt = now, !.summary = o.summary]

\* A run that is finished keeps its content.
LEMMA FinishedRun ==
    ASSUME NEW run \in Runs, NEW o \in Outcomes, now \in Nat, NEW e, Finished(e, run, o)
    PROVE  /\ e \in Runs /\ SameContent(e, run) /\ e.trigger = run.trigger
           /\ e.status = "completed" /\ e.createdAt = run.createdAt
<1>1. o.summary \in Summaries
  BY RequestPathAssumption DEF OutcomeOK, Summaries
<1>2. DOMAIN run = {"id", "chain", "strategy", "metrics", "trigger", "status", "createdAt", "startedAt",
                    "finishedAt", "errorMsg", "addressPlans", "tokenPlans", "summary"}
  BY DEF Runs
<1>3. DOMAIN e = DOMAIN run /\ e = [x \in DOMAIN e |-> e[x]]
  BY DEF Finished
<1>4. e.status = "completed" /\ e.startedAt = now /\ e.finishedAt = now /\ e.summary = o.summary
  BY <1>2 DEF Finished
<1>5. /\ e.id = run.id /\ e.chain = run.chain /\ e.strategy = run.strategy /\ e.metrics = run.metrics
      /\ e.trigger = run.trigger /\ e.createdAt = run.createdAt /\ e.errorMsg = run.errorMsg
      /\ e.addressPlans = run.addressPlans /\ e.tokenPlans = run.tokenPlans
  BY <1>2 DEF Finished
<1>6. e = [id |-> run.id, chain |-> run.chain, strategy |-> run.strategy, metrics |-> run.metrics,
           trigger |-> run.trigger, status |-> "completed", createdAt |-> run.createdAt,
           startedAt |-> now, finishedAt |-> now, errorMsg |-> run.errorMsg,
           addressPlans |-> run.addressPlans, tokenPlans |-> run.tokenPlans, summary |-> o.summary]
  BY <1>2, <1>3, <1>4, <1>5
<1>7. e \in Runs
  BY <1>1, <1>6 DEF Runs, OrNull
<1> QED
  BY <1>4, <1>5, <1>7 DEF SameContent

\* A new run is saved under a fresh id.
Enters(r, run, req) ==
    /\ runs' = Put(runs, r, toRunModel(run))
    /\ saved' = Put(saved, r, run)
    /\ cause' = Put(cause, r, req)

\* The tables with a run more.
LEMMA EnterFacts ==
    ASSUME Stored, NEW r \in Fresh, NEW run, NEW req, Enters(r, run, req)
    PROVE  /\ r \in RunIds \ DOMAIN saved /\ r # Null
           /\ DOMAIN saved' = DOMAIN saved \cup {r} /\ DOMAIN cause' = DOMAIN cause \cup {r}
           /\ DOMAIN runs' = DOMAIN runs \cup {r}
           /\ saved'[r] = run /\ cause'[r] = req /\ runs'[r] = toRunModel(run)
           /\ \A x \in DOMAIN saved : saved'[x] = saved[x] /\ cause'[x] = cause[x]
           /\ \A x \in DOMAIN runs : runs'[x] = runs[x]
<1>1. r \in RunIds \ DOMAIN cause /\ r # Null /\ DOMAIN saved = DOMAIN cause /\ DOMAIN runs \subseteq DOMAIN saved
  BY RequestPathAssumption DEF Fresh, Stored
<1>2. /\ DOMAIN runs' = DOMAIN runs \cup {r} /\ runs'[r] = toRunModel(run)
      /\ \A x \in DOMAIN runs : x # r => runs'[x] = runs[x]
  BY DEF Enters, Put
<1>3. /\ DOMAIN saved' = DOMAIN saved \cup {r} /\ saved'[r] = run
      /\ \A x \in DOMAIN saved : x # r => saved'[x] = saved[x]
  BY DEF Enters, Put
<1>4. /\ DOMAIN cause' = DOMAIN cause \cup {r} /\ cause'[r] = req
      /\ \A x \in DOMAIN cause : x # r => cause'[x] = cause[x]
  BY DEF Enters, Put
<1> QED
  BY <1>1, <1>2, <1>3, <1>4

\* A new run is stored as it should be.
LEMMA EnterStored ==
    ASSUME Stored, NEW r \in Fresh, NEW run \in Runs, NEW req, Enters(r, run, req),
           Asked(run, req), Unexecuted(run)
    PROVE  Stored'
<1>1. /\ r \in RunIds \ DOMAIN saved
      /\ DOMAIN saved' = DOMAIN saved \cup {r} /\ DOMAIN cause' = DOMAIN cause \cup {r}
      /\ DOMAIN runs' = DOMAIN runs \cup {r}
      /\ saved'[r] = run /\ cause'[r] = req /\ runs'[r] = toRunModel(run)
      /\ \A x \in DOMAIN saved : saved'[x] = saved[x] /\ cause'[x] = cause[x]
      /\ \A x \in DOMAIN runs : runs'[x] = runs[x]
  BY EnterFacts, ZenonT(60)
<1>2. DOMAIN saved' = DOMAIN cause' /\ DOMAIN cause' \subseteq RunIds /\ DOMAIN runs' \subseteq DOMAIN saved'
  BY <1>1 DEF Stored
<1>3. \A x \in DOMAIN saved' : saved'[x] \in Runs /\ Asked(saved'[x], cause'[x])
  BY <1>1 DEF Stored
<1>4. \A x \in DOMAIN runs' : runs'[x] = toRunModel(saved'[x])
  BY <1>1 DEF Stored
<1>5. \A x \in DOMAIN saved' :
        saved'[x].status = "pending" => Unexecuted(saved'[x]) /\ x \in DOMAIN runs'
  BY <1>1 DEF Stored
<1> QED
  BY <1>2, <1>3, <1>4, <1>5 DEF Stored

\* What SaveRun saves.
LEMMA SaveRunEnters ==
    ASSUME CallsTyped, NEW c \in Calls, NEW r \in RunIds, SaveRun(c, r)
    PROVE  LET run == RunOf(r, calls[c].input)
           IN  /\ r \in Fresh /\ Enters(r, run, calls[c].req)
               /\ run \in Runs /\ Unexecuted(run) /\ Asked(run, calls[c].req)
               /\ SameContent(run, calls[c].input) /\ run.trigger = calls[c].input.trigger
<1> DEFINE run == RunOf(r, calls[c].input)
<1>1. r \in Fresh /\ Enters(r, run, calls[c].req) /\ calls[c].phase = "mapped"
  BY DEF SaveRun, Enters
<1>2. InputIs(calls[c].input, calls[c].req)
  BY <1>1, InputOfCall
<1>3. /\ Content(calls[c].input) /\ Asked(calls[c].input, calls[c].req)
      /\ calls[c].input.trigger \in RunTriggers /\ now \in Nat
  BY <1>2 DEF InputIs, CallsTyped
<1>4. /\ run \in Runs /\ SameContent(run, calls[c].input) /\ run.trigger = calls[c].input.trigger
      /\ Unexecuted(run)
  BY <1>3, RunOfIsRun
<1> HIDE DEF run
<1>5. Asked(run, calls[c].req)
  BY <1>3, <1>4, AskedOfContent
<1> QED
  BY <1>1, <1>4, <1>5 DEF run

\* What HandleScheduledRun saves.
LEMMA ScheduledRunEnters ==
    ASSUME CallsTyped, Recurs, NEW f \in fires, NEW r \in RunIds, HandleScheduledRun(f, r)
    PROVE  LET run == RunOf(r, PayloadInput(f.payload))
               req == CauseOfJob(f.job)
           IN  /\ r \in Fresh /\ Enters(r, run, req)
               /\ run \in Runs /\ Unexecuted(run) /\ Asked(run, req) /\ TriggerIs(run.trigger, req)
<1> DEFINE in == PayloadInput(f.payload)
           run == RunOf(r, in)
           req == CauseOfJob(f.job)
<1>1. r \in Fresh /\ Enters(r, run, req)
  BY DEF HandleScheduledRun, Enters
<1>2. Content(in) /\ in.trigger \in RunTriggers /\ Asked(in, req) /\ TriggerIs(in.trigger, req)
  BY FiredInput
<1>3. now \in Nat
  BY DEF CallsTyped
<1> HIDE DEF in, req
<1>4. run \in Runs /\ SameContent(run, in) /\ run.trigger = in.trigger /\ Unexecuted(run)
  BY <1>2, <1>3, RunOfIsRun
<1> HIDE DEF run
<1>5. Asked(run, req) /\ TriggerIs(run.trigger, req)
  BY <1>2, <1>4, AskedOfContent
<1> QED
  BY <1>1, <1>4, <1>5 DEF run, in, req

\* A finished run is still what was asked for.
LEMMA FinishFacts ==
    ASSUME Way, NEW r \in RunIds, NEW o \in Outcomes, Finish(r, o)
    PROVE  /\ r \in DOMAIN saved /\ r \in DOMAIN runs /\ r \in DOMAIN working
           /\ saved' = [saved EXCEPT ![r] = saved'[r]]
           /\ runs' = [runs EXCEPT ![r] = toRunModel(saved'[r])]
           /\ saved'[r] \in Runs /\ SameContent(saved'[r], saved[r])
           /\ saved'[r].trigger = saved[r].trigger /\ saved'[r].status = "completed"
           /\ saved'[r].createdAt = Timestamptz(saved[r].createdAt)
<1>1. r \in DOMAIN working /\ saved[r].status = "pending"
  BY DEF Finish
<1>2. r \in DOMAIN saved /\ r \in DOMAIN runs /\ working[r] = InColumns(saved[r]) /\ saved[r] \in Runs
  BY <1>1 DEF Way, Stored, Dispatched
<1>3. PICK e : /\ Finished(e, InColumns(saved[r]), o)
               /\ saved' = [saved EXCEPT ![r] = e] /\ runs' = [runs EXCEPT ![r] = toRunModel(e)]
  BY <1>2 DEF Finish, Finished
<1>4. saved'[r] = e
  BY <1>2, <1>3
<1>5. now \in Nat
  BY DEF Way, CallsTyped
<1>6. /\ InColumns(saved[r]) \in Runs /\ SameContent(InColumns(saved[r]), saved[r])
      /\ InColumns(saved[r]).trigger = saved[r].trigger
      /\ InColumns(saved[r]).createdAt = Timestamptz(saved[r].createdAt)
  BY <1>2, InColumnsContent
<1>7. /\ e \in Runs /\ SameContent(e, InColumns(saved[r])) /\ e.trigger = saved[r].trigger
      /\ e.status = "completed" /\ e.createdAt = Timestamptz(saved[r].createdAt)
  BY <1>3, <1>5, <1>6, FinishedRun
<1>8. SameContent(e, saved[r])
  BY <1>6, <1>7 DEF SameContent
<1> QED
  BY <1>1, <1>2, <1>3, <1>4, <1>7, <1>8

\* What the sweep takes was executed.
LEMMA SweepFacts ==
    ASSUME Stored, Sweep
    PROVE  \E old \in SUBSET DOMAIN runs :
             /\ \A r \in old : saved[r].status # "pending"
             /\ DOMAIN runs' = DOMAIN runs \ old /\ \A r \in DOMAIN runs \ old : runs'[r] = runs[r]
             /\ reader' = [reader EXCEPT !.swept = IF reader.phase = "reading" THEN @ + Cardinality(old) ELSE @]
<1> DEFINE old == {r \in Present : runs[r].finished_at # Null /\ runs[r].finished_at < Timestamptz(now)}
<1>1. old \in SUBSET DOMAIN runs
  BY DEF Present
<1>2. ASSUME NEW r \in old PROVE saved[r].status # "pending"
  <2>1. r \in DOMAIN saved /\ runs[r] = toRunModel(saved[r]) /\ runs[r].finished_at # Null
    BY DEF Stored, Present
  <2>2. saved[r].finishedAt # Null
    BY <2>1 DEF toRunModel, Optional
  <2> QED
    BY <2>1, <2>2 DEF Stored, Unexecuted
<1>3. /\ runs' = Restrict(runs, Present \ old)
      /\ reader' = [reader EXCEPT !.swept = IF reader.phase = "reading" THEN @ + Cardinality(old) ELSE @]
  BY DEF Sweep
<1> HIDE DEF old
<1>4. DOMAIN runs' = DOMAIN runs \ old /\ \A r \in DOMAIN runs \ old : runs'[r] = runs[r]
  BY <1>3 DEF Restrict, Present
<1> QED
  BY <1>1, <1>2, <1>3, <1>4

\* The tables stay what they are.
LEMMA StoredStep ==
    ASSUME Way, [Next]_vars
    PROVE  Stored'
<1>0. CallsTyped /\ Stored /\ Recurs
  BY DEF Way
<1>1. ASSUME NEW c \in Calls, NEW r \in RunIds, SaveRun(c, r) PROVE Stored'
  BY <1>0, <1>1, SaveRunEnters, EnterStored
<1>2. ASSUME NEW f \in fires, NEW r \in RunIds, HandleScheduledRun(f, r) PROVE Stored'
  BY <1>0, <1>2, ScheduledRunEnters, EnterStored
<1>3. ASSUME NEW r \in RunIds, NEW o \in Outcomes, Finish(r, o) PROVE Stored'
  <2>1. /\ r \in DOMAIN saved /\ r \in DOMAIN runs
        /\ saved' = [saved EXCEPT ![r] = saved'[r]]
        /\ runs' = [runs EXCEPT ![r] = toRunModel(saved'[r])]
        /\ saved'[r] \in Runs /\ SameContent(saved'[r], saved[r]) /\ saved'[r].status = "completed"
    BY <1>3, FinishFacts
  <2>2. cause' = cause
    BY <1>3 DEF Finish
  <2>3. /\ DOMAIN saved' = DOMAIN saved /\ DOMAIN runs' = DOMAIN runs
        /\ \A x \in DOMAIN saved : x # r => saved'[x] = saved[x]
        /\ \A x \in DOMAIN runs : x # r => runs'[x] = runs[x]
        /\ runs'[r] = toRunModel(saved'[r])
    BY <2>1
  <2>4. Asked(saved'[r], cause[r])
    BY <1>0, <2>1, AskedOfContent DEF Stored
  <2>5. \A x \in DOMAIN saved' : saved'[x] \in Runs /\ Asked(saved'[x], cause'[x])
    BY <1>0, <2>1, <2>2, <2>3, <2>4 DEF Stored
  <2>6. \A x \in DOMAIN runs' : runs'[x] = toRunModel(saved'[x])
    BY <1>0, <2>3 DEF Stored
  <2>7. \A x \in DOMAIN saved' :
          saved'[x].status = "pending" => Unexecuted(saved'[x]) /\ x \in DOMAIN runs'
    BY <1>0, <2>1, <2>3 DEF Stored
  <2> QED
    BY <1>0, <2>2, <2>3, <2>5, <2>6, <2>7 DEF Stored
<1>4. CASE Sweep
  <2>1. PICK old \in SUBSET DOMAIN runs :
             /\ \A r \in old : saved[r].status # "pending"
             /\ DOMAIN runs' = DOMAIN runs \ old /\ \A r \in DOMAIN runs \ old : runs'[r] = runs[r]
    BY <1>0, <1>4, SweepFacts
  <2>2. saved' = saved /\ cause' = cause
    BY <1>4 DEF Sweep
  <2> QED
    BY <1>0, <2>1, <2>2 DEF Stored
<1>5. ASSUME UNCHANGED <<runs, saved, cause>> PROVE Stored'
  BY <1>0, <1>5 DEF Stored
<1>6. ASSUME NEW c \in Calls, NEW req \in Requests[c], Post(c, req) PROVE Stored'
  BY <1>5, <1>6 DEF Post
<1>7. ASSUME NEW c \in Calls, NEW j \in Jobs, DispatchScheduled(c, j) PROVE Stored'
  BY <1>5, <1>7 DEF DispatchScheduled
<1>8. ASSUME NEW c \in Calls,
             \/ SaveRunFails(c) \/ DispatchManual(c) \/ DispatchRealtime(c)
             \/ DispatchFails(c) \/ ServerDies(c)
      PROVE  Stored'
  BY <1>5, <1>8 DEF SaveRunFails, DispatchManual, DispatchRealtime, DispatchFails, ServerDies
<1>9. CASE \/ \E j \in Jobs : Fire(j) \/ CancelSchedule(j)
           \/ \E f \in fires : EnqueueScheduledRun(f) \/ EnqueueScheduledRunFails(f)
           \/ \E p \in queue : Load(p)
           \/ StartReading \/ ReadPage \/ Tick \/ UNCHANGED vars
  BY <1>5, <1>9
     DEF Fire, CancelSchedule, EnqueueScheduledRun, EnqueueScheduledRunFails, Load, StartReading, ReadPage,
         Tick, vars
<1> QED
  BY <1>1, <1>2, <1>3, <1>4, <1>6, <1>7, <1>8, <1>9 DEF Next, Server

\* A step of the server on a call that leaves its run and its schedule alone.
Kept(c) ==
    /\ \A d \in Calls : d # c => calls'[d] = calls[d]
    /\ calls'[c].run = calls[c].run /\ calls'[c].job = calls[c].job
    /\ calls[c].run # Null => calls'[c].req = calls[c].req /\ calls'[c].input = calls[c].input

\* Before a call is saved it has no run.
LEMMA PostKeeps ==
    ASSUME CallsTyped, NEW c \in Calls, NEW req \in Requests[c], Post(c, req)
    PROVE  Kept(c) /\ calls[c].run = Null
<1>1. calls \in [Calls -> CallRecords] /\ calls[c] = Idle
  BY DEF CallsTyped, Post
<1>2. calls[c].run = Null /\ calls[c].job = Null
  BY <1>1 DEF Idle
<1>3. \A d \in Calls : d # c => calls'[d] = calls[d]
  BY <1>1 DEF Post
<1> DEFINE call == [Idle EXCEPT !.req = req]
<1>4. /\ DOMAIN call = {"phase", "req", "input", "run", "job", "code"}
      /\ call.run = Null /\ call.job = Null
  BY DEF Idle
<1> HIDE DEF call
<1>5. calls'[c] \in {[call EXCEPT !.phase = "answered", !.code = 400],
                     [call EXCEPT !.phase = "answered", !.code = 500],
                     [call EXCEPT !.phase = "mapped", !.input = Mapped(req)]}
  <2>1. CASE ~MappedOk(req)
    <3>1. calls' = [calls EXCEPT ![c] = [call EXCEPT !.phase = "answered", !.code = 400]]
      BY <2>1 DEF Post, call
    <3> QED
      BY <1>1, <3>1
  <2>2. CASE MappedOk(req) /\ ~PairOk(Mapped(req))
    <3>1. calls' = [calls EXCEPT ![c] = [call EXCEPT !.phase = "answered", !.code = 500]]
      BY <2>2 DEF Post, call
    <3> QED
      BY <1>1, <3>1
  <2>3. CASE MappedOk(req) /\ PairOk(Mapped(req))
    <3>1. calls' = [calls EXCEPT ![c] = [call EXCEPT !.phase = "mapped", !.input = Mapped(req)]]
      BY <2>3 DEF Post, call
    <3> QED
      BY <1>1, <3>1
  <2> QED
    BY <2>1, <2>2, <2>3
<1>6. calls'[c].run = Null /\ calls'[c].job = Null
  <2>1. ASSUME NEW e, e = [call EXCEPT !.phase = "answered", !.code = 400] PROVE e.run = Null /\ e.job = Null
    BY <1>4, <2>1
  <2>2. ASSUME NEW e, e = [call EXCEPT !.phase = "answered", !.code = 500] PROVE e.run = Null /\ e.job = Null
    BY <1>4, <2>2
  <2>3. ASSUME NEW e, e = [call EXCEPT !.phase = "mapped", !.input = Mapped(req)] PROVE e.run = Null /\ e.job = Null
    BY <1>4, <2>3
  <2> QED
    BY <1>5, <2>1, <2>2, <2>3, ZenonT(60)
<1> QED
  BY <1>2, <1>3, <1>6 DEF Kept

\* The call moves.
Moves(c, phase, run, job, code) ==
    calls' = [calls EXCEPT ![c] = Moved(calls[c], phase, run, job, code)]

\* The call is changed and no other.
LEMMA MoveKeeps ==
    ASSUME CallsTyped, NEW c \in Calls, NEW phase, NEW run, NEW job, NEW code,
           Moves(c, phase, run, job, code)
    PROVE  /\ \A d \in Calls : d # c => calls'[d] = calls[d]
           /\ calls'[c].req = calls[c].req /\ calls'[c].input = calls[c].input
           /\ calls'[c].run = run /\ calls'[c].job = job /\ calls'[c].code = code
<1>1. DOMAIN calls = Calls
  BY DEF CallsTyped
<1>2. calls'[c] = Moved(calls[c], phase, run, job, code) /\ \A d \in Calls : d # c => calls'[d] = calls[d]
  BY <1>1 DEF Moves
<1> QED
  BY <1>2 DEF Moved

\* So do the other steps but those that save the run or its schedule.
LEMMA OthersKeep ==
    ASSUME CallsTyped, NEW c \in Calls,
           \/ SaveRunFails(c) \/ DispatchManual(c) \/ DispatchRealtime(c)
           \/ DispatchFails(c) \/ ServerDies(c)
    PROVE  /\ Kept(c) /\ calls[c].phase \in {"mapped", "saved"} /\ calls[c].job = Null
           /\ SaveRunFails(c) \/ DispatchFails(c) => calls'[c].code = 500
           /\ ServerDies(c) => calls'[c].code = 0
           /\ DispatchManual(c) \/ DispatchRealtime(c) => calls'[c].code = 201
<1>1. calls[c].phase \in {"mapped", "saved"}
  BY DEF SaveRunFails, DispatchManual, DispatchRealtime, DispatchFails, ServerDies
<1>2. calls[c].job = Null /\ calls[c].code = 0
  BY <1>1 DEF CallsTyped, CallIs
<1>3. \A code : Answer(c, code) => Kept(c) /\ calls'[c].code = code
  <2> TAKE code
  <2> HAVE Answer(c, code)
  <2>1. Moves(c, "answered", calls[c].run, Null, code)
    BY <1>1, ServerSteps DEF Moves
  <2>2. /\ \A d \in Calls : d # c => calls'[d] = calls[d]
        /\ calls'[c].req = calls[c].req /\ calls'[c].input = calls[c].input
        /\ calls'[c].run = calls[c].run /\ calls'[c].job = Null /\ calls'[c].code = code
    BY <2>1, MoveKeeps
  <2> QED
    BY <1>2, <2>2 DEF Kept
<1>4. ServerDies(c) => Kept(c) /\ calls'[c].code = 0
  <2> HAVE ServerDies(c)
  <2>1. Moves(c, "lost", calls[c].run, Null, 0)
    BY <1>1, ServerSteps DEF Moves
  <2>2. /\ \A d \in Calls : d # c => calls'[d] = calls[d]
        /\ calls'[c].req = calls[c].req /\ calls'[c].input = calls[c].input
        /\ calls'[c].run = calls[c].run /\ calls'[c].job = Null /\ calls'[c].code = 0
    BY <2>1, MoveKeeps
  <2> QED
    BY <1>2, <2>2 DEF Kept
<1>5. /\ SaveRunFails(c) \/ DispatchFails(c) => Answer(c, 500)
      /\ DispatchManual(c) \/ DispatchRealtime(c) => Answer(c, 201)
  BY DEF SaveRunFails, DispatchFails, DispatchManual, DispatchRealtime, Answer
<1>6. SaveRunFails(c) \/ DispatchFails(c) => Kept(c) /\ calls'[c].code = 500
  BY <1>3, <1>5
<1>7. DispatchManual(c) \/ DispatchRealtime(c) => Kept(c) /\ calls'[c].code = 201
  BY <1>3, <1>5
<1> QED
  BY <1>1, <1>2, <1>4, <1>6, <1>7

\* Schedules and tasks with the calls that asked for them.
LEMMA KeptRecurs ==
    ASSUME Recurs, UNCHANGED <<schedules, fires>>,
           \A d \in Calls : /\ calls'[d].job = calls[d].job
                            /\ calls[d].job # Null => calls'[d].input = calls[d].input
    PROVE  Recurs'
<1>1. \A j \in DOMAIN schedules : \E c \in Calls : calls'[c].job = j
  BY DEF Recurs
<1>2. \A c \in Calls : calls'[c].job # Null =>
         /\ calls'[c].job \in DOMAIN schedules /\ calls'[c].input.schedule # NoSchedule
         /\ RowIs(schedules[calls'[c].job], calls'[c].job, calls'[c].input)
  BY DEF Recurs
<1>3. ASSUME NEW f \in fires, NEW c \in Calls, calls'[c].job = f.job
      PROVE  PayloadIs(f.payload, calls'[c].input)
  <2>1. calls[c].job = f.job /\ f.job \in Jobs
    BY <1>3 DEF Recurs
  <2>2. calls[c].job # Null
    BY <2>1, RequestPathAssumption
  <2>3. calls'[c].input = calls[c].input
    BY <2>2
  <2> QED
    BY <2>1, <2>3 DEF Recurs
<1> QED
  BY <1>1, <1>2, <1>3 DEF Recurs

\* The tasks change.
LEMMA FiresRecur ==
    ASSUME Recurs, UNCHANGED <<calls, schedules>>,
           \A f \in fires' :
             /\ f \in [job : DOMAIN schedules, payload : {f.payload}, run : OrNull(RunIds)]
             /\ \A c \in Calls : calls[c].job = f.job => PayloadIs(f.payload, calls[c].input)
    PROVE  Recurs'
BY DEF Recurs

\* A schedule is added.
LEMMA DispatchRecurs ==
    ASSUME CallsTyped, Recurs, NEW c \in Calls, NEW j \in Jobs, DispatchScheduled(c, j)
    PROVE  Recurs'
<1> DEFINE in == calls[c].input
<1>1. /\ calls[c].phase = "saved" /\ in.schedule # NoSchedule /\ j \notin DOMAIN schedules
      /\ schedules' = Put(schedules, j, toScheduleModel(ScheduleOf(j, in))) /\ fires' = fires
  BY DEF DispatchScheduled
<1>2. Moves(c, "answered", calls[c].run, j, 201)
  BY <1>1, ServerSteps DEF Moves
<1>3. /\ \A d \in Calls : d # c => calls'[d] = calls[d]
      /\ calls'[c].input = in /\ calls'[c].job = j
  BY <1>2, MoveKeeps
<1>4. /\ DOMAIN schedules' = DOMAIN schedules \cup {j}
      /\ schedules'[j] = toScheduleModel(ScheduleOf(j, in))
      /\ \A x \in DOMAIN schedules : schedules'[x] = schedules[x]
  BY <1>1 DEF Put
<1>5. InputIs(in, calls[c].req)
  BY <1>1, InputOfCall
<1>6. Content(in) /\ in.schedule.timezone # Null
  BY <1>1, <1>5, NullAssumption DEF InputIs
<1>7. now \in Nat /\ calls[c].job = Null
  BY <1>1 DEF CallsTyped, CallIs
<1> HIDE DEF in
<1>8. RowIs(schedules'[j], j, in)
  <2> DEFINE s == ScheduleOf(j, in)
  <2>1. /\ s.jobID = j /\ s.chain = in.chain /\ s.schedule = in.schedule /\ s.strategy = in.strategy
        /\ s.metrics = in.metrics /\ s.addressPlans = in.addressPlans /\ s.tokenPlans = in.tokenPlans
    BY DEF ScheduleOf
  <2> HIDE DEF s
  <2>2. s.schedule.timezone # Null
    BY <1>6, <2>1
  <2>3. RowIs(toScheduleModel(s), j, in)
    BY <2>1, <2>2 DEF RowIs, toScheduleModel
  <2> QED
    BY <1>4, <2>3 DEF s
<1>9. DOMAIN schedules' \subseteq Jobs /\ \A x \in DOMAIN schedules' : \E d \in Calls : calls'[d].job = x
  <2>1. ASSUME NEW x \in DOMAIN schedules PROVE \E d \in Calls : calls'[d].job = x
    <3>1. PICK d \in Calls : calls[d].job = x
      BY DEF Recurs
    <3>2. d # c
      BY <1>7, <3>1, RequestPathAssumption DEF Recurs
    <3> QED
      BY <1>3, <3>1, <3>2
  <2> QED
    BY <1>3, <1>4, <2>1 DEF Recurs
<1>10. \A d \in Calls : calls'[d].job # Null =>
         /\ calls'[d].job \in DOMAIN schedules' /\ calls'[d].input.schedule # NoSchedule
         /\ RowIs(schedules'[calls'[d].job], calls'[d].job, calls'[d].input)
  <2>1. in.schedule # NoSchedule
    BY <1>1 DEF in
  <2> QED
    BY <1>3, <1>4, <1>8, <2>1 DEF Recurs
<1>11. ASSUME NEW f \in fires, NEW d \in Calls, calls'[d].job = f.job
       PROVE  PayloadIs(f.payload, calls'[d].input)
  <2>1. f.job # j
    BY <1>1 DEF Recurs
  <2> QED
    BY <1>3, <1>11, <2>1 DEF Recurs
<1>12. \A f \in fires : f \in [job : DOMAIN schedules', payload : {f.payload}, run : OrNull(RunIds)]
  BY <1>4 DEF Recurs
<1> QED
  BY <1>1, <1>9, <1>10, <1>11, <1>12 DEF Recurs

\* A task is enqueued with what its schedule holds.
LEMMA FireRecurs ==
    ASSUME CallsTyped, Recurs, NEW j \in Jobs, Fire(j)
    PROVE  Recurs'
<1> DEFINE record == toScheduleRecord(schedules[j])
           p == buildScheduledRunTask(record)
           new == [job |-> j, payload |-> p, run |-> Null]
<1>1. j \in DOMAIN schedules /\ fires' = fires \cup {new} /\ UNCHANGED <<calls, schedules>>
  BY DEF Fire, ActiveJobs
<1>2. ASSUME NEW c \in Calls, calls[c].job = j PROVE PayloadIs(p, calls[c].input)
  <2>1. calls[c].job # Null
    BY <1>2, RequestPathAssumption
  <2>2. calls[c].run # Null
    BY <2>1 DEF CallsTyped, CallIs
  <2>3. InputIs(calls[c].input, calls[c].req)
    BY <2>2, InputOfCall
  <2>4. calls[c].input.schedule # NoSchedule /\ RowIs(schedules[j], j, calls[c].input)
    BY <1>2, <2>1 DEF Recurs
  <2>5. Keepable(calls[c].input.schedule) /\ Content(calls[c].input)
    BY <2>3, <2>4, InputKeepable DEF InputIs
  <2>6. SameContent(record, calls[c].input) /\ record.schedule.cron = calls[c].input.schedule.cron
    BY <2>4, <2>5, ScheduleReadsBack DEF SameContent
  <2> HIDE DEF record
  <2> QED
    BY <2>5, <2>6, TaskReadsBack DEF PayloadIs, InputOfFires
<1> HIDE DEF p
<1>3. \A f \in fires' :
        /\ f \in [job : DOMAIN schedules, payload : {f.payload}, run : OrNull(RunIds)]
        /\ \A c \in Calls : calls[c].job = f.job => PayloadIs(f.payload, calls[c].input)
  <2>1. new \in [job : DOMAIN schedules, payload : {new.payload}, run : OrNull(RunIds)]
    BY <1>1 DEF OrNull
  <2> QED
    BY <1>1, <1>2, <2>1 DEF Recurs
<1> QED
  BY <1>1, <1>3, FiresRecur

\* A task with another run.
LEMMA TaskWithRun ==
    ASSUME NEW J, NEW R, NEW f, f \in [job : J, payload : {f.payload}, run : R], NEW r \in R,
           NEW g, g = [f EXCEPT !.run = r]
    PROVE  /\ g.job = f.job /\ g.payload = f.payload /\ g.run = r
           /\ g \in [job : J, payload : {g.payload}, run : R]
OBVIOUS

\* Schedules and tasks stay those somebody asked for.
LEMMA RecursStep ==
    ASSUME Way, [Next]_vars
    PROVE  Recurs'
<1>0. CallsTyped /\ Recurs
  BY DEF Way
<1>1. ASSUME NEW c \in Calls, Kept(c), UNCHANGED <<schedules, fires>> PROVE Recurs'
  <2>1. calls[c].job # Null => calls[c].run # Null
    BY <1>0 DEF CallsTyped, CallIs
  <2>2. \A d \in Calls : /\ calls'[d].job = calls[d].job
                         /\ calls[d].job # Null => calls'[d].input = calls[d].input
    BY <1>1, <2>1 DEF Kept
  <2> QED
    BY <1>0, <1>1, <2>2, KeptRecurs
<1>2. ASSUME NEW c \in Calls, NEW req \in Requests[c], Post(c, req) PROVE Recurs'
  <2>1. UNCHANGED <<schedules, fires>>
    BY <1>2 DEF Post
  <2> QED
    BY <1>0, <1>1, <1>2, <2>1, PostKeeps
<1>3. ASSUME NEW c \in Calls,
             \/ SaveRunFails(c) \/ DispatchManual(c) \/ DispatchRealtime(c)
             \/ DispatchFails(c) \/ ServerDies(c)
      PROVE  Recurs'
  <2>1. UNCHANGED <<schedules, fires>>
    BY <1>3 DEF SaveRunFails, DispatchManual, DispatchRealtime, DispatchFails, ServerDies
  <2>2. Kept(c)
    BY <1>0, <1>3, OthersKeep
  <2> QED
    BY <1>1, <2>1, <2>2
<1>4. ASSUME NEW c \in Calls, NEW r \in RunIds, SaveRun(c, r) PROVE Recurs'
  <2>1. UNCHANGED <<schedules, fires>> /\ calls[c].phase = "mapped"
    BY <1>4 DEF SaveRun
  <2>2. Moves(c, "saved", r, Null, 0)
    BY <1>0, <1>4, <2>1, ServerSteps DEF Moves
  <2>3. calls[c].job = Null
    BY <1>0, <2>1 DEF CallsTyped, CallIs
  <2>4. \A d \in Calls : /\ calls'[d].job = calls[d].job
                         /\ calls[d].job # Null => calls'[d].input = calls[d].input
    BY <1>0, <2>2, <2>3, MoveKeeps
  <2> QED
    BY <1>0, <2>1, <2>4, KeptRecurs
<1>5. ASSUME NEW c \in Calls, NEW j \in Jobs, DispatchScheduled(c, j) PROVE Recurs'
  BY <1>0, <1>5, DispatchRecurs
<1>6. ASSUME NEW j \in Jobs, Fire(j) PROVE Recurs'
  BY <1>0, <1>6, FireRecurs
<1>7. ASSUME NEW j \in Jobs, CancelSchedule(j) PROVE Recurs'
  <2>1. j \in DOMAIN schedules /\ UNCHANGED <<calls, fires>>
    BY <1>7 DEF CancelSchedule, ActiveJobs
  <2>2. PICK row : row = [schedules[j] EXCEPT !.active = FALSE] /\ schedules' = [schedules EXCEPT ![j] = row]
    BY <1>7 DEF CancelSchedule
  <2>3. /\ DOMAIN schedules' = DOMAIN schedules /\ schedules'[j] = row
        /\ \A x \in DOMAIN schedules : x # j => schedules'[x] = schedules[x]
    BY <2>1, <2>2
  <2>4. ASSUME NEW in, RowIs(schedules[j], j, in) PROVE RowIs(row, j, in)
    BY <2>2, <2>4 DEF RowIs
  <2>5. \A c \in Calls : calls[c].job # Null => RowIs(schedules'[calls[c].job], calls[c].job, calls[c].input)
    BY <1>0, <2>3, <2>4 DEF Recurs
  <2> QED
    BY <1>0, <2>1, <2>3, <2>5 DEF Recurs
<1>8. ASSUME NEW f \in fires, NEW R \in SUBSET OrNull(RunIds), UNCHANGED <<calls, schedules>>,
             fires' \subseteq fires \cup {[f EXCEPT !.run = r] : r \in R}
      PROVE  Recurs'
  <2>1. ASSUME NEW g \in fires'
        PROVE  /\ g \in [job : DOMAIN schedules, payload : {g.payload}, run : OrNull(RunIds)]
               /\ \A c \in Calls : calls[c].job = g.job => PayloadIs(g.payload, calls[c].input)
    <3>1. CASE g \in fires
      BY <1>0, <3>1 DEF Recurs
    <3>2. CASE g \notin fires
      <4>1. PICK r \in R : g = [f EXCEPT !.run = r]
        BY <1>8, <3>2
      <4>2. f \in [job : DOMAIN schedules, payload : {f.payload}, run : OrNull(RunIds)]
        BY <1>0 DEF Recurs
      <4>3. /\ g.job = f.job /\ g.payload = f.payload
            /\ g \in [job : DOMAIN schedules, payload : {g.payload}, run : OrNull(RunIds)]
        BY <4>1, <4>2, TaskWithRun
      <4> QED
        BY <1>0, <4>3 DEF Recurs
    <3> QED
      BY <3>1, <3>2
  <2> QED
    BY <1>0, <1>8, <2>1, FiresRecur
<1>9. ASSUME NEW f \in fires, NEW r \in RunIds, HandleScheduledRun(f, r) PROVE Recurs'
  <2>1. UNCHANGED <<calls, schedules>> /\ fires' = (fires \ {f}) \cup {[f EXCEPT !.run = r]}
    BY <1>9 DEF HandleScheduledRun
  <2>2. fires' \subseteq fires \cup {[f EXCEPT !.run = x] : x \in {r}} /\ {r} \in SUBSET OrNull(RunIds)
    BY <2>1 DEF OrNull
  <2> QED
    BY <1>8, <2>1, <2>2
<1>10. ASSUME NEW f \in fires, EnqueueScheduledRun(f) PROVE Recurs'
  <2>1. UNCHANGED <<calls, schedules>> /\ fires' = fires \ {f}
    BY <1>10 DEF EnqueueScheduledRun
  <2>2. fires' \subseteq fires \cup {[f EXCEPT !.run = x] : x \in {}} /\ {} \in SUBSET OrNull(RunIds)
    BY <2>1
  <2> QED
    BY <1>8, <2>1, <2>2
<1>11. ASSUME NEW f \in fires, EnqueueScheduledRunFails(f) PROVE Recurs'
  <2>1. UNCHANGED <<calls, schedules>> /\ fires' \subseteq fires \cup {[f EXCEPT !.run = Null]}
    BY <1>11 DEF EnqueueScheduledRunFails
  <2>2. fires' \subseteq fires \cup {[f EXCEPT !.run = x] : x \in {Null}} /\ {Null} \in SUBSET OrNull(RunIds)
    BY <2>1 DEF OrNull
  <2> QED
    BY <1>8, <2>1, <2>2
<1>12. ASSUME UNCHANGED <<calls, schedules, fires>> PROVE Recurs'
  BY <1>0, <1>12 DEF Recurs
<1>13. ASSUME NEW r \in RunIds, NEW o \in Outcomes, Finish(r, o) PROVE Recurs'
  BY <1>12, <1>13 DEF Finish
<1>14. CASE (\E p \in queue : Load(p)) \/ Sweep \/ StartReading \/ ReadPage \/ Tick \/ UNCHANGED vars
  BY <1>12, <1>14 DEF Load, Sweep, StartReading, ReadPage, Tick, vars
<1> QED
  BY <1>2, <1>3, <1>4, <1>5, <1>6, <1>7, <1>9, <1>10, <1>11, <1>13, <1>14 DEF Next, Server

\* Discrepancies stay forms of outcomes.
LEMMA RecordedStep ==
    ASSUME Recorded, [Next]_vars
    PROVE  Recorded'
<1>1. ASSUME NEW r \in RunIds, NEW o \in Outcomes, Finish(r, o) PROVE Recorded'
  <2>1. diffs' = diffs \cup {[of |-> <<r, o>>, row |-> DiffRow(r, o)]}
    BY <1>1 DEF Finish, DiffRow
  <2> QED
    BY <2>1 DEF Recorded
<1>2. CASE Sweep
  BY <1>2 DEF Sweep, Recorded
<1>3. ASSUME UNCHANGED diffs PROVE Recorded'
  BY <1>3 DEF Recorded
<1>4. ASSUME NEW c \in Calls, Server(c) PROVE Recorded'
  BY <1>3, <1>4 DEF Server, Post, SaveRun, SaveRunFails, DispatchManual, DispatchScheduled, DispatchRealtime,
                    DispatchFails, ServerDies
<1>5. ASSUME NEW f \in fires, NEW r \in RunIds, HandleScheduledRun(f, r) PROVE Recorded'
  BY <1>3, <1>5 DEF HandleScheduledRun
<1>6. CASE \/ \E j \in Jobs : Fire(j) \/ CancelSchedule(j)
           \/ \E f \in fires : EnqueueScheduledRun(f) \/ EnqueueScheduledRunFails(f)
           \/ \E p \in queue : Load(p)
           \/ StartReading \/ ReadPage \/ Tick \/ UNCHANGED vars
  BY <1>3, <1>6
     DEF Fire, CancelSchedule, EnqueueScheduledRun, EnqueueScheduledRunFails, Load, StartReading, ReadPage,
         Tick, vars
<1> QED
  BY <1>1, <1>2, <1>4, <1>5, <1>6 DEF Next

\* A payload is the id it carries.
LEMMA PayloadId ==
    \A r : ExecuteRunPayload(r).run_id = r
BY DEF ExecuteRunPayload

\* A new run is not sent yet.
LEMMA EnterDispatched ==
    ASSUME Stored, Dispatched, NEW r \in Fresh, NEW run, NEW req, Enters(r, run, req),
           run.status = "pending", UNCHANGED <<queue, working>>
    PROVE  Dispatched' /\ ~Sent(r)
<1>1. /\ r \in RunIds \ DOMAIN saved
      /\ DOMAIN saved' = DOMAIN saved \cup {r} /\ saved'[r] = run
      /\ \A x \in DOMAIN saved : saved'[x] = saved[x] /\ cause'[x] = cause[x]
  BY EnterFacts
<1>2. ~Sent(r)
  BY <1>1, PayloadId DEF Sent, Dispatched
<1>3. \A p \in queue' :
        /\ p = ExecuteRunPayload(p.run_id) /\ p.run_id \in DOMAIN saved' \ DOMAIN working'
        /\ saved'[p.run_id].status = "pending"
  BY <1>1 DEF Dispatched
<1>4. \A x \in DOMAIN working' :
        /\ x \in DOMAIN saved' /\ working'[x] \in Runs /\ Asked(working'[x], cause'[x])
        /\ saved'[x].status = "pending" => working'[x] = InColumns(saved'[x])
        /\ TriggerIs(working'[x].trigger, cause'[x])
  BY <1>1 DEF Dispatched
<1>5. \A x \in DOMAIN saved' : Sent(x)' => TriggerIs(saved'[x].trigger, cause'[x])
  BY <1>1, <1>2 DEF Dispatched, Sent
<1>6. \A x \in DOMAIN saved' : saved'[x].status # "pending" => x \in DOMAIN working'
  BY <1>1 DEF Dispatched
<1> QED
  BY <1>2, <1>3, <1>4, <1>5, <1>6 DEF Dispatched

\* A run nobody has sent is enqueued.
LEMMA EnqueueDispatched ==
    ASSUME Stored, Dispatched, NEW r \in DOMAIN saved, ~Sent(r), TriggerIs(saved[r].trigger, cause[r]),
           queue' = queue \cup {ExecuteRunPayload(r)}, UNCHANGED <<saved, cause, working>>
    PROVE  Dispatched'
<1>1. r \notin DOMAIN working /\ saved[r].status = "pending"
  BY DEF Sent, Dispatched
<1>2. \A p \in queue' :
        /\ p = ExecuteRunPayload(p.run_id) /\ p.run_id \in DOMAIN saved' \ DOMAIN working'
        /\ saved'[p.run_id].status = "pending"
  BY <1>1, PayloadId DEF Dispatched
<1>3. \A x \in DOMAIN saved' : Sent(x)' => TriggerIs(saved'[x].trigger, cause'[x])
  <2> SUFFICES ASSUME NEW x \in DOMAIN saved, Sent(x)' PROVE TriggerIs(saved[x].trigger, cause[x])
    OBVIOUS
  <2>1. Sent(x) \/ ExecuteRunPayload(x) = ExecuteRunPayload(r)
    BY DEF Sent
  <2>2. Sent(x) \/ x = r
    BY <2>1, PayloadId
  <2> QED
    BY <2>2 DEF Dispatched
<1> QED
  BY <1>2, <1>3 DEF Dispatched

\* A worker loads the run that was saved, as its row keeps it.
LEMMA LoadFacts ==
    ASSUME Stored, Dispatched, NEW p \in queue, Load(p)
    PROVE  /\ p = ExecuteRunPayload(p.run_id) /\ p.run_id \in DOMAIN saved \ DOMAIN working
           /\ queue' = queue \ {p} /\ DOMAIN working' = DOMAIN working \cup {p.run_id}
           /\ working'[p.run_id] = InColumns(saved[p.run_id])
           /\ \A x \in DOMAIN working : working'[x] = working[x]
           /\ UNCHANGED <<calls, fires, saved, cause>>
<1> DEFINE r == p.run_id
<1>1. /\ p = ExecuteRunPayload(r) /\ r \in DOMAIN saved \ DOMAIN working
      /\ saved[r].status = "pending"
  BY DEF Dispatched
<1>2. r \in DOMAIN runs /\ runs[r] = toRunModel(saved[r]) /\ saved[r] \in Runs
  BY <1>1 DEF Stored
<1>3. toRunOk(runs[r]) /\ toRun(runs[r]) = InColumns(saved[r])
  BY <1>2, RunReadsBack
<1>4. working' = Put(working, r, InColumns(saved[r])) /\ queue' = queue \ {p} /\ UNCHANGED <<calls, fires, saved, cause>>
  BY <1>3 DEF Load
<1>5. /\ DOMAIN working' = DOMAIN working \cup {r} /\ working'[r] = InColumns(saved[r])
      /\ \A x \in DOMAIN working : x # r => working'[x] = working[x]
  BY <1>4 DEF Put
<1> QED
  BY <1>1, <1>4, <1>5

\* What is sent stays what was asked for.
LEMMA DispatchedStep ==
    ASSUME Way, [Next]_vars
    PROVE  Dispatched'
<1>0. CallsTyped /\ Stored /\ Dispatched /\ Owned /\ Recurs
  BY DEF Way
<1>1. ASSUME NEW c \in Calls, NEW r \in RunIds, SaveRun(c, r) PROVE Dispatched'
  <2> DEFINE run == RunOf(r, calls[c].input)
  <2>1. r \in Fresh /\ Enters(r, run, calls[c].req) /\ Unexecuted(run)
    BY <1>0, <1>1, SaveRunEnters
  <2>2. UNCHANGED <<queue, working>>
    BY <1>1 DEF SaveRun
  <2> HIDE DEF run
  <2> QED
    BY <1>0, <2>1, <2>2, EnterDispatched DEF Unexecuted
<1>2. ASSUME NEW f \in fires, NEW r \in RunIds, HandleScheduledRun(f, r) PROVE Dispatched'
  <2> DEFINE run == RunOf(r, PayloadInput(f.payload))
  <2>1. r \in Fresh /\ Enters(r, run, CauseOfJob(f.job)) /\ Unexecuted(run)
    BY <1>0, <1>2, ScheduledRunEnters
  <2>2. UNCHANGED <<queue, working>>
    BY <1>2 DEF HandleScheduledRun
  <2> HIDE DEF run
  <2> QED
    BY <1>0, <2>1, <2>2, EnterDispatched DEF Unexecuted
<1>3. ASSUME NEW c \in Calls, DispatchManual(c) PROVE Dispatched'
  <2> DEFINE r == calls[c].run
  <2>1. /\ calls[c].phase = "saved" /\ calls[c].input.trigger.kind = "manual"
        /\ queue' = queue \cup {ExecuteRunPayload(r)} /\ UNCHANGED <<saved, cause, working>>
    BY <1>3 DEF DispatchManual
  <2>2. r # Null /\ calls[c].code = 0
    BY <1>0, <2>1 DEF CallsTyped, CallIs
  <2>3. InputIs(calls[c].input, calls[c].req)
    BY <1>0, <2>1, InputOfCall
  <2>4. /\ r \in DOMAIN saved /\ cause[r] = calls[c].req /\ ~Sent(r)
        /\ saved[r].trigger = calls[c].input.trigger
    BY <1>0, <2>2 DEF Owned, CallOwns
  <2>5. TriggerIs(saved[r].trigger, cause[r])
    BY <2>1, <2>3, <2>4 DEF InputIs, TriggerIs
  <2> HIDE DEF r
  <2> QED
    BY <1>0, <2>1, <2>4, <2>5, EnqueueDispatched
<1>4. ASSUME NEW f \in fires, f.run # Null, queue' = queue \cup {ExecuteRunPayload(f.run)},
             UNCHANGED <<saved, cause, working>>
      PROVE  Dispatched'
  <2>2. f.run \in DOMAIN saved /\ ~Sent(f.run) /\ TriggerIs(saved[f.run].trigger, cause[f.run])
    BY <1>0, <1>4 DEF Owned, TaskOwns
  <2> QED
    BY <1>0, <1>4, <2>2, EnqueueDispatched
<1>5. ASSUME NEW p \in queue, Load(p) PROVE Dispatched'
  <2> DEFINE r == p.run_id
  <2>1. /\ p = ExecuteRunPayload(r) /\ r \in DOMAIN saved \ DOMAIN working
        /\ queue' = queue \ {p} /\ DOMAIN working' = DOMAIN working \cup {r}
        /\ working'[r] = InColumns(saved[r]) /\ \A x \in DOMAIN working : working'[x] = working[x]
        /\ UNCHANGED <<saved, cause>>
    BY <1>0, <1>5, LoadFacts
  <2>2. \A q \in queue' :
          /\ q = ExecuteRunPayload(q.run_id) /\ q.run_id \in DOMAIN saved' \ DOMAIN working'
          /\ saved'[q.run_id].status = "pending"
    BY <1>0, <2>1 DEF Dispatched
  <2>3. Sent(r)
    BY <2>1 DEF Sent
  <2>4. TriggerIs(saved[r].trigger, cause[r]) /\ saved[r] \in Runs /\ Asked(saved[r], cause[r])
    BY <1>0, <2>1, <2>3 DEF Dispatched, Stored
  <2>8. /\ working'[r] \in Runs /\ Asked(working'[r], cause[r])
        /\ working'[r].trigger = saved[r].trigger
    <3>1. /\ InColumns(saved[r]) \in Runs /\ SameContent(InColumns(saved[r]), saved[r])
          /\ InColumns(saved[r]).trigger = saved[r].trigger
      BY <2>4, InColumnsContent
    <3> QED
      BY <2>1, <2>4, <3>1, AskedOfContent
  <2>5. \A x \in DOMAIN working' :
          /\ x \in DOMAIN saved' /\ working'[x] \in Runs /\ Asked(working'[x], cause'[x])
          /\ saved'[x].status = "pending" => working'[x] = InColumns(saved'[x])
          /\ TriggerIs(working'[x].trigger, cause'[x])
    BY <1>0, <2>1, <2>4, <2>8 DEF Dispatched
  <2>6. \A x \in DOMAIN saved' : Sent(x)' => TriggerIs(saved'[x].trigger, cause'[x])
    <3>1. \A x \in DOMAIN saved : Sent(x)' => Sent(x)
      BY <2>1, <2>3 DEF Sent
    <3> QED
      BY <1>0, <2>1, <3>1 DEF Dispatched
  <2>7. \A x \in DOMAIN saved' : saved'[x].status # "pending" => x \in DOMAIN working'
    BY <1>0, <2>1 DEF Dispatched
  <2> QED
    BY <2>2, <2>5, <2>6, <2>7 DEF Dispatched
<1>6. ASSUME NEW r \in RunIds, NEW o \in Outcomes, Finish(r, o) PROVE Dispatched'
  <2>1. /\ r \in DOMAIN saved /\ r \in DOMAIN working
        /\ saved' = [saved EXCEPT ![r] = saved'[r]]
        /\ saved'[r].trigger = saved[r].trigger /\ saved'[r].status = "completed"
    BY <1>6, FinishFacts
  <2>2. UNCHANGED <<queue, working, cause>>
    BY <1>6 DEF Finish
  <2>3. DOMAIN saved' = DOMAIN saved /\ \A x \in DOMAIN saved : x # r => saved'[x] = saved[x]
    BY <2>1
  <2>4. \A q \in queue' :
          /\ q = ExecuteRunPayload(q.run_id) /\ q.run_id \in DOMAIN saved' \ DOMAIN working'
          /\ saved'[q.run_id].status = "pending"
    BY <1>0, <2>1, <2>2, <2>3 DEF Dispatched
  <2>5. \A x \in DOMAIN working' :
          /\ x \in DOMAIN saved' /\ working'[x] \in Runs /\ Asked(working'[x], cause'[x])
          /\ saved'[x].status = "pending" => working'[x] = InColumns(saved'[x])
          /\ TriggerIs(working'[x].trigger, cause'[x])
    BY <1>0, <2>1, <2>2, <2>3 DEF Dispatched
  <2>6. \A x \in DOMAIN saved' : Sent(x)' => TriggerIs(saved'[x].trigger, cause'[x])
    BY <1>0, <2>1, <2>2, <2>3 DEF Dispatched, Sent
  <2>7. \A x \in DOMAIN saved' : saved'[x].status # "pending" => x \in DOMAIN working'
    BY <1>0, <2>1, <2>2, <2>3 DEF Dispatched
  <2> QED
    BY <2>4, <2>5, <2>6, <2>7 DEF Dispatched
<1>7. ASSUME UNCHANGED <<saved, cause, queue, working>> PROVE Dispatched'
  BY <1>0, <1>7 DEF Dispatched, Sent
<1>8. ASSUME NEW c \in Calls, NEW req \in Requests[c], Post(c, req) PROVE Dispatched'
  BY <1>7, <1>8 DEF Post
<1>9. ASSUME NEW c \in Calls, NEW j \in Jobs, DispatchScheduled(c, j) PROVE Dispatched'
  BY <1>7, <1>9 DEF DispatchScheduled
<1>10. ASSUME NEW c \in Calls, SaveRunFails(c) \/ DispatchRealtime(c) \/ DispatchFails(c) \/ ServerDies(c)
       PROVE  Dispatched'
  BY <1>7, <1>10 DEF SaveRunFails, DispatchRealtime, DispatchFails, ServerDies
<1>11. CASE \/ \E j \in Jobs : Fire(j) \/ CancelSchedule(j)
            \/ Sweep \/ StartReading \/ ReadPage \/ Tick \/ UNCHANGED vars
  BY <1>7, <1>11 DEF Fire, CancelSchedule, Sweep, StartReading, ReadPage, Tick, vars
<1>12. ASSUME NEW f \in fires, EnqueueScheduledRun(f) \/ EnqueueScheduledRunFails(f) PROVE Dispatched'
  BY <1>4, <1>7, <1>12 DEF EnqueueScheduledRun, EnqueueScheduledRunFails
<1> QED
  BY <1>1, <1>2, <1>3, <1>5, <1>6, <1>8, <1>9, <1>10, <1>11, <1>12 DEF Next, Server

\* Nothing is sent, saved or given away.
LEMMA QuietOwned ==
    ASSUME Owned, UNCHANGED <<calls, cause>>, DOMAIN saved' = DOMAIN saved,
           \A x \in DOMAIN saved : /\ SameContent(saved'[x], saved[x]) /\ saved'[x].trigger = saved[x].trigger
                                   /\ Sent(x)' <=> Sent(x),
           \A f \in fires' : f.run # Null => f \in fires
    PROVE  Owned'
<1>1. ASSUME NEW c \in Calls, calls[c].run # Null PROVE CallOwns(calls[c])'
  <2> DEFINE call == calls[c]
  <2>1. CallOwns(call)
    BY <1>1 DEF Owned
  <2>2. call.run \in DOMAIN saved /\ call' = call
    BY <2>1 DEF CallOwns
  <2>3. SameContent(saved'[call.run], call.input) /\ saved'[call.run].trigger = call.input.trigger
    BY <2>1, <2>2 DEF CallOwns, SameContent
  <2>4. Sent(call.run)' <=> (call.code = 201 /\ call.input.trigger.kind = "manual")
    BY <2>1, <2>2 DEF CallOwns
  <2> HIDE DEF call
  <2>5. CallOwns(call)'
    BY <2>1, <2>2, <2>3, <2>4 DEF CallOwns, Sent
  <2> QED
    BY <2>5 DEF call
<1>2. ASSUME NEW f \in fires', f.run # Null PROVE TaskOwns(f.run)' /\ \A c \in Calls : calls'[c].run # f.run
  <2>1. f \in fires /\ TaskOwns(f.run) /\ \A c \in Calls : calls[c].run # f.run
    BY <1>2 DEF Owned
  <2>2. ~Sent(f.run)'
    BY <2>1 DEF TaskOwns
  <2> QED
    BY <2>1, <2>2 DEF TaskOwns
<1>3. \A f, g \in fires' : f # g /\ f.run # Null => f.run # g.run
  BY DEF Owned
<1>4. \A c, d \in Calls : c # d /\ calls'[c].run # Null => calls'[c].run # calls'[d].run
  BY DEF Owned
<1> QED
  BY <1>1, <1>2, <1>3, <1>4 DEF Owned

\* One call changes, and not its run.
LEMMA KeptOwned ==
    ASSUME Owned, NEW c \in Calls, \A d \in Calls : d # c => calls'[d] = calls[d],
           calls'[c].run = calls[c].run,
           calls[c].run # Null => calls'[c].req = calls[c].req /\ calls'[c].input = calls[c].input,
           UNCHANGED <<saved, cause, fires>>,
           \A x \in DOMAIN saved : x # calls[c].run => (Sent(x)' <=> Sent(x)),
           calls[c].run # Null =>
             (Sent(calls[c].run)' <=> (calls'[c].code = 201 /\ calls[c].input.trigger.kind = "manual"))
    PROVE  Owned'
<1>1. ASSUME NEW d \in Calls, calls'[d].run # Null PROVE CallOwns(calls[d])'
  <2> DEFINE old == calls[d]
             new == calls'[d]
  <2>1. new.run = old.run /\ CallOwns(old) /\ new.req = old.req /\ new.input = old.input
    BY <1>1 DEF Owned
  <2>2. Sent(old.run)' <=> (new.code = 201 /\ new.input.trigger.kind = "manual")
    <3>1. CASE d = c
      BY <1>1, <2>1, <3>1
    <3>2. CASE d # c
      <4>1. old.run \in DOMAIN saved /\ old.run # calls[c].run /\ new = old
        BY <1>1, <2>1, <3>2 DEF Owned, CallOwns
      <4> QED
        BY <2>1, <4>1 DEF CallOwns
    <3> QED
      BY <3>1, <3>2
  <2>3. /\ new.run \in DOMAIN saved' /\ cause'[new.run] = new.req
        /\ SameContent(saved'[new.run], new.input) /\ saved'[new.run].trigger = new.input.trigger
    BY <2>1 DEF CallOwns
  <2> QED
    BY <2>1, <2>2, <2>3 DEF CallOwns
<1>2. \A a, d \in Calls : a # d /\ calls'[a].run # Null => calls'[a].run # calls'[d].run
  <2>1. \A d \in Calls : calls'[d].run = calls[d].run
    OBVIOUS
  <2> QED
    BY <2>1 DEF Owned
<1>3. ASSUME NEW f \in fires', f.run # Null PROVE TaskOwns(f.run)' /\ \A d \in Calls : calls'[d].run # f.run
  <2>1. f \in fires /\ TaskOwns(f.run) /\ \A d \in Calls : calls[d].run # f.run
    BY <1>3 DEF Owned
  <2>2. ~Sent(f.run)'
    BY <2>1 DEF TaskOwns
  <2> QED
    BY <2>1, <2>2 DEF TaskOwns
<1>4. \A f, g \in fires' : f # g /\ f.run # Null => f.run # g.run
  BY DEF Owned
<1> QED
  BY <1>1, <1>2, <1>3, <1>4 DEF Owned

\* A run enters: those of the others are as before.
LEMMA EnterOwned ==
    ASSUME Stored, Dispatched, Owned, NEW r \in Fresh, NEW run, NEW req, Enters(r, run, req),
           UNCHANGED <<queue, working>>
    PROVE  /\ r # Null /\ r \in DOMAIN saved' /\ saved'[r] = run /\ cause'[r] = req /\ ~Sent(r)'
           /\ \A c \in Calls : calls[c].run # r
           /\ \A f \in fires : f.run # r
           /\ \A c \in Calls : calls[c].run # Null =>
                 /\ calls[c].run \in DOMAIN saved' /\ cause'[calls[c].run] = calls[c].req
                 /\ SameContent(saved'[calls[c].run], calls[c].input)
                 /\ saved'[calls[c].run].trigger = calls[c].input.trigger
                 /\ Sent(calls[c].run) <=> (calls[c].code = 201 /\ calls[c].input.trigger.kind = "manual")
           /\ \A f \in fires : f.run # Null => TaskOwns(f.run)'
<1>1. /\ r \in RunIds \ DOMAIN saved /\ r # Null
      /\ DOMAIN saved' = DOMAIN saved \cup {r} /\ saved'[r] = run /\ cause'[r] = req
      /\ \A x \in DOMAIN saved : saved'[x] = saved[x] /\ cause'[x] = cause[x]
  BY EnterFacts, ZenonT(60)
<1>2. ~Sent(r)
  BY <1>1, PayloadId DEF Sent, Dispatched
<1>3. \A x : Sent(x)' <=> Sent(x)
  BY DEF Sent
<1>4. \A c \in Calls : calls[c].run # Null => calls[c].run \in DOMAIN saved /\ CallOwns(calls[c])
  BY DEF Owned, CallOwns
<1>5. \A f \in fires : f.run # Null => f.run \in DOMAIN saved /\ TaskOwns(f.run)
  BY DEF Owned, TaskOwns
<1>6. \A c \in Calls : calls[c].run # r
  BY <1>1, <1>4
<1>7. \A f \in fires : f.run # r
  BY <1>1, <1>5
<1>8. ASSUME NEW c \in Calls, calls[c].run # Null
      PROVE  /\ calls[c].run \in DOMAIN saved' /\ cause'[calls[c].run] = calls[c].req
             /\ SameContent(saved'[calls[c].run], calls[c].input)
             /\ saved'[calls[c].run].trigger = calls[c].input.trigger
             /\ Sent(calls[c].run) <=> (calls[c].code = 201 /\ calls[c].input.trigger.kind = "manual")
  <2>1. /\ calls[c].run \in DOMAIN saved /\ cause[calls[c].run] = calls[c].req
        /\ SameContent(saved[calls[c].run], calls[c].input)
        /\ saved[calls[c].run].trigger = calls[c].input.trigger
        /\ Sent(calls[c].run) <=> (calls[c].code = 201 /\ calls[c].input.trigger.kind = "manual")
    BY <1>4, <1>8 DEF CallOwns
  <2>2. saved'[calls[c].run] = saved[calls[c].run] /\ cause'[calls[c].run] = cause[calls[c].run]
    BY <1>1, <2>1
  <2> QED
    BY <1>1, <2>1, <2>2
<1>9. ASSUME NEW f \in fires, f.run # Null PROVE TaskOwns(f.run)'
  BY <1>1, <1>3, <1>5, <1>9 DEF TaskOwns
<1> QED
  BY <1>1, <1>2, <1>3, <1>6, <1>7, <1>8, <1>9

\* The call owns the run it has saved.
LEMMA SaveRunOwned ==
    ASSUME CallsTyped, Stored, Dispatched, Owned, NEW c \in Calls, NEW r \in RunIds, SaveRun(c, r)
    PROVE  Owned'
<1> DEFINE run == RunOf(r, calls[c].input)
<1>1. /\ r \in Fresh /\ Enters(r, run, calls[c].req)
      /\ SameContent(run, calls[c].input) /\ run.trigger = calls[c].input.trigger
  BY SaveRunEnters
<1>2. UNCHANGED <<queue, working, fires>> /\ calls[c].phase = "mapped"
  BY DEF SaveRun
<1>3. Moves(c, "saved", r, Null, 0)
  BY <1>2, ServerSteps DEF Moves
<1>4. /\ \A d \in Calls : d # c => calls'[d] = calls[d]
      /\ calls'[c].req = calls[c].req /\ calls'[c].input = calls[c].input
      /\ calls'[c].run = r /\ calls'[c].code = 0
  BY <1>3, MoveKeeps
<1> HIDE DEF run
<1>5. /\ r # Null /\ r \in DOMAIN saved' /\ saved'[r] = run /\ cause'[r] = calls[c].req /\ ~Sent(r)'
      /\ \A d \in Calls : calls[d].run # r
      /\ \A f \in fires : f.run # r
      /\ \A f \in fires : f.run # Null => TaskOwns(f.run)'
      /\ \A d \in Calls : calls[d].run # Null =>
            /\ calls[d].run \in DOMAIN saved' /\ cause'[calls[d].run] = calls[d].req
            /\ SameContent(saved'[calls[d].run], calls[d].input)
            /\ saved'[calls[d].run].trigger = calls[d].input.trigger
            /\ Sent(calls[d].run) <=> (calls[d].code = 201 /\ calls[d].input.trigger.kind = "manual")
  BY <1>1, <1>2, EnterOwned
<1>6. ASSUME NEW d \in Calls, calls'[d].run # Null PROVE CallOwns(calls[d])'
  <2>1. CASE d = c
    BY <1>1, <1>4, <1>5, <2>1 DEF CallOwns, Sent
  <2>2. CASE d # c
    <3>1. calls'[d] = calls[d]
      BY <1>4, <2>2
    <3> QED
      BY <1>2, <1>5, <1>6, <3>1 DEF CallOwns, Sent
  <2> QED
    BY <2>1, <2>2
<1>7. \A a, d \in Calls : a # d /\ calls'[a].run # Null => calls'[a].run # calls'[d].run
  BY <1>4, <1>5 DEF Owned
<1>8. \A f \in fires' : f.run # Null => TaskOwns(f.run)' /\ \A d \in Calls : calls'[d].run # f.run
  BY <1>2, <1>4, <1>5 DEF Owned
<1>9. \A f, g \in fires' : f # g /\ f.run # Null => f.run # g.run
  BY <1>2 DEF Owned
<1> QED
  BY <1>6, <1>7, <1>8, <1>9 DEF Owned

\* The task owns the run it has saved.
LEMMA ScheduledRunOwned ==
    ASSUME CallsTyped, Stored, Dispatched, Owned, Recurs, NEW f \in fires, NEW r \in RunIds,
           HandleScheduledRun(f, r)
    PROVE  Owned'
<1> DEFINE run == RunOf(r, PayloadInput(f.payload))
           req == CauseOfJob(f.job)
<1>1. r \in Fresh /\ Enters(r, run, req) /\ TriggerIs(run.trigger, req)
  BY ScheduledRunEnters
<1>2. UNCHANGED <<queue, working, calls>>
  BY DEF HandleScheduledRun
<1>3. PICK new : new = [f EXCEPT !.run = r] /\ fires' = (fires \ {f}) \cup {new}
  BY DEF HandleScheduledRun
<1>4. new.run = r
  BY <1>3, TaskWithRun DEF Recurs
<1> HIDE DEF run, req
<1>5. /\ r # Null /\ r \in DOMAIN saved' /\ saved'[r] = run /\ cause'[r] = req /\ ~Sent(r)'
      /\ \A d \in Calls : calls[d].run # r
      /\ \A g \in fires : g.run # r
      /\ \A g \in fires : g.run # Null => TaskOwns(g.run)'
      /\ \A d \in Calls : calls[d].run # Null =>
            /\ calls[d].run \in DOMAIN saved' /\ cause'[calls[d].run] = calls[d].req
            /\ SameContent(saved'[calls[d].run], calls[d].input)
            /\ saved'[calls[d].run].trigger = calls[d].input.trigger
            /\ Sent(calls[d].run) <=> (calls[d].code = 201 /\ calls[d].input.trigger.kind = "manual")
  BY <1>1, <1>2, EnterOwned
<1>6. ASSUME NEW d \in Calls, calls'[d].run # Null PROVE CallOwns(calls[d])'
  <2>1. calls'[d] = calls[d]
    BY <1>2
  <2> QED
    BY <1>2, <1>5, <1>6, <2>1 DEF CallOwns, Sent
<1>7. \A a, d \in Calls : a # d /\ calls'[a].run # Null => calls'[a].run # calls'[d].run
  BY <1>2 DEF Owned
<1>8. TaskOwns(r)'
  BY <1>1, <1>5 DEF TaskOwns
<1>9. ASSUME NEW g \in fires', g.run # Null
      PROVE  TaskOwns(g.run)' /\ \A d \in Calls : calls'[d].run # g.run
  <2>1. CASE g = new
    BY <1>2, <1>4, <1>5, <1>8, <2>1
  <2>2. CASE g \in fires
    BY <1>2, <1>5, <1>9, <2>2 DEF Owned
  <2> QED
    BY <1>3, <2>1, <2>2
<1>10. ASSUME NEW g \in fires', NEW h \in fires', g # h, g.run # Null PROVE g.run # h.run
  <2>1. CASE g \in fires /\ h \in fires
    BY <1>10, <2>1 DEF Owned
  <2>2. CASE g = new \/ h = new
    <3>1. \/ g = new /\ h \in fires
          \/ h = new /\ g \in fires
      BY <1>3, <1>10, <2>2
    <3> QED
      BY <1>4, <1>5, <3>1
  <2> QED
    BY <1>3, <2>1, <2>2
<1> QED
  BY <1>6, <1>7, <1>9, <1>10 DEF Owned

\* Runs stay with those that saved them.
LEMMA OwnedStep ==
    ASSUME Way, [Next]_vars
    PROVE  Owned'
<1>0. CallsTyped /\ Stored /\ Dispatched /\ Owned /\ Recurs
  BY DEF Way
<1>15. \A x \in DOMAIN saved : SameContent(saved[x], saved[x])
  BY DEF SameContent
<1>1. ASSUME NEW c \in Calls, NEW r \in RunIds, SaveRun(c, r) PROVE Owned'
  BY <1>0, <1>1, SaveRunOwned
<1>2. ASSUME NEW f \in fires, NEW r \in RunIds, HandleScheduledRun(f, r) PROVE Owned'
  BY <1>0, <1>2, ScheduledRunOwned
<1>3. ASSUME NEW c \in Calls, Kept(c), UNCHANGED <<saved, cause, fires, queue, working>>,
             calls[c].run # Null => /\ calls[c].code = 0
                                    /\ ~(calls'[c].code = 201 /\ calls[c].input.trigger.kind = "manual")
      PROVE  Owned'
  <2>1. /\ \A d \in Calls : d # c => calls'[d] = calls[d]
        /\ calls'[c].run = calls[c].run
        /\ calls[c].run # Null => calls'[c].req = calls[c].req /\ calls'[c].input = calls[c].input
    BY <1>3 DEF Kept
  <2>2. \A x \in DOMAIN saved : Sent(x)' <=> Sent(x)
    BY <1>3 DEF Sent
  <2>3. calls[c].run # Null => ~Sent(calls[c].run)
    BY <1>0, <1>3 DEF Owned, CallOwns
  <2>4. calls[c].run # Null => ~Sent(calls[c].run)'
    BY <1>3, <2>1, <2>3 DEF Sent
  <2> QED
    BY <1>0, <1>3, <2>1, <2>2, <2>4, KeptOwned
<1>4. ASSUME NEW c \in Calls, NEW req \in Requests[c], Post(c, req) PROVE Owned'
  <2>1. Kept(c) /\ calls[c].run = Null
    BY <1>0, <1>4, PostKeeps
  <2>2. UNCHANGED <<saved, cause, fires, queue, working>>
    BY <1>4 DEF Post
  <2> QED
    BY <1>3, <2>1, <2>2
<1>5. ASSUME NEW c \in Calls, SaveRunFails(c) \/ DispatchFails(c) \/ ServerDies(c) \/ DispatchRealtime(c)
      PROVE  Owned'
  <2>1. /\ Kept(c) /\ calls[c].phase \in {"mapped", "saved"}
        /\ calls'[c].code = 201 => DispatchRealtime(c)
    BY <1>0, <1>5, OthersKeep
  <2>2. UNCHANGED <<saved, cause, fires, queue, working>>
    BY <1>5 DEF SaveRunFails, DispatchFails, ServerDies, DispatchRealtime
  <2>3. calls[c].code = 0
    BY <1>0, <2>1 DEF CallsTyped, CallIs
  <2>4. DispatchRealtime(c) => calls[c].input.trigger.kind # "manual"
    BY DEF DispatchRealtime
  <2> QED
    BY <1>3, <2>1, <2>2, <2>3, <2>4
<1>6. ASSUME NEW c \in Calls, DispatchManual(c) PROVE Owned'
  <2> DEFINE r == calls[c].run
  <2>1. /\ calls[c].phase = "saved" /\ calls[c].input.trigger.kind = "manual"
        /\ queue' = queue \cup {ExecuteRunPayload(r)} /\ UNCHANGED <<saved, cause, fires, working>>
    BY <1>6 DEF DispatchManual
  <2>2. Kept(c) /\ calls'[c].code = 201
    BY <1>0, <1>6, OthersKeep
  <2>3. /\ \A d \in Calls : d # c => calls'[d] = calls[d]
        /\ calls'[c].run = r
        /\ r # Null => calls'[c].req = calls[c].req /\ calls'[c].input = calls[c].input
    BY <2>2 DEF Kept
  <2>4. ASSUME NEW x \in DOMAIN saved, x # r PROVE Sent(x)' <=> Sent(x)
    <3>1. ExecuteRunPayload(x) # ExecuteRunPayload(r)
      BY <2>4, PayloadId
    <3> QED
      BY <2>1, <3>1 DEF Sent
  <2>5. Sent(calls[c].run)'
    BY <2>1, <2>3 DEF Sent
  <2> QED
    BY <1>0, <2>1, <2>2, <2>3, <2>4, <2>5, KeptOwned
<1>7. ASSUME NEW c \in Calls, NEW j \in Jobs, DispatchScheduled(c, j) PROVE Owned'
  <2>1. /\ calls[c].phase = "saved" /\ calls[c].input.trigger.kind = "scheduled"
        /\ UNCHANGED <<saved, cause, fires, queue, working>>
    BY <1>7 DEF DispatchScheduled
  <2>2. Moves(c, "answered", calls[c].run, j, 201)
    BY <1>0, <1>7, <2>1, ServerSteps DEF Moves
  <2>3. /\ \A d \in Calls : d # c => calls'[d] = calls[d]
        /\ calls'[c].run = calls[c].run
        /\ calls'[c].req = calls[c].req /\ calls'[c].input = calls[c].input
    BY <1>0, <2>2, MoveKeeps
  <2>4. calls[c].code = 0 /\ calls[c].run # Null
    BY <1>0, <2>1 DEF CallsTyped, CallIs
  <2>5. ~Sent(calls[c].run)
    BY <1>0, <2>4 DEF Owned, CallOwns
  <2>6. ~Sent(calls[c].run)' /\ \A x \in DOMAIN saved : Sent(x)' <=> Sent(x)
    BY <2>1, <2>3, <2>5 DEF Sent
  <2> QED
    BY <1>0, <2>1, <2>3, <2>6, KeptOwned
<1>8. ASSUME NEW f \in fires, f.run # Null, queue' = queue \cup {ExecuteRunPayload(f.run)},
             \A g \in fires' : g.run # Null => g \in fires \ {f},
             UNCHANGED <<calls, saved, cause, working>>
      PROVE  Owned'
  <2>1. /\ f.run # Null /\ queue' = queue \cup {ExecuteRunPayload(f.run)}
        /\ \A g \in fires' : g.run # Null => g \in fires \ {f}
        /\ UNCHANGED <<calls, saved, cause, working>>
    BY <1>8
  <2>2. /\ f.run \in DOMAIN saved /\ \A c \in Calls : calls[c].run # f.run
        /\ \A g \in fires \ {f} : g.run # f.run
    BY <1>0, <2>1 DEF Owned, TaskOwns
  <2>3. ASSUME NEW x, x # f.run PROVE Sent(x)' <=> Sent(x)
    <3>1. ExecuteRunPayload(x) # ExecuteRunPayload(f.run)
      BY <2>3, PayloadId
    <3> QED
      BY <2>1, <3>1 DEF Sent
  <2>4. ASSUME NEW c \in Calls, calls'[c].run # Null PROVE CallOwns(calls[c])'
    <3>1. PICK x : x = calls[c].run /\ x # f.run
      BY <2>2
    <3>2. Sent(x)' <=> Sent(x)
      BY <2>3, <3>1
    <3>3. CallOwns(calls[c]) /\ calls'[c] = calls[c]
      BY <1>0, <2>1, <2>4 DEF Owned
    <3>4. Sent(calls[c].run)' <=> (calls[c].code = 201 /\ calls[c].input.trigger.kind = "manual")
      BY <2>1, <3>1, <3>2, <3>3 DEF CallOwns, Sent
    <3> QED
      BY <2>1, <3>3, <3>4 DEF CallOwns
  <2>5. ASSUME NEW g \in fires', g.run # Null
        PROVE  TaskOwns(g.run)' /\ \A c \in Calls : calls'[c].run # g.run
    <3>1. g \in fires /\ g.run # f.run /\ TaskOwns(g.run) /\ \A c \in Calls : calls[c].run # g.run
      BY <1>0, <2>1, <2>2, <2>5 DEF Owned
    <3>2. ~Sent(g.run)'
      BY <2>3, <3>1 DEF TaskOwns
    <3> QED
      BY <2>1, <3>1, <3>2 DEF TaskOwns
  <2>6. /\ \A a, d \in Calls : a # d /\ calls'[a].run # Null => calls'[a].run # calls'[d].run
        /\ \A g, h \in fires' : g # h /\ g.run # Null => g.run # h.run
    BY <1>0, <2>1 DEF Owned
  <2> QED
    BY <2>4, <2>5, <2>6 DEF Owned
<1>9. ASSUME UNCHANGED <<calls, cause, saved, queue, working>>, \A f \in fires' : f.run # Null => f \in fires
      PROVE  Owned'
  <2>1. \A x \in DOMAIN saved : Sent(x)' <=> Sent(x)
    BY <1>9 DEF Sent
  <2> QED
    BY <1>0, <1>15, <1>9, <2>1, QuietOwned
<1>10. ASSUME NEW f \in fires, EnqueueScheduledRunFails(f) PROVE Owned'
  <2>1. PICK new : new = [f EXCEPT !.run = Null] /\ fires' \subseteq (fires \ {f}) \cup {new}
    BY <1>10 DEF EnqueueScheduledRunFails
  <2>2. f \in [job : DOMAIN schedules, payload : {f.payload}, run : OrNull(RunIds)] /\ Null \in OrNull(RunIds)
    BY <1>0 DEF Recurs, OrNull
  <2>3. new.run = Null
    BY <2>1, <2>2, TaskWithRun
  <2>4. /\ f.run # Null /\ queue' \in {queue, queue \cup {ExecuteRunPayload(f.run)}}
        /\ UNCHANGED <<calls, cause, saved, working>>
    BY <1>10 DEF EnqueueScheduledRunFails
  <2>5. \A g \in fires' : g.run # Null => g \in fires \ {f}
    BY <2>1, <2>3
  <2> QED
    BY <1>8, <1>9, <2>4, <2>5
<1>16. ASSUME NEW f \in fires, EnqueueScheduledRun(f) PROVE Owned'
  BY <1>8, <1>16 DEF EnqueueScheduledRun
<1>11. ASSUME NEW j \in Jobs, Fire(j) PROVE Owned'
  <2>1. PICK new : new.run = Null /\ fires' = fires \cup {new}
    BY <1>11 DEF Fire
  <2>2. UNCHANGED <<calls, cause, saved, queue, working>>
    BY <1>11 DEF Fire
  <2> QED
    BY <1>9, <2>1, <2>2
<1>12. ASSUME NEW p \in queue, Load(p) PROVE Owned'
  <2>1. /\ p = ExecuteRunPayload(p.run_id) /\ p.run_id \in DOMAIN saved \ DOMAIN working
        /\ queue' = queue \ {p} /\ DOMAIN working' = DOMAIN working \cup {p.run_id}
        /\ UNCHANGED <<calls, fires, saved, cause>>
    BY <1>0, <1>12, LoadFacts
  <2>2. ASSUME NEW x \in DOMAIN saved PROVE Sent(x)' <=> Sent(x)
    <3>1. CASE x = p.run_id
      BY <2>1, <3>1 DEF Sent
    <3>2. CASE x # p.run_id
      <4>1. ExecuteRunPayload(x) # p
        BY <3>2, PayloadId
      <4> QED
        BY <2>1, <3>2, <4>1 DEF Sent
    <3> QED
      BY <3>1, <3>2
  <2> QED
    BY <1>0, <1>15, <2>1, <2>2, QuietOwned
<1>13. ASSUME NEW r \in RunIds, NEW o \in Outcomes, Finish(r, o) PROVE Owned'
  <2>1. /\ r \in DOMAIN saved /\ saved' = [saved EXCEPT ![r] = saved'[r]]
        /\ SameContent(saved'[r], saved[r]) /\ saved'[r].trigger = saved[r].trigger
    BY <1>13, FinishFacts
  <2>2. UNCHANGED <<calls, cause, queue, working, fires>>
    BY <1>13 DEF Finish
  <2>3. DOMAIN saved' = DOMAIN saved /\ \A x \in DOMAIN saved : x # r => saved'[x] = saved[x]
    BY <2>1
  <2>4. \A x \in DOMAIN saved : /\ SameContent(saved'[x], saved[x]) /\ saved'[x].trigger = saved[x].trigger
                                /\ Sent(x)' <=> Sent(x)
    BY <1>15, <2>1, <2>2, <2>3 DEF Sent
  <2> QED
    BY <1>0, <2>2, <2>3, <2>4, QuietOwned
<1>14. CASE \/ \E j \in Jobs : CancelSchedule(j)
            \/ Sweep \/ StartReading \/ ReadPage \/ Tick \/ UNCHANGED vars
  <2>1. UNCHANGED <<calls, cause, saved, queue, working, fires>>
    BY <1>14 DEF CancelSchedule, Sweep, StartReading, ReadPage, Tick, vars
  <2> QED
    BY <1>9, <2>1
<1> QED
  BY <1>1, <1>2, <1>4, <1>5, <1>6, <1>7, <1>10, <1>11, <1>12, <1>13, <1>14, <1>16 DEF Next, Server

\* At first nothing is stored.
LEMMA InitWay == Init => Way
<1> SUFFICES ASSUME Init PROVE Way
  OBVIOUS
<1>1. /\ now = 0 /\ calls = [c \in Calls |-> Idle] /\ diffs = {} /\ fires = {} /\ queue = {}
      /\ DOMAIN runs = {} /\ DOMAIN schedules = {} /\ DOMAIN working = {} /\ DOMAIN cause = {}
      /\ DOMAIN saved = {}
  BY DEF Init, NoEntry
<1>2. Idle \in CallRecords /\ CallIs(Idle) /\ Idle.run = Null /\ Idle.job = Null
  <2>1. /\ Idle.phase = "idle" /\ Idle.run = Null /\ Idle.job = Null /\ Idle.code = 0
    BY DEF Idle
  <2>2. Idle \in CallRecords
    BY DEF Idle, CallRecords, OrNull
  <2>3. CallIs(Idle)
    BY <2>1 DEF CallIs
  <2> QED
    BY <2>1, <2>2, <2>3
<1>3. CallsTyped
  BY <1>1, <1>2 DEF CallsTyped
<1>4. Stored
  BY <1>1 DEF Stored
<1>5. Dispatched
  BY <1>1 DEF Dispatched, Sent
<1>6. Owned
  BY <1>1, <1>2 DEF Owned
<1>7. Recurs
  BY <1>1, <1>2 DEF Recurs
<1>8. Recorded
  BY <1>1 DEF Recorded
<1> QED
  BY <1>3, <1>4, <1>5, <1>6, <1>7, <1>8 DEF Way

\* The invariant is inductive.
LEMMA WayStep == Way /\ [Next]_vars => Way'
<1> SUFFICES ASSUME Way, [Next]_vars PROVE Way'
  OBVIOUS
<1>1. CallsTyped'
  BY CallsTypedStep DEF Way
<1>2. Recorded'
  BY RecordedStep DEF Way
<1> QED
  BY <1>1, <1>2, StoredStep, DispatchedStep, OwnedStep, RecursStep DEF Way

\* It holds throughout.
LEMMA WayHolds == Spec => []Way
<1> QED
  BY InitWay, WayStep, PTL DEF Spec

\* A worker's run is what the request asked for.
LEMMA WayExecutes == Way => ExecutionMatchesRequest
<1> SUFFICES ASSUME Way, NEW r \in DOMAIN working
             PROVE  LET run == working[r]
                        req == cause[r]
                    IN  /\ run.chain = req.chain /\ metricKeys(run.metrics) = req.metrics
                        /\ Matches(run.strategy, req.sampling)
                        /\ AllMatch(run.addressPlans, req.addressPlans)
                        /\ AllMatch(run.tokenPlans, req.tokenPlans)
                        /\ \/ /\ req.route = "runs" /\ req.trigger.kind = "manual"
                              /\ run.trigger = [kind |-> "manual", user |-> req.trigger.user]
                           \/ /\ req.schedule # Null
                              /\ run.trigger = [kind |-> "scheduled",
                                                cronExpr |-> [req.schedule.cron EXCEPT !.padded = FALSE]]
  BY Zenon DEF ExecutionMatchesRequest
<1>1. Asked(working[r], cause[r]) /\ TriggerIs(working[r].trigger, cause[r])
  BY DEF Way, Dispatched
<1> QED
  BY <1>1, Zenon DEF Asked, TriggerIs, CronOf

\* Every row and every payload reads back.
LEMMA WayReadsBack == Way => StoredRowsReadBack
<1> SUFFICES ASSUME Way PROVE StoredRowsReadBack
  OBVIOUS
<1>0. CallsTyped /\ Stored /\ Recurs /\ Recorded
  BY DEF Way
<1>1. \A r \in Present : toRunOk(runs[r]) /\ toRun(runs[r]) = InColumns(saved[r])
  BY <1>0, RunReadsBack DEF Stored, Present
<1>2. ASSUME NEW j \in DOMAIN schedules
      PROVE  \E c \in Calls :
               LET row == schedules[j]
                   in == calls[c].input
               IN  /\ calls[c].job = j
                   /\ toScheduleRecordOk(row)
                   /\ toScheduleRecord(row) =
                        [ScheduleOf(j, in) EXCEPT !.createdAt = row.created_at, !.active = row.active]
                   /\ \A f \in fires : f.job = j =>
                        PayloadInputOk(f.payload) /\ PayloadInput(f.payload) = InputOfFires(in)
  <2>1. PICK c \in Calls : calls[c].job = j
    BY <1>0 DEF Recurs
  <2>2. calls[c].job # Null
    BY <1>0, <2>1, RequestPathAssumption DEF Recurs
  <2>3. calls[c].run # Null
    BY <1>0, <2>2 DEF CallsTyped, CallIs
  <2>4. InputIs(calls[c].input, calls[c].req)
    BY <1>0, <2>3, InputOfCall
  <2>5. calls[c].input.schedule # NoSchedule /\ RowIs(schedules[j], j, calls[c].input)
    BY <1>0, <2>1, <2>2 DEF Recurs
  <2>6. Keepable(calls[c].input.schedule) /\ Content(calls[c].input)
    BY <2>4, <2>5, InputKeepable DEF InputIs
  <2> DEFINE row == schedules[j]
             in == calls[c].input
  <2>7. [ScheduleOf(j, in) EXCEPT !.createdAt = row.created_at, !.active = row.active]
          = [jobID |-> j, chain |-> in.chain, schedule |-> in.schedule, strategy |-> in.strategy,
             metrics |-> in.metrics, addressPlans |-> in.addressPlans,
             tokenPlans |-> in.tokenPlans, createdAt |-> row.created_at, active |-> row.active]
    <3> HIDE DEF row, in
    <3>1. PICK a, b : a = row.created_at /\ b = row.active
      OBVIOUS
    <3>2. PICK s : s = ScheduleOf(j, in)
      OBVIOUS
    <3>3. /\ DOMAIN s = {"jobID", "chain", "schedule", "strategy", "metrics", "addressPlans",
                         "tokenPlans", "createdAt", "active"}
          /\ s.jobID = j /\ s.chain = in.chain /\ s.schedule = in.schedule /\ s.strategy = in.strategy
          /\ s.metrics = in.metrics /\ s.addressPlans = in.addressPlans /\ s.tokenPlans = in.tokenPlans
      BY <3>2 DEF ScheduleOf
    <3>4. PICK x : x = [s EXCEPT !.createdAt = a, !.active = b]
      OBVIOUS
    <3>5. /\ DOMAIN x = DOMAIN s /\ x = [k \in DOMAIN x |-> x[k]] /\ x.createdAt = a /\ x.active = b
          /\ x.jobID = s.jobID /\ x.chain = s.chain /\ x.schedule = s.schedule
          /\ x.strategy = s.strategy /\ x.metrics = s.metrics /\ x.addressPlans = s.addressPlans
          /\ x.tokenPlans = s.tokenPlans
      BY <3>3, <3>4
    <3>6. x = [jobID |-> j, chain |-> in.chain, schedule |-> in.schedule, strategy |-> in.strategy,
               metrics |-> in.metrics, addressPlans |-> in.addressPlans,
               tokenPlans |-> in.tokenPlans, createdAt |-> a, active |-> b]
      BY <3>3, <3>5
    <3> QED
      BY <3>1, <3>2, <3>4, <3>6
  <2>8. /\ toScheduleRecordOk(row)
        /\ toScheduleRecord(row) =
             [jobID |-> j, chain |-> in.chain, schedule |-> in.schedule, strategy |-> in.strategy,
              metrics |-> in.metrics, addressPlans |-> in.addressPlans,
              tokenPlans |-> in.tokenPlans, createdAt |-> row.created_at, active |-> row.active]
    BY <2>5, <2>6, ScheduleReadsBack
  <2>9. \A f \in fires : f.job = j =>
          PayloadInputOk(f.payload) /\ PayloadInput(f.payload) = InputOfFires(in)
    BY <1>0, <2>1 DEF Recurs, PayloadIs
  <2>10. /\ toScheduleRecordOk(row)
         /\ toScheduleRecord(row) =
              [ScheduleOf(j, in) EXCEPT !.createdAt = row.created_at, !.active = row.active]
    BY <2>7, <2>8
  <2> QED
    BY <2>1, <2>9, <2>10, Zenon
<1>3. \A f \in fires : f.job \in DOMAIN schedules
  BY <1>0 DEF Recurs
<1>4. ASSUME NEW d \in diffs
      PROVE  LET o == d.of[2]
                 read == toDiffRecord(d.row)
             IN  /\ toDiffRecordOk(d.row)
                 /\ read.discrepancy = [o.diff EXCEPT !.run = d.of[1], !.detectedAt = Timestamptz(@)]
                 /\ read.judgement = o.judgement
                 /\ read.meta = [o.meta EXCEPT !.tier = IF @ = 0 THEN o.diff.metric.tier ELSE @]
  <2>1. PICK r \in RunIds, o \in Outcomes : d = [of |-> <<r, o>>, row |-> DiffRow(r, o)]
    BY <1>0 DEF Recorded
  <2>2. d.of[1] = r /\ d.of[2] = o /\ d.row = DiffRow(r, o)
    BY <2>1
  <2>3. /\ toDiffRecordOk(DiffRow(r, o))
        /\ toDiffRecord(DiffRow(r, o)).discrepancy
             = [o.diff EXCEPT !.run = r, !.detectedAt = Timestamptz(@)]
        /\ toDiffRecord(DiffRow(r, o)).judgement = o.judgement
        /\ toDiffRecord(DiffRow(r, o)).meta
             = [o.meta EXCEPT !.tier = IF @ = 0 THEN o.diff.metric.tier ELSE @]
    BY DiffReadsBack
  <2> QED
    BY <2>2, <2>3, Zenon
<1> QED
  BY <1>1, <1>2, <1>3, <1>4, Zenon DEF StoredRowsReadBack

\* The answers are true.
LEMMA WayAnswers == Way => AnswersTellTheTruth
<1> SUFFICES ASSUME Way, NEW c \in Calls
             PROVE  LET call == calls[c] IN
                    /\ call.code = 400 \/ (call.phase # "idle" /\ Unpaired(call.req))
                          => call.run = Null /\ call.job = Null
                    /\ call.code = 201 =>
                         /\ call.run \in DOMAIN saved
                         /\ LET view == ToRunView(saved[call.run])
                            IN  /\ view.strategy_kind = call.req.sampling.kind
                                /\ view.metrics = call.req.metrics
                                /\ view.summary # Null => view.status = "completed"
                         /\ call.input.trigger.kind = "manual" <=>
                              \/ ExecuteRunPayload(call.run) \in queue
                              \/ call.run \in DOMAIN working
                         /\ call.input.trigger.kind = "scheduled" <=> call.job # Null
  BY Zenon DEF AnswersTellTheTruth
<1> DEFINE call == calls[c]
<1>0. CallsTyped /\ Stored /\ Owned
  BY DEF Way
<1>1. /\ call.code = 400 => call.run = Null
      /\ call.code = 201 => call.run # Null
      /\ call.job # Null <=> (call.code = 201 /\ call.input.trigger.kind = "scheduled")
  BY <1>0 DEF CallsTyped, CallIs
<1>2. call.run # Null => ~Unpaired(call.req)
  <2> HAVE call.run # Null
  <2>1. InputIs(call.input, call.req) /\ Paired(call.input)
    BY <1>0, InputOfCall
  <2> QED
    BY <2>1 DEF InputIs
<1>3. call.code = 400 \/ (call.phase # "idle" /\ Unpaired(call.req)) => call.run = Null /\ call.job = Null
  <2>1. call.code = 400 => call.code # 201
    OBVIOUS
  <2> QED
    BY <1>1, <1>2, <2>1
<1>4. ASSUME call.code = 201
      PROVE  /\ call.run \in DOMAIN saved
             /\ LET view == ToRunView(saved[call.run])
                IN  /\ view.strategy_kind = call.req.sampling.kind
                    /\ view.metrics = call.req.metrics
                    /\ view.summary # Null => view.status = "completed"
             /\ call.input.trigger.kind = "manual" <=>
                  \/ ExecuteRunPayload(call.run) \in queue
                  \/ call.run \in DOMAIN working
             /\ call.input.trigger.kind = "scheduled" <=> call.job # Null
  <2> DEFINE run == saved[call.run]
             view == ToRunView(run)
  <2>1. call.run # Null
    BY <1>1, <1>4
  <2>2. CallOwns(call)
    BY <1>0, <2>1 DEF Owned
  <2>3. /\ call.run \in DOMAIN saved
        /\ Sent(call.run) <=> call.input.trigger.kind = "manual"
    BY <1>4, <2>2 DEF CallOwns
  <2>4. /\ Asked(run, call.req) /\ run.status \in {"pending", "completed"}
        /\ run.status = "pending" => run.summary = NoSummary
    BY <1>0, <2>2 DEF Stored, CallOwns, Runs, Unexecuted
  <2> HIDE DEF run
  <2>5. /\ view.strategy_kind = run.strategy.kind /\ view.metrics = metricKeys(run.metrics)
        /\ view.status = run.status
        /\ run.summary = NoSummary => view.summary = Null
    BY DEF ToRunView
  <2>6. view.strategy_kind = call.req.sampling.kind /\ view.metrics = call.req.metrics
    BY <2>4, <2>5 DEF Asked, Matches
  <2>7. view.summary # Null => view.status = "completed"
    BY <2>4, <2>5
  <2>8. call.input.trigger.kind = "scheduled" <=> call.job # Null
    BY <1>1, <1>4
  <2> HIDE DEF view
  <2> QED
    BY <2>3, <2>6, <2>7, <2>8 DEF Sent, view, run
<1> QED
  BY <1>3, <1>4

\* Every row of runs, schedules and discrepancies, reduced to columns and JSON,
\* is read by the mappers as what was saved, its times to the microsecond, and
\* every payload of a fired task rebuilds the input its schedule was made of.
THEOREM RowsReadBack == Spec => []StoredRowsReadBack
  BY WayHolds, WayReadsBack, PTL

\* The worker executes exactly the plan the request asked for, whichever of
\* POST /runs and a fire of the schedule made the run.
THEOREM WorkersDoAsAsked == Spec => []ExecutionMatchesRequest
  BY WayHolds, WayExecutes, PTL

\* A refused request leaves nothing behind; an accepted one has its run saved,
\* answered for as asked, and dispatched or scheduled.
THEOREM AnswersAreTrue == Spec => []AnswersTellTheTruth
  BY WayHolds, WayAnswers, PTL
-----------------------------------------------------------------------------
(* GET /runs, page by page. *)

\* The stamps of the rows GET /runs orders by, the rows before one of them, and
\* the rows a reader past the first n has gone by without seeing them.
Stamps == [r \in Present |-> runs[r].created_at]
Above(t, r) == {s \in DOMAIN t : t[s] > t[r]}
Rank(t, r) == Cardinality(Above(t, r))
Passed(t, base, seen, n) == {r \in (base \cap DOMAIN t) \ seen : Rank(t, r) < n}
Distinct(t, base) == \A r, s \in base \cap DOMAIN t : r # s => t[r] # t[s]

\* Ranks are numbers.
LEMMA RankIsNat ==
    ASSUME NEW t, IsFiniteSet(DOMAIN t), NEW r
    PROVE  IsFiniteSet(Above(t, r)) /\ Rank(t, r) \in Nat
<1>1. Above(t, r) \in SUBSET DOMAIN t
  BY DEF Above
<1>2. IsFiniteSet(Above(t, r))
  BY <1>1, FS_Subset
<1> QED
  BY <1>2, FS_CardinalityType DEF Rank

\* What is passed is finite.
LEMMA PassedIsFinite ==
    ASSUME NEW t, IsFiniteSet(DOMAIN t), NEW base, NEW seen, NEW n
    PROVE  /\ IsFiniteSet(Passed(t, base, seen, n))
           /\ Cardinality(Passed(t, base, seen, n)) \in Nat
<1>1. Passed(t, base, seen, n) \in SUBSET DOMAIN t
  BY DEF Passed
<1>2. IsFiniteSet(Passed(t, base, seen, n))
  BY <1>1, FS_Subset
<1> QED
  BY <1>2, FS_CardinalityType

\* A newer row has a lower rank.
LEMMA NewerRanksBefore ==
    ASSUME NEW D, IsFiniteSet(D), NEW t \in [D -> Nat], NEW r \in D, NEW s \in D, t[r] > t[s]
    PROVE  Rank(t, r) < Rank(t, s)
<1>1. Above(t, r) \in SUBSET Above(t, s)
  BY DEF Above
<1>2. r \in Above(t, s) /\ r \notin Above(t, r)
  BY DEF Above
<1>3. IsFiniteSet(Above(t, r)) /\ IsFiniteSet(Above(t, s)) /\ Rank(t, r) \in Nat /\ Rank(t, s) \in Nat
  BY RankIsNat
<1>4. Rank(t, r) <= Rank(t, s) /\ Rank(t, r) # Rank(t, s)
  BY <1>1, <1>2, <1>3, FS_Subset DEF Rank
<1> QED
  BY <1>3, <1>4

\* Of rows with different stamps no more than k have one of k ranks.
LEMMA RanksAreShared ==
    ASSUME NEW D, IsFiniteSet(D), NEW t \in [D -> Nat], NEW R \in SUBSET D,
           \A r, s \in R : r # s => t[r] # t[s],
           NEW n \in Nat, NEW k \in Nat, \A r \in R : n <= Rank(t, r) /\ Rank(t, r) < n + k
    PROVE  IsFiniteSet(R) /\ Cardinality(R) <= k
<1> DEFINE f == [r \in R |-> Rank(t, r)]
           I == n..(n + k - 1)
<1>1. \A r \in R : Rank(t, r) \in I
  BY RankIsNat
<1>2. ASSUME NEW r \in R, NEW s \in R, r # s PROVE Rank(t, r) # Rank(t, s)
  <2>1. t[r] \in Nat /\ t[s] \in Nat /\ t[r] # t[s]
    BY <1>2
  <2>2. CASE t[r] > t[s]
    BY <2>2, NewerRanksBefore, RankIsNat
  <2>3. CASE t[s] > t[r]
    BY <2>3, NewerRanksBefore, RankIsNat
  <2> QED
    BY <2>1, <2>2, <2>3
<1>3. f \in Injection(R, I)
  BY <1>1, <1>2 DEF Injection, IsInjective
<1>4. IsFiniteSet(I) /\ Cardinality(I) = k
  BY FS_Interval
<1> HIDE DEF f, I
<1> QED
  BY <1>3, <1>4, FS_Injection

\* Deleting k rows brings no more than k unseen ones before the reader's place.
LEMMA SweepPasses ==
    ASSUME NEW D, IsFiniteSet(D), NEW t \in [D -> Nat], NEW old \in SUBSET D,
           NEW base, NEW seen, NEW n \in Nat, Distinct(t, base),
           NEW u \in [D \ old -> Nat], \A r \in D \ old : u[r] = t[r]
    PROVE  Cardinality(Passed(u, base, seen, n))
             <= Cardinality(Passed(t, base, seen, n)) + Cardinality(old)
<1> DEFINE k == Cardinality(old)
           P == Passed(t, base, seen, n)
           R == {r \in base \cap D : n <= Rank(t, r) /\ Rank(t, r) < n + k}
<1>1. IsFiniteSet(old) /\ k \in Nat
  BY FS_Subset, FS_CardinalityType
<1>2. IsFiniteSet(P) /\ Cardinality(P) \in Nat
  BY PassedIsFinite
<1>3. IsFiniteSet(R) /\ Cardinality(R) <= k /\ Cardinality(R) \in Nat
  <2>1. R \in SUBSET D /\ \A r, s \in R : r # s => t[r] # t[s]
    BY DEF Distinct
  <2>2. \A r \in R : n <= Rank(t, r) /\ Rank(t, r) < n + k
    OBVIOUS
  <2> HIDE DEF R, k
  <2> QED
    BY <1>1, <2>1, <2>2, RanksAreShared, FS_CardinalityType
<1>4. ASSUME NEW r \in D \ old PROVE Rank(t, r) <= Rank(u, r) + k
  <2>1. IsFiniteSet(D \ old)
    BY FS_Subset
  <2>2. IsFiniteSet(Above(u, r)) /\ Rank(u, r) \in Nat
    BY <2>1, RankIsNat
  <2>3. Above(t, r) \in SUBSET (Above(u, r) \cup old)
    BY DEF Above
  <2>4. /\ IsFiniteSet(Above(u, r) \cup old)
        /\ Cardinality(Above(u, r) \cup old) = Rank(u, r) + k - Cardinality(Above(u, r) \cap old)
    BY <1>1, <2>2, FS_Union DEF Rank
  <2>5. Cardinality(Above(u, r) \cap old) \in Nat
    BY <2>2, FS_Intersection, FS_CardinalityType
  <2>6. Rank(t, r) <= Cardinality(Above(u, r) \cup old)
    BY <2>3, <2>4, FS_Subset DEF Rank
  <2>7. Rank(t, r) \in Nat
    BY RankIsNat
  <2> HIDE DEF k
  <2> QED
    BY <1>1, <2>2, <2>4, <2>5, <2>6, <2>7
<1>5. Passed(u, base, seen, n) \in SUBSET (P \cup R)
  <2> SUFFICES ASSUME NEW r \in Passed(u, base, seen, n) PROVE r \in P \cup R
    OBVIOUS
  <2>1. r \in D \ old /\ r \in base /\ r \notin seen /\ Rank(u, r) < n
    BY DEF Passed
  <2>2. Rank(t, r) <= Rank(u, r) + k
    BY <1>4, <2>1
  <2>3. IsFiniteSet(D \ old)
    BY FS_Subset
  <2>4. Rank(t, r) \in Nat /\ Rank(u, r) \in Nat
    BY <2>3, RankIsNat
  <2>5. Rank(t, r) < n + k
    BY <1>1, <2>1, <2>2, <2>4
  <2> QED
    BY <2>1, <2>4, <2>5 DEF Passed
<1> HIDE DEF k, P, R
<1>6. /\ IsFiniteSet(P \cup R)
      /\ Cardinality(P \cup R) = Cardinality(P) + Cardinality(R) - Cardinality(P \cap R)
  BY <1>2, <1>3, FS_Union
<1>7. Cardinality(P \cap R) \in Nat
  BY <1>2, FS_Intersection, FS_CardinalityType
<1>8. Cardinality(Passed(u, base, seen, n)) <= Cardinality(P \cup R)
  BY <1>5, <1>6, FS_Subset
<1>9. IsFiniteSet(Passed(u, base, seen, n))
  BY <1>5, <1>6, FS_Subset
<1>10. Cardinality(Passed(u, base, seen, n)) \in Nat
  BY <1>9, FS_CardinalityType
<1> QED
  BY <1>1, <1>2, <1>3, <1>6, <1>7, <1>8, <1>10 DEF k, P

\* The place of a row in a listing without ties is its rank.
LEMMA ListedByRank ==
    ASSUME NEW D, IsFiniteSet(D), NEW t \in [D -> Nat], Distinct(t, D),
           NEW list \in SetToSeqs(D), \A i, j \in DOMAIN list : i < j => t[list[i]] >= t[list[j]]
    PROVE  /\ list \in [1..Cardinality(D) -> D] /\ Cardinality(D) \in Nat
           /\ \A r \in D : \E i \in 1..Cardinality(D) : r = list[i]
           /\ \A i \in 1..Cardinality(D) : Rank(t, list[i]) = i - 1
<1> DEFINE L == Cardinality(D)
<1>1. L \in Nat
  BY FS_CardinalityType
<1>2. list \in [1..L -> D] /\ \A i, j \in 1..L : i # j => list[i] # list[j]
  BY DEF SetToSeqs
<1>3. Cardinality(1..L) = L
  BY <1>1, FS_Interval
<1>4. list \in Injection(1..L, D)
  BY <1>2 DEF Injection, IsInjective
<1>5. list \in Surjection(1..L, D)
  BY <1>3, <1>4, FS_Injection
<1>6. \A r \in D : \E i \in 1..L : r = list[i]
  BY <1>5 DEF Surjection
<1>7. ASSUME NEW i \in 1..L PROVE Rank(t, list[i]) = i - 1
  <2> HIDE DEF L
  <2> DEFINE A == Above(t, list[i])
             g == [j \in 1..(i - 1) |-> list[j]]
  <2>1. i - 1 \in Nat /\ i \in Nat /\ 1..(i - 1) \subseteq 1..L
    BY <1>1
  <2>2. ASSUME NEW j \in 1..L PROVE t[list[j]] > t[list[i]] <=> j < i
    <3>1. list[i] \in D /\ list[j] \in D /\ t[list[i]] \in Nat /\ t[list[j]] \in Nat /\ DOMAIN list = 1..L
      BY <1>2
    <3>2. CASE j < i
      BY <1>2, <3>1, <3>2 DEF Distinct
    <3>3. CASE j = i
      BY <3>1, <3>3
    <3>4. CASE i < j
      BY <3>1, <3>4
    <3> QED
      BY <1>1, <3>2, <3>3, <3>4
  <2>3. \A j \in 1..(i - 1) : list[j] \in A
    BY <1>1, <1>2, <2>1, <2>2 DEF Above
  <2>4. ASSUME NEW s \in A PROVE \E j \in 1..(i - 1) : s = list[j]
    <3>1. s \in D /\ t[s] > t[list[i]]
      BY DEF Above
    <3>2. PICK j \in 1..L : s = list[j]
      BY <1>6, <3>1
    <3> QED
      BY <1>1, <2>2, <3>1, <3>2
  <2> HIDE DEF A
  <2>5. g \in [1..(i - 1) -> A]
    BY <2>3
  <2>6. \A j, l \in 1..(i - 1) : j # l => g[j] # g[l]
    BY <1>2, <2>1
  <2>7. \A s \in A : \E j \in 1..(i - 1) : g[j] = s
    BY <2>4
  <2> HIDE DEF g
  <2>8. g \in Bijection(1..(i - 1), A)
    BY <2>5, <2>6, <2>7 DEF Bijection, Injection, IsInjective, Surjection
  <2>9. ExistsBijection(1..(i - 1), A)
    BY <2>8 DEF ExistsBijection
  <2> QED
    BY <2>1, <2>9, FS_CountingElements DEF A, Rank
<1> QED
  BY <1>1, <1>2, <1>6, <1>7

\* A page is the rows from the reader's place on.
LEMMA PageFacts ==
    ASSUME NEW D, NEW L \in Nat, NEW list \in [1..L -> D], NEW n \in Nat
    PROVE  LET page == SubSeq(list, n + 1, Min({n + PageSize, Len(list)}))
           IN  /\ Len(page) \in Nat
               /\ \A i \in 1..L : n < i /\ i <= n + Len(page) => list[i] \in ToSet(page)
               /\ Len(page) < PageSize => n + Len(page) >= L
<1> DEFINE m == Min({n + PageSize, Len(list)})
           page == SubSeq(list, n + 1, m)
<1>1. Len(list) = L
  OBVIOUS
<1>2. PageSize \in Nat
  BY RequestPathAssumption
<1>3. m \in {n + PageSize, L} /\ m <= n + PageSize /\ m <= L
  <2>1. \E x \in {n + PageSize, L} : \A y \in {n + PageSize, L} : x =< y
    BY <1>2
  <2> QED
    BY <1>1, <1>2, <2>1 DEF Min
<1> HIDE DEF m
<1>4. m \in Nat
  BY <1>2, <1>3
<1>5. \A i \in (n + 1)..m : list[i] \in D
  BY <1>3, <1>4
<1>6. /\ page \in Seq(D) /\ Len(page) = IF n + 1 <= m THEN m - (n + 1) + 1 ELSE 0
      /\ \A i \in 1..(m - (n + 1) + 1) : page[i] = list[n + 1 + i - 1]
  BY <1>4, <1>5, SubSeqProperties
<1> HIDE DEF page
<1>7. Len(page) \in Nat /\ DOMAIN page = 1..Len(page)
  BY <1>6, LenProperties
<1>8. Len(page) = IF n < m THEN m - n ELSE 0
  BY <1>4, <1>6
<1>9. ASSUME NEW i \in 1..L, n < i, i <= n + Len(page) PROVE list[i] \in ToSet(page)
  <2>1. i - n \in 1..Len(page) /\ i - n \in 1..(m - (n + 1) + 1) /\ n + 1 + (i - n) - 1 = i
    BY <1>4, <1>7, <1>8, <1>9
  <2>2. page[i - n] = list[i]
    BY <1>6, <2>1
  <2> QED
    BY <1>7, <2>1, <2>2 DEF ToSet
<1>10. Len(page) < PageSize => n + Len(page) >= L
  BY <1>2, <1>3, <1>4, <1>8
<1> QED
  BY <1>7, <1>9, <1>10 DEF page, m

\* Without ties a page passes nothing unseen, and the last page leaves nothing
\* else behind.
LEMMA PagePasses ==
    ASSUME NEW D, IsFiniteSet(D), NEW t \in [D -> Nat], Distinct(t, D),
           NEW list \in SetToSeqs(D), \A i, j \in DOMAIN list : i < j => t[list[i]] >= t[list[j]],
           NEW base, NEW seen, NEW n \in Nat
    PROVE  LET page == SubSeq(list, n + 1, Min({n + PageSize, Len(list)}))
           IN  /\ Len(page) \in Nat
               /\ Passed(t, base, seen \cup ToSet(page), n + Len(page)) \subseteq Passed(t, base, seen, n)
               /\ Len(page) < PageSize =>
                    (base \cap D) \ (seen \cup ToSet(page)) \subseteq Passed(t, base, seen, n)
<1> DEFINE L == Cardinality(D)
           page == SubSeq(list, n + 1, Min({n + PageSize, Len(list)}))
<1>1. /\ list \in [1..L -> D] /\ L \in Nat
      /\ \A r \in D : \E i \in 1..L : r = list[i]
      /\ \A i \in 1..L : Rank(t, list[i]) = i - 1
  BY ListedByRank
<1> HIDE DEF L
<1>2. /\ Len(page) \in Nat
      /\ \A i \in 1..L : n < i /\ i <= n + Len(page) => list[i] \in ToSet(page)
      /\ Len(page) < PageSize => n + Len(page) >= L
  BY <1>1, PageFacts
<1> HIDE DEF page
<1>3. ASSUME NEW r \in (base \cap D) \ (seen \cup ToSet(page)),
             Rank(t, r) < n + Len(page) \/ n + Len(page) >= L
      PROVE  r \in Passed(t, base, seen, n)
  <2>1. PICK i \in 1..L : r = list[i] /\ Rank(t, r) = i - 1
    BY <1>1
  <2>2. i <= n + Len(page)
    BY <1>1, <1>2, <1>3, <2>1
  <2>3. ~(n < i)
    BY <1>2, <1>3, <2>1, <2>2
  <2> QED
    BY <1>1, <2>1, <2>3 DEF Passed
<1>4. Passed(t, base, seen \cup ToSet(page), n + Len(page)) \subseteq Passed(t, base, seen, n)
  <2> SUFFICES ASSUME NEW r \in Passed(t, base, seen \cup ToSet(page), n + Len(page))
               PROVE  r \in Passed(t, base, seen, n)
    OBVIOUS
  <2>1. r \in (base \cap D) \ (seen \cup ToSet(page)) /\ Rank(t, r) < n + Len(page)
    BY DEF Passed
  <2> QED
    BY <1>3, <2>1
<1> QED
  BY <1>2, <1>3, <1>4 DEF page

\* A row more passes nothing.
LEMMA EntryPasses ==
    ASSUME NEW D, IsFiniteSet(D), NEW t \in [D -> Nat], NEW x, NEW base, x \notin base,
           NEW u \in [D \cup {x} -> Nat], \A r \in D : u[r] = t[r], NEW seen, NEW n \in Nat
    PROVE  Passed(u, base, seen, n) \subseteq Passed(t, base, seen, n)
<1> SUFFICES ASSUME NEW r \in Passed(u, base, seen, n) PROVE r \in Passed(t, base, seen, n)
  OBVIOUS
<1>1. r \in D /\ r \in base /\ r \notin seen /\ Rank(u, r) < n
  BY DEF Passed
<1>2. IsFiniteSet(D \cup {x})
  BY FS_AddElement
<1>3. IsFiniteSet(Above(u, r)) /\ Rank(u, r) \in Nat /\ Rank(t, r) \in Nat
  BY <1>2, RankIsNat
<1>4. Above(t, r) \in SUBSET Above(u, r)
  BY <1>1 DEF Above
<1>5. Rank(t, r) <= Rank(u, r)
  BY <1>3, <1>4, FS_Subset DEF Rank
<1> QED
  BY <1>1, <1>3, <1>5 DEF Passed

\* The reader's record.
ReaderTyped ==
    /\ DOMAIN reader = {"phase", "offset", "base", "seen", "swept", "tied"}
    /\ reader.offset \in Nat /\ reader.swept \in Nat /\ reader.tied \in BOOLEAN
    /\ reader.base \subseteq DOMAIN cause

\* Between two pages: the unseen rows before the reader's place are no more than
\* were deleted, and once a page without ties is read, none of the rows the
\* reader started with share a stamp, nor ever will.
Passing ==
    reader.phase = "reading" /\ ~reader.tied =>
      /\ reader.offset > 0 => Distinct(Stamps, reader.base)
      /\ Cardinality(Passed(Stamps, reader.base, reader.seen, reader.offset)) <= reader.swept

\* The inductive invariant of the reader, beside Way.
Paging == IsFiniteSet(DOMAIN runs) /\ ReaderTyped /\ Passing /\ PagesMissOnlyForSweeps

\* The stamps are numbers.
LEMMA StampsTyped ==
    ASSUME Stored
    PROVE  Stamps \in [DOMAIN runs -> Nat] /\ \A r \in DOMAIN runs : Stamps[r] = Timestamptz(saved[r].createdAt)
<1>1. ASSUME NEW r \in DOMAIN runs 
      PROVE  runs[r].created_at = Timestamptz(saved[r].createdAt) /\ runs[r].created_at \in Nat
  <2>1. saved[r] \in Runs /\ runs[r] = toRunModel(saved[r])
    BY DEF Stored
  <2>2. runs[r].created_at = Timestamptz(saved[r].createdAt)
    BY <2>1 DEF toRunModel
  <2>3. saved[r].createdAt \in Nat
    BY <2>1 DEF Runs
  <2> QED
    BY <2>2, <2>3, TimesKept
<1> QED
  BY <1>1 DEF Stamps, Present

\* Steps that leave the stamps and the reader alone.
LEMMA QuietPaging ==
    ASSUME Paging, DOMAIN runs' = DOMAIN runs, Stamps' = Stamps, reader' = reader,
           DOMAIN cause \subseteq DOMAIN cause'
    PROVE  Paging'
<1>1. IsFiniteSet(DOMAIN runs') /\ ReaderTyped'
  BY DEF Paging, ReaderTyped
<1>2. Passing'
  BY DEF Paging, Passing
<1>3. PagesMissOnlyForSweeps'
  BY DEF Paging, PagesMissOnlyForSweeps, Present
<1> QED
  BY <1>1, <1>2, <1>3 DEF Paging

\* A run more is none the reader started with.
LEMMA EnterPaging ==
    ASSUME Stored, Paging, NEW x \in Fresh, NEW run \in Runs, NEW req, Enters(x, run, req), reader' = reader
    PROVE  Paging'
<1>1. /\ DOMAIN runs' = DOMAIN runs \cup {x} /\ \A r \in DOMAIN runs : runs'[r] = runs[r]
      /\ DOMAIN cause' = DOMAIN cause \cup {x} /\ x \notin DOMAIN cause
      /\ runs'[x] = toRunModel(run)
  BY EnterFacts DEF Fresh
<1>2. x \notin reader.base
  BY <1>1 DEF Paging, ReaderTyped
<1>3. Stamps \in [DOMAIN runs -> Nat]
  BY StampsTyped
<1>4. \A r \in DOMAIN runs : Stamps'[r] = Stamps[r]
  BY <1>1 DEF Stamps, Present
<1>5. Stamps' \in [DOMAIN runs \cup {x} -> Nat]
  <2>1. run.createdAt \in Nat
    BY DEF Runs
  <2>2. Stamps' = [r \in DOMAIN runs \cup {x} |-> runs'[r].created_at]
    BY <1>1 DEF Stamps, Present
  <2>3. runs'[x].created_at = Timestamptz(run.createdAt)
    BY <1>1 DEF toRunModel
  <2>4. Stamps'[x] \in Nat
    BY <2>1, <2>2, <2>3, TimesKept
  <2> QED
    BY <1>3, <1>4, <2>2, <2>4
<1>6. IsFiniteSet(DOMAIN runs)
  BY DEF Paging
<1>7. IsFiniteSet(DOMAIN runs') /\ ReaderTyped'
  BY <1>1, <1>6, FS_AddElement DEF Paging, ReaderTyped
<1>8. Passing'
  <2> SUFFICES ASSUME reader.phase = "reading", ~reader.tied
               PROVE  /\ reader.offset > 0 => Distinct(Stamps', reader.base)
                      /\ Cardinality(Passed(Stamps', reader.base, reader.seen, reader.offset)) <= reader.swept
    BY DEF Passing
  <2> DEFINE P == Passed(Stamps, reader.base, reader.seen, reader.offset)
             Q == Passed(Stamps', reader.base, reader.seen, reader.offset)
  <2>1. /\ reader.offset > 0 => Distinct(Stamps, reader.base)
        /\ Cardinality(P) <= reader.swept /\ reader.swept \in Nat /\ reader.offset \in Nat
    BY DEF Paging, Passing, ReaderTyped
  <2>2. reader.offset > 0 => Distinct(Stamps', reader.base)
    BY <1>5, <1>2, <1>3, <1>4, <2>1 DEF Distinct
  <2>3. Q \in SUBSET P
    BY <1>5, <1>2, <1>3, <1>4, <1>6, <2>1, EntryPasses
  <2>4. IsFiniteSet(P) /\ Cardinality(P) \in Nat
    BY <1>3, <1>6, PassedIsFinite
  <2>5. IsFiniteSet(Q) /\ Cardinality(Q) <= Cardinality(P)
    BY <2>3, <2>4, FS_Subset
  <2>6. Cardinality(Q) \in Nat
    BY <2>5, FS_CardinalityType
  <2> HIDE DEF P, Q
  <2>7. Cardinality(Q) <= reader.swept
    BY <2>1, <2>4, <2>5, <2>6
  <2> QED
    BY <2>2, <2>7 DEF Q
<1>9. PagesMissOnlyForSweeps'
  <2>1. reader.base \cap DOMAIN runs' = reader.base \cap DOMAIN runs
    BY <1>1, <1>2
  <2> QED
    BY <2>1 DEF Paging, PagesMissOnlyForSweeps, Present
<1> QED
  BY <1>7, <1>8, <1>9 DEF Paging

\* The sweep brings no more before the reader's place than it deletes.
LEMMA SweepPaging ==
    ASSUME Stored, Paging, Sweep
    PROVE  Paging'
<1>1. PICK old \in SUBSET DOMAIN runs :
        /\ DOMAIN runs' = DOMAIN runs \ old /\ \A r \in DOMAIN runs \ old : runs'[r] = runs[r]
        /\ reader' = [reader EXCEPT !.swept = IF reader.phase = "reading" THEN @ + Cardinality(old) ELSE @]
  BY SweepFacts
<1>2. IsFiniteSet(DOMAIN runs) /\ IsFiniteSet(old) /\ Cardinality(old) \in Nat /\ IsFiniteSet(DOMAIN runs')
  BY <1>1, FS_Subset, FS_CardinalityType DEF Paging
<1>3. cause' = cause
  BY DEF Sweep
<1>4. /\ reader'.phase = reader.phase /\ reader'.offset = reader.offset /\ reader'.base = reader.base
      /\ reader'.seen = reader.seen /\ reader'.tied = reader.tied /\ DOMAIN reader' = DOMAIN reader
      /\ reader'.swept = IF reader.phase = "reading" THEN reader.swept + Cardinality(old) ELSE reader.swept
  BY <1>1 DEF Paging, ReaderTyped
<1>5. ReaderTyped'
  BY <1>2, <1>3, <1>4 DEF Paging, ReaderTyped
<1>6. Stamps \in [DOMAIN runs -> Nat]
  BY StampsTyped
<1>7. Stamps' \in [DOMAIN runs \ old -> Nat] /\ \A r \in DOMAIN runs \ old : Stamps'[r] = Stamps[r]
  BY <1>1, <1>6 DEF Stamps, Present
<1>8. Passing'
  <2> SUFFICES ASSUME reader.phase = "reading", ~reader.tied
               PROVE  /\ reader.offset > 0 => Distinct(Stamps', reader.base)
                      /\ Cardinality(Passed(Stamps', reader.base, reader.seen, reader.offset))
                           <= reader.swept + Cardinality(old)
    BY <1>4 DEF Passing
  <2> DEFINE P == Passed(Stamps, reader.base, reader.seen, reader.offset)
             Q == Passed(Stamps', reader.base, reader.seen, reader.offset)
  <2>1. /\ reader.offset > 0 => Distinct(Stamps, reader.base)
        /\ Cardinality(P) <= reader.swept /\ reader.swept \in Nat /\ reader.offset \in Nat
    BY DEF Paging, Passing, ReaderTyped
  <2>2. reader.offset > 0 => Distinct(Stamps', reader.base)
    BY <1>6, <1>7, <2>1 DEF Distinct
  <2>3. Cardinality(P) \in Nat
    BY <1>2, <1>6, PassedIsFinite
  <2>4. Cardinality(Q) \in Nat
    BY <1>1, <1>2, <1>7, PassedIsFinite
  <2>5. CASE reader.offset > 0
    <3>1. Cardinality(Q) <= Cardinality(P) + Cardinality(old)
      BY <1>2, <1>6, <1>7, <2>1, <2>5, SweepPasses
    <3> HIDE DEF P, Q
    <3>2. Cardinality(Q) <= reader.swept + Cardinality(old)
      BY <1>2, <2>1, <2>3, <2>4, <3>1
    <3> QED
      BY <2>2, <3>2 DEF Q
  <2>6. CASE reader.offset = 0
    <3>1. ASSUME NEW r \in Q PROVE FALSE
      <4>1. Rank(Stamps', r) < 0
        BY <2>6 DEF Passed
      <4>2. Rank(Stamps', r) \in Nat
        BY <1>1, <1>2, <1>7, RankIsNat
      <4> QED
        BY <4>1, <4>2
    <3>2. Q = {}
      BY <3>1
    <3> HIDE DEF P, Q
    <3>3. Cardinality(Q) = 0
      BY <3>2, FS_EmptySet
    <3>4. Cardinality(Q) <= reader.swept + Cardinality(old)
      BY <1>2, <2>1, <3>3
    <3> QED
      BY <2>2, <3>4 DEF Q
  <2> QED
    BY <2>1, <2>5, <2>6
<1>9. PagesMissOnlyForSweeps'
  <2> SUFFICES ASSUME reader.phase = "done", ~reader.tied
               PROVE  Cardinality((reader.base \cap DOMAIN runs') \ reader.seen) <= reader.swept
    BY <1>4 DEF PagesMissOnlyForSweeps, Present
  <2> DEFINE M == (reader.base \cap DOMAIN runs) \ reader.seen
             N == (reader.base \cap DOMAIN runs') \ reader.seen
  <2>1. Cardinality(M) <= reader.swept /\ reader.swept \in Nat
    BY DEF Paging, ReaderTyped, PagesMissOnlyForSweeps, Present
  <2>2. M \in SUBSET DOMAIN runs /\ N \in SUBSET M
    BY <1>1
  <2> HIDE DEF M, N
  <2>3. IsFiniteSet(M) /\ Cardinality(M) \in Nat
    BY <1>2, <2>2, FS_Subset, FS_CardinalityType
  <2>4. IsFiniteSet(N) /\ Cardinality(N) <= Cardinality(M)
    BY <2>2, <2>3, FS_Subset
  <2>5. Cardinality(N) \in Nat
    BY <2>4, FS_CardinalityType
  <2>6. Cardinality(N) <= reader.swept
    BY <2>1, <2>3, <2>4, <2>5
  <2> QED
    BY <2>6 DEF N
<1> QED
  BY <1>2, <1>5, <1>8, <1>9 DEF Paging

\* Reading starts at the first row.
LEMMA StartPaging ==
    ASSUME Stored, Paging, StartReading
    PROVE  Paging'
<1>1. /\ reader' = [NotReading EXCEPT !.phase = "reading", !.base = DOMAIN runs]
      /\ runs' = runs /\ cause' = cause
  BY DEF StartReading, Present
<1>2. /\ reader'.phase = "reading" /\ reader'.offset = 0 /\ reader'.base = DOMAIN runs /\ reader'.swept = 0
      /\ reader'.seen = {} /\ reader'.tied \in BOOLEAN
      /\ DOMAIN reader' = {"phase", "offset", "base", "seen", "swept", "tied"}
  BY <1>1 DEF NotReading
<1>3. IsFiniteSet(DOMAIN runs) /\ IsFiniteSet(DOMAIN runs')
  BY <1>1 DEF Paging
<1>4. ReaderTyped'
  BY <1>1, <1>2 DEF ReaderTyped, Stored
<1>5. Stamps' = Stamps /\ DOMAIN Stamps = DOMAIN runs
  BY <1>1 DEF Stamps, Present
<1>6. ASSUME NEW r \in Passed(Stamps, DOMAIN runs, {}, 0) PROVE FALSE
  <2>1. Rank(Stamps, r) < 0
    BY DEF Passed
  <2>2. Rank(Stamps, r) \in Nat
    BY <1>3, <1>5, RankIsNat
  <2> QED
    BY <2>1, <2>2
<1>7. Cardinality(Passed(Stamps, DOMAIN runs, {}, 0)) = 0
  BY <1>6, FS_EmptySet
<1>8. Passing' /\ PagesMissOnlyForSweeps'
  BY <1>2, <1>5, <1>7 DEF Passing, PagesMissOnlyForSweeps
<1> QED
  BY <1>3, <1>4, <1>8 DEF Paging

\* Without ties the rows have different stamps.
LEMMA Untied ==
    ASSUME ~Ties
    PROVE  \A base : Distinct(Stamps, base)
BY DEF Ties, Distinct, Stamps, Present

\* A page passes nothing unseen.
LEMMA ReadPaging ==
    ASSUME Stored, Paging, ReadPage
    PROVE  Paging'
<1> DEFINE D == DOMAIN runs
           n == reader.offset
<1>1. PICK list \in Listings :
        LET page == SubSeq(list, n + 1, Min({n + PageSize, Len(list)}))
        IN  reader' = [reader EXCEPT !.offset = @ + Len(page), !.seen = @ \cup ToSet(page),
                                     !.tied = @ \/ Ties,
                                     !.phase = IF Len(page) < PageSize THEN "done" ELSE @]
  BY DEF ReadPage
<1> DEFINE page == SubSeq(list, n + 1, Min({n + PageSize, Len(list)}))
<1>2. /\ list \in SetToSeqs(D)
      /\ \A i, j \in DOMAIN list : i < j => runs[list[i]].created_at >= runs[list[j]].created_at
  BY DEF Listings, Newer, Present
<1>3. runs' = runs /\ cause' = cause /\ reader.phase = "reading"
  BY DEF ReadPage
<1>4. n \in Nat /\ reader.swept \in Nat /\ IsFiniteSet(D) /\ Cardinality(D) \in Nat
  BY FS_CardinalityType DEF Paging, ReaderTyped
<1>5. list \in [1..Cardinality(D) -> D]
  BY <1>2 DEF SetToSeqs
<1>6. Len(page) \in Nat
  BY <1>4, <1>5, PageFacts
<1> HIDE DEF page
<1>7. /\ reader'.phase = IF Len(page) < PageSize THEN "done" ELSE reader.phase
      /\ reader'.offset = n + Len(page) /\ reader'.base = reader.base
      /\ reader'.seen = reader.seen \cup ToSet(page) /\ reader'.swept = reader.swept
      /\ DOMAIN reader' = DOMAIN reader
  BY <1>1 DEF Paging, ReaderTyped, page
<1>8. reader'.tied = (reader.tied \/ Ties)
  BY <1>1, Zenon DEF Paging, ReaderTyped
<1>9. ReaderTyped'
  <2>1. reader'.tied \in BOOLEAN
    BY <1>8, Zenon
  <2> QED
    BY <1>3, <1>4, <1>6, <1>7, <2>1 DEF Paging, ReaderTyped
<1>10. Stamps' = Stamps
  BY <1>3 DEF Stamps, Present
<1>11. ASSUME ~reader'.tied
       PROVE  /\ Distinct(Stamps, reader.base)
              /\ Passed(Stamps, reader.base, reader'.seen, reader'.offset)
                   \subseteq Passed(Stamps, reader.base, reader.seen, n)
              /\ Len(page) < PageSize =>
                   (reader.base \cap D) \ reader'.seen \subseteq Passed(Stamps, reader.base, reader.seen, n)
              /\ Cardinality(Passed(Stamps, reader.base, reader.seen, n)) <= reader.swept
  <2>1. ~reader.tied /\ ~Ties
    BY <1>8, <1>11
  <2>2. Distinct(Stamps, D) /\ Distinct(Stamps, reader.base)
    BY <2>1, Untied
  <2>3. Stamps \in [D -> Nat]
    BY StampsTyped
  <2>4. \A i, j \in DOMAIN list : i < j => Stamps[list[i]] >= Stamps[list[j]]
    BY <1>2, <1>5 DEF Stamps, Present
  <2>5. /\ Passed(Stamps, reader.base, reader.seen \cup ToSet(page), n + Len(page))
             \subseteq Passed(Stamps, reader.base, reader.seen, n)
        /\ Len(page) < PageSize =>
             (reader.base \cap D) \ (reader.seen \cup ToSet(page)) \subseteq Passed(Stamps, reader.base, reader.seen, n)
    BY <1>2, <1>4, <2>2, <2>3, <2>4, PagePasses DEF page
  <2>6. Cardinality(Passed(Stamps, reader.base, reader.seen, n)) <= reader.swept
    BY <1>3, <2>1 DEF Paging, Passing
  <2> QED
    BY <1>7, <2>2, <2>5, <2>6
<1>12. ASSUME NEW M, ~reader'.tied, M \subseteq Passed(Stamps, reader.base, reader.seen, n)
       PROVE  Cardinality(M) <= reader.swept
  <2> DEFINE P == Passed(Stamps, reader.base, reader.seen, n)
  <2>1. IsFiniteSet(P) /\ Cardinality(P) \in Nat
    BY <1>4, PassedIsFinite, StampsTyped
  <2>2. Cardinality(P) <= reader.swept
    BY <1>11, <1>12
  <2>3. M \in SUBSET P
    BY <1>12
  <2> HIDE DEF P
  <2>4. IsFiniteSet(M) /\ Cardinality(M) <= Cardinality(P)
    BY <2>1, <2>3, FS_Subset
  <2>5. Cardinality(M) \in Nat
    BY <2>4, FS_CardinalityType
  <2> QED
    BY <1>4, <2>1, <2>2, <2>4, <2>5
<1>13. Passing'
  <2> SUFFICES ASSUME ~reader'.tied
               PROVE  /\ Distinct(Stamps, reader.base)
                      /\ Cardinality(Passed(Stamps, reader.base, reader'.seen, reader'.offset)) <= reader.swept
    BY <1>7, <1>10 DEF Passing
  <2> QED
    BY <1>11, <1>12
<1>14. PagesMissOnlyForSweeps'
  <2> SUFFICES ASSUME reader'.phase = "done", ~reader'.tied
               PROVE  Cardinality((reader.base \cap D) \ reader'.seen) <= reader.swept
    BY <1>3, <1>7 DEF PagesMissOnlyForSweeps, Present
  <2>1. Len(page) < PageSize
    BY <1>3, <1>7
  <2> QED
    BY <1>11, <1>12, <2>1
<1> QED
  BY <1>3, <1>4, <1>9, <1>13, <1>14 DEF Paging

\* The invariant is inductive beside Way.
LEMMA PagingStep == Way /\ Paging /\ [Next]_vars => Paging'
<1> SUFFICES ASSUME Way, Paging, [Next]_vars PROVE Paging'
  OBVIOUS
<1>0. CallsTyped /\ Stored /\ Recurs
  BY DEF Way
<1>1. ASSUME NEW c \in Calls, NEW r \in RunIds, SaveRun(c, r) PROVE Paging'
  <2>1. reader' = reader
    BY <1>1 DEF SaveRun
  <2> QED
    BY <1>0, <1>1, <2>1, SaveRunEnters, EnterPaging
<1>2. ASSUME NEW f \in fires, NEW r \in RunIds, HandleScheduledRun(f, r) PROVE Paging'
  <2>1. reader' = reader
    BY <1>2 DEF HandleScheduledRun
  <2> QED
    BY <1>0, <1>2, <2>1, ScheduledRunEnters, EnterPaging
<1>3. ASSUME NEW r \in RunIds, NEW o \in Outcomes, Finish(r, o) PROVE Paging'
  <2>1. /\ r \in DOMAIN runs /\ runs' = [runs EXCEPT ![r] = toRunModel(saved'[r])]
        /\ saved'[r].createdAt = Timestamptz(saved[r].createdAt)
    BY <1>3, FinishFacts
  <2>2. reader' = reader /\ cause' = cause
    BY <1>3 DEF Finish
  <2>3. DOMAIN runs' = DOMAIN runs /\ \A x \in DOMAIN runs : x # r => runs'[x] = runs[x]
    BY <2>1
  <2>4. runs'[r].created_at = runs[r].created_at
    <3>1. runs'[r] = toRunModel(saved'[r]) /\ runs[r] = toRunModel(saved[r])
      BY <1>0, <2>1 DEF Stored
    <3>2. /\ runs'[r].created_at = Timestamptz(saved'[r].createdAt)
          /\ runs[r].created_at = Timestamptz(saved[r].createdAt)
      BY <3>1 DEF toRunModel
    <3>3. saved[r].createdAt \in Nat
      BY <1>0, <2>1 DEF Stored, Runs
    <3> QED
      BY <2>1, <3>2, <3>3, TimesKept
  <2>5. Stamps' = Stamps
    BY <2>3, <2>4 DEF Stamps, Present
  <2> QED
    BY <2>2, <2>3, <2>5, QuietPaging
<1>4. CASE Sweep
  BY <1>0, <1>4, SweepPaging
<1>5. CASE StartReading
  BY <1>0, <1>5, StartPaging
<1>6. CASE ReadPage
  BY <1>0, <1>6, ReadPaging
<1>7. ASSUME UNCHANGED <<runs, reader, cause>> PROVE Paging'
  <2>1. Stamps' = Stamps
    BY <1>7 DEF Stamps, Present
  <2> QED
    BY <1>7, <2>1, QuietPaging
<1>8. ASSUME NEW c \in Calls, NEW req \in Requests[c], Post(c, req) PROVE Paging'
  BY <1>7, <1>8 DEF Post
<1>9. ASSUME NEW c \in Calls, NEW j \in Jobs, DispatchScheduled(c, j) PROVE Paging'
  BY <1>7, <1>9 DEF DispatchScheduled
<1>10. ASSUME NEW c \in Calls,
              \/ SaveRunFails(c) \/ DispatchManual(c) \/ DispatchRealtime(c)
              \/ DispatchFails(c) \/ ServerDies(c)
       PROVE  Paging'
  BY <1>7, <1>10 DEF SaveRunFails, DispatchManual, DispatchRealtime, DispatchFails, ServerDies
<1>11. CASE \/ \E j \in Jobs : Fire(j) \/ CancelSchedule(j)
            \/ \E f \in fires : EnqueueScheduledRun(f) \/ EnqueueScheduledRunFails(f)
            \/ \E p \in queue : Load(p)
            \/ Tick \/ UNCHANGED vars
  BY <1>7, <1>11
     DEF Fire, CancelSchedule, EnqueueScheduledRun, EnqueueScheduledRunFails, Load, Tick, vars
<1> QED
  BY <1>1, <1>2, <1>3, <1>4, <1>5, <1>6, <1>8, <1>9, <1>10, <1>11 DEF Next, Server

\* At first nobody reads.
LEMMA InitPaging == Init => Paging
<1> SUFFICES ASSUME Init PROVE Paging
  OBVIOUS
<1>1. DOMAIN runs = {} /\ reader = NotReading
  BY DEF Init, NoEntry
<1>2. /\ reader.phase = "idle" /\ reader.offset = 0 /\ reader.base = {} /\ reader.swept = 0
      /\ DOMAIN reader = {"phase", "offset", "base", "seen", "swept", "tied"}
  BY <1>1 DEF NotReading
<1>3. reader.tied \in BOOLEAN
  BY <1>1, Zenon DEF NotReading
<1>4. ReaderTyped
  BY <1>2, <1>3 DEF ReaderTyped
<1>5. Passing /\ PagesMissOnlyForSweeps
  BY <1>2 DEF Passing, PagesMissOnlyForSweeps
<1> QED
  BY <1>1, <1>4, <1>5, FS_EmptySet DEF Paging

\* A reader who pages through GET /runs by offset misses no more of the runs it
\* started with than the sweep deleted meanwhile, for every page size, whatever
\* is created meanwhile and wherever the clock puts it.
THEOREM PagesAreNearlyComplete == Spec => []PagesMissOnlyForSweeps
<1>1. Paging => PagesMissOnlyForSweeps
  BY DEF Paging
<1> QED
  BY <1>1, WayHolds, InitPaging, PagingStep, PTL DEF Spec
-----------------------------------------------------------------------------
(***************************************************************************)
(* The books of HandleScheduledRun, for any number of schedules, replicas  *)
(* and fires and every retry limit.  What a fire saves and dispatches is   *)
(* followed above; how often it does, when replicas crash and attempts are *)
(* retried, is the subject of Schedules, whose counter of saved runs is    *)
(* called written here.  MaxRetry \in Nat is SchedulesAssumption's.        *)
(***************************************************************************)
CONSTANTS Replicas, Tasks, Day, MaxRetry, Undecodable
VARIABLES hour, rows, cron, broken, up, view, due, task, fired, retried, written, started
Recurring == INSTANCE Schedules WITH saved <- written

\* The state of the scheduled_run tasks.
TasksTyped ==
    /\ task \in [Tasks -> {"none", "queued", "saved", "sent", "done", "archived"}]
    /\ retried \in [Tasks -> Nat]
    /\ written \in [Tasks -> Nat]
    /\ started \in [Tasks -> Nat]

\* The books of one task: a run is saved before it is started, and each attempt
\* that is over has saved one at most.
Balanced(t) ==
    /\ retried[t] <= MaxRetry
    /\ started[t] <= written[t]
    /\ task[t] \in {"none", "queued"} => written[t] <= retried[t]
    /\ written[t] <= retried[t] + 1
    /\ task[t] = "saved" => started[t] < written[t]
    /\ task[t] \in {"sent", "done"} => started[t] >= 1
    /\ written[t] - started[t] <= retried[t] + (IF task[t] \in {"saved", "archived"} THEN 1 ELSE 0)

Books == TasksTyped /\ \A t \in Tasks : Balanced(t)

\* A failed attempt costs a retry as long as one is left, so the run it may
\* have left behind is paid for.
LEMMA RetryBalances ==
    ASSUME MaxRetry \in Nat, Books, NEW t \in Tasks, task[t] \in {"queued", "saved", "sent"},
           Recurring!Retry(t), UNCHANGED <<written, started>>
    PROVE  Books'
<1> USE DEF Books, TasksTyped
<1>1. /\ started[t] <= written[t] /\ retried[t] <= MaxRetry /\ written[t] <= retried[t] + 1
      /\ retried[t] \in Nat /\ written[t] \in Nat /\ started[t] \in Nat
  BY DEF Balanced
<1>2. CASE retried[t] < MaxRetry
  <2>1. /\ task' = [task EXCEPT ![t] = "queued"]
        /\ retried' = [retried EXCEPT ![t] = retried[t] + 1]
    BY <1>2 DEF Recurring!Retry
  <2>2. TasksTyped'
    BY <1>1, <2>1
  <2>3. Balanced(t)'
    BY <1>1, <1>2, <2>1 DEF Balanced
  <2>4. ASSUME NEW u \in Tasks, u # t PROVE Balanced(u)'
    BY <2>1, <2>4 DEF Balanced
  <2> QED
    BY <2>2, <2>3, <2>4
<1>3. CASE ~(retried[t] < MaxRetry)
  <2>1. task' = [task EXCEPT ![t] = "archived"] /\ UNCHANGED retried
    BY <1>3 DEF Recurring!Retry
  <2>2. TasksTyped'
    BY <2>1
  <2>3. Balanced(t)'
    BY <1>1, <2>1 DEF Balanced
  <2>4. ASSUME NEW u \in Tasks, u # t PROVE Balanced(u)'
    BY <2>1, <2>4 DEF Balanced
  <2> QED
    BY <2>2, <2>3, <2>4
<1> QED
  BY <1>2, <1>3

\* The steps of a handler.
LEMMA HandlerBalances ==
    ASSUME MaxRetry \in Nat, Books, NEW t \in Tasks, Recurring!Handler(t)
    PROVE  Books'
<1>1. CASE Recurring!SaveRun(t)
  <2> USE DEF Books, TasksTyped
  <2>1. /\ written' = [written EXCEPT ![t] = written[t] + 1]
        /\ task' = [task EXCEPT ![t] = "saved"]
        /\ UNCHANGED <<retried, started>> /\ task[t] = "queued"
    BY <1>1 DEF Recurring!SaveRun
  <2>2. TasksTyped'
    BY <2>1
  <2>3. Balanced(t)'
    BY <2>1 DEF Balanced
  <2>4. ASSUME NEW u \in Tasks, u # t PROVE Balanced(u)'
    BY <2>1, <2>4 DEF Balanced
  <2> QED
    BY <2>2, <2>3, <2>4
<1>2. CASE Recurring!SaveRunFails(t) \/ Recurring!EnqueueRunFails(t) \/ Recurring!Unacknowledged(t)
  BY <1>2, RetryBalances DEF Recurring!SaveRunFails, Recurring!EnqueueRunFails, Recurring!Unacknowledged
<1>3. CASE Recurring!RejectPayload(t)
  <2> USE DEF Books, TasksTyped
  <2>1. /\ task' = [task EXCEPT ![t] = "archived"]
        /\ UNCHANGED <<retried, written, started>> /\ task[t] = "queued"
    BY <1>3 DEF Recurring!RejectPayload
  <2>2. TasksTyped'
    BY <2>1
  <2>3. Balanced(t)'
    BY <2>1 DEF Balanced
  <2>4. ASSUME NEW u \in Tasks, u # t PROVE Balanced(u)'
    BY <2>1, <2>4 DEF Balanced
  <2> QED
    BY <2>2, <2>3, <2>4
<1>4. CASE Recurring!EnqueueRun(t)
  <2> USE DEF Books, TasksTyped
  <2>1. /\ started' = [started EXCEPT ![t] = started[t] + 1]
        /\ task' = [task EXCEPT ![t] = "sent"]
        /\ UNCHANGED <<retried, written>> /\ task[t] = "saved"
    BY <1>4 DEF Recurring!EnqueueRun
  <2>2. TasksTyped'
    BY <2>1
  <2>3. Balanced(t)'
    BY <2>1 DEF Balanced
  <2>4. ASSUME NEW u \in Tasks, u # t PROVE Balanced(u)'
    BY <2>1, <2>4 DEF Balanced
  <2> QED
    BY <2>2, <2>3, <2>4
<1>5. CASE Recurring!Acknowledge(t)
  <2> USE DEF Books, TasksTyped
  <2>1. /\ task' = [task EXCEPT ![t] = "done"]
        /\ UNCHANGED <<retried, written, started>> /\ task[t] = "sent"
    BY <1>5 DEF Recurring!Acknowledge
  <2>2. TasksTyped'
    BY <2>1
  <2>3. Balanced(t)'
    BY <2>1 DEF Balanced
  <2>4. ASSUME NEW u \in Tasks, u # t PROVE Balanced(u)'
    BY <2>1, <2>4 DEF Balanced
  <2> QED
    BY <2>2, <2>3, <2>4
<1> QED
  BY <1>1, <1>2, <1>3, <1>4, <1>5 DEF Recurring!Handler

\* A fire that is done has started a run, a fire starts no more runs than it was
\* tried and never more than MaxRetry + 1, and the runs it leaves pending for
\* ever are no more than its failed attempts: whatever is retried, whichever
\* answers are lost, and wherever before asynq's acknowledgement a worker dies.
THEOREM FiresBalance ==
    ASSUME MaxRetry \in Nat
    PROVE  Recurring!Spec => []Recurring!FiresAccountedFor
<1>1. Recurring!Init => Books
  BY DEF Recurring!Init, Books, TasksTyped, Balanced
<1>2. Books /\ [Recurring!Next]_(Recurring!vars) => Books'
  <2> SUFFICES ASSUME Books, [Recurring!Next]_(Recurring!vars) PROVE Books'
    OBVIOUS
  <2>1. ASSUME NEW t \in Tasks, Recurring!Handler(t) PROVE Books'
    BY <2>1, HandlerBalances
  <2>2. ASSUME NEW m \in Replicas, NEW j \in Jobs, NEW t \in Tasks, Recurring!Fire(m, j, t)
        PROVE  Books'
    <3> USE DEF Books, TasksTyped
    <3>1. /\ task' = [task EXCEPT ![t] = "queued"] /\ task[t] = "none"
          /\ UNCHANGED <<retried, written, started>>
      BY <2>2 DEF Recurring!Fire
    <3>2. TasksTyped'
      BY <3>1
    <3>3. ASSUME NEW u \in Tasks PROVE Balanced(u)'
      BY <3>1 DEF Balanced
    <3> QED
      BY <3>2, <3>3
  <2>3. CASE UNCHANGED Recurring!taskVars
    BY <2>3 DEF Recurring!taskVars, Books, TasksTyped, Balanced
  <2>4. CASE \/ \E j \in Jobs, h \in Recurring!Hours \cup {Recurring!NoHour} :
                  Recurring!ScheduleRecurring(j, h)
             \/ \E j \in Jobs : Recurring!CancelScheduled(j) \/ Recurring!Upgrade(j)
             \/ \E m \in Replicas : Recurring!Boot(m) \/ Recurring!Sync(m) \/ Recurring!Crash(m)
             \/ \E m \in Replicas, j \in Jobs : Recurring!FireLost(m, j)
             \/ Recurring!Tick \/ UNCHANGED Recurring!vars
    <3>1. UNCHANGED Recurring!taskVars
      BY <2>4 DEF Recurring!ScheduleRecurring, Recurring!CancelScheduled, Recurring!Upgrade,
                  Recurring!Boot, Recurring!Sync, Recurring!Crash, Recurring!FireLost,
                  Recurring!Tick, Recurring!vars
    <3> QED
      BY <2>3, <3>1
  <2> QED
    BY <2>1, <2>2, <2>4 DEF Recurring!Next
<1>3. Books => Recurring!FiresAccountedFor
  <2> SUFFICES ASSUME Books, NEW t \in Tasks
               PROVE  /\ task[t] = "done" => started[t] >= 1
                      /\ retried[t] <= MaxRetry /\ started[t] <= written[t]
                      /\ written[t] <= retried[t] + (IF task[t] = "queued" THEN 0 ELSE 1)
                      /\ written[t] - started[t] <= retried[t] + (IF task[t] \in {"saved", "archived"} THEN 1 ELSE 0)
    BY DEF Recurring!FiresAccountedFor
  <2> QED
    BY DEF Books, TasksTyped, Balanced
<1> QED
  BY <1>1, <1>2, <1>3, PTL DEF Recurring!Spec
=============================================================================
