---------------------------- MODULE ExecutePasses ----------------------------
(***************************************************************************)
(* ExecuteRun.executeInner: what one execution of a run looks at.  The      *)
(* sources, the anchor and the tip are resolved, the strategy samples the   *)
(* blocks, then five passes walk their subjects one after the other.  For   *)
(* every subject all sources are asked, every metric of the pass is         *)
(* compared over the answers and each disagreement is saved; a summary of   *)
(* the subjects is sealed onto the run at the end.                          *)
(*                                                                         *)
(* The verdict on one sample is the subject of module Comparison: here a    *)
(* source has one view of the chain, sources of different views disagree,   *)
(* and a windowed tolerance discards a sample that is stale.                *)
(***************************************************************************)
EXTENDS Sampling

CONSTANTS
    Jobs,       \* the runs executed, see Job
    Anchor,     \* the finalized block
    MaxBlocks,  \* bound on the blocks a sampling loop is followed for
    MaxLosses   \* bound on the subjects with lost answers or stale samples

VARIABLES
    job,         \* the run and its environment
    pc,          \* where executeInner is
    live,        \* the context has not expired
    tip,         \* the tip ChainHead reported
    blocks,      \* the sampled blocks
    cursor,      \* the loop variable of the strategy
    pass,        \* the current pass, an index of Passes
    work,        \* the subjects it has still to visit
    answers,     \* the answers to the current subject
    k,           \* the metric to compare next
    saved,       \* the discrepancies saved, in order
    subjects,    \* summaryAccumulator.subjects
    comparisons, \* summaryAccumulator.comparisons
    summary,     \* Run.summary; NoSummary until it is recorded
    heard        \* history: the answers to every subject visited

vars == <<job, pc, live, tip, blocks, cursor, pass, work, answers, k, saved, subjects,
          comparisons, summary, heard>>

(***************************************************************************)
(* The metrics: one for each way a metric can be treated.  hash stands for  *)
(* the nine block fields, trace for the two internal transaction metrics    *)
(* that are filed under the same category, balance for balance, nonce and   *)
(* transaction count at latest, total for the chain-wide counters.          *)
(***************************************************************************)
Category == [hash |-> "block_immutable", trace |-> "block_immutable",
             balance |-> "address_latest", holdings |-> "address_latest",
             tokenBalance |-> "address_latest",
             balanceAtBlock |-> "address_at_block", total |-> "snapshot"]
Metrics == DOMAIN Category

\* The metrics at the given positions, in their order.  A capability has the
\* name of its metric here.
At(metrics, positions) ==
    LET order == Ascending(positions) IN [i \in DOMAIN order |-> metrics[order[i]]]
FilterByCategory(metrics, c) == At(metrics, {i \in DOMAIN metrics : Category[metrics[i]] = c})
FilterByCapability(metrics, c) == At(metrics, {i \in DOMAIN metrics : metrics[i] = c})

Passes == <<"block", "address", "addressAtBlock", "holdings", "tokenBalance">>

\* Mutant of PassMetrics: the holdings pass filters by category too.
PassMetricsByCategory(p, metrics) ==
    CASE p = "block"          -> FilterByCategory(metrics, "block_immutable")
      [] p = "address"        -> FilterByCategory(metrics, "address_latest")
      [] p = "addressAtBlock" -> FilterByCategory(metrics, "address_at_block")
      [] p = "holdings"       -> FilterByCategory(metrics, "address_latest")
      [] p = "tokenBalance"   -> FilterByCapability(metrics, "tokenBalance")

\* The metrics a pass compares.
PassMetrics(p, metrics) ==
    CASE p = "block"          -> FilterByCategory(metrics, "block_immutable")
      [] p = "address"        -> FilterByCategory(metrics, "address_latest")
      [] p = "addressAtBlock" -> FilterByCategory(metrics, "address_at_block")
      [] p = "holdings"       -> FilterByCapability(metrics, "holdings")
      [] p = "tokenBalance"   -> FilterByCapability(metrics, "tokenBalance")

\* Whether the extractor of a pass finds a value for the metric in the answer.
\* The two ERC-20 extractors do not look at the metric.  A field the answer leaves
\* out (nil) is not modelled: for the one metric it is as good as a lost answer.
Extracts(p, m) ==
    CASE p = "block"          -> m = "hash"
      [] p = "address"        -> m = "balance"
      [] p = "addressAtBlock" -> m = "balanceAtBlock"
      [] OTHER                -> TRUE

\* DefaultToleranceResolver puts the anchor window around this category.
Windowed(m) == Category[m] = "address_latest"

None == 0        \* no address, no token, no block
NoSummary == [subjects |-> <<>>, sources |-> {}, comparisons |-> 0]

Subject(kind, block, address, token) ==
    [kind |-> kind, block |-> block, address |-> address, token |-> token]

(***************************************************************************)
(* A job: the run's metrics, strategy and plans (each plan given by the     *)
(* list the sampler resolves it to), whether the samplers are wired, the    *)
(* enabled sources with the metrics they support and their view of the      *)
(* chain, and the height of the chain.                                      *)
(***************************************************************************)
JobOK(j) ==
    /\ j.metrics \in Seq(Metrics) /\ Len(j.metrics) > 0
    /\ WellFormed(j.strategy)
    /\ j.addressPlans \in Seq(Seq(Nat)) /\ j.tokenPlans \in Seq(Seq(Nat))
    /\ DOMAIN j.supports = j.sources /\ DOMAIN j.view = j.sources
    /\ j.tip \in BlockNumber

ASSUME JobsAssumption == \A j \in Jobs : JobOK(j)

CurrentMetrics == PassMetrics(Passes[pass], job.metrics)

\* The addresses or tokens the plans name.
Sampled(plans) == UNION {ToSet(plans[i]) : i \in DOMAIN plans}

\* Mutant of CollectSampled: the union of the plans is not deduplicated.
CollectRepeated(plans) == SortSeq(FlattenSeq(plans), <)

\* collectSampled: the union of the plans, without repetitions, sorted.
CollectSampled(plans) == Ascending(Sampled(plans))

\* The preconditions under which a pass has anything to do.
PassApplies(p) ==
    /\ PassMetrics(p, job.metrics) # <<>>
    /\ p # "block" => job.addressPlans # <<>> /\ job.addressSampler
    /\ p = "addressAtBlock" => blocks # <<>>
    /\ p = "tokenBalance" => job.tokenPlans # <<>> /\ job.tokenSampler

\* The subjects of a pass, outer loop first.
Pairs(outer, inner) ==
    [i \in 1..(Len(outer) * Len(inner)) |->
        <<outer[((i - 1) \div Len(inner)) + 1], inner[((i - 1) % Len(inner)) + 1]>>]
Work(p) ==
    LET addrs == CollectSampled(job.addressPlans)
        addrBlocks == Pairs(addrs, blocks)
        addrTokens == Pairs(addrs, CollectSampled(job.tokenPlans))
    IN  CASE p = "block"          -> [i \in 1..Len(blocks) |-> Subject(p, blocks[i], None, None)]
          [] p \in {"address", "holdings"} ->
               [i \in 1..Len(addrs) |-> Subject(p, None, addrs[i], None)]
          [] p = "addressAtBlock" ->
               [i \in DOMAIN addrBlocks |-> Subject(p, addrBlocks[i][2], addrBlocks[i][1], None)]
          [] p = "tokenBalance"   ->
               [i \in DOMAIN addrTokens |-> Subject(p, None, addrTokens[i][1], addrTokens[i][2])]

\* Discrepancy.Block: the height compared, or the anchor for latest state.
RecordBlock(subject) ==
    IF subject.kind \in {"block", "addressAtBlock"} THEN subject.block ELSE Anchor

Init ==
    /\ job \in Jobs
    /\ pc = "forChain" /\ live = TRUE
    /\ tip = 0 /\ blocks = <<>> /\ cursor = 0
    /\ pass = 1 /\ work = <<>> /\ k = 1
    /\ answers = [got |-> {}, stale |-> FALSE]
    /\ saved = <<>> /\ subjects = <<>> /\ comparisons = 0 /\ summary = NoSummary
    /\ heard = {}
-----------------------------------------------------------------------------
Ended == pc \in {"completed", "failed"}

\* The context of the task expires or is cancelled.
Expire ==
    /\ live /\ ~Ended
    /\ live' = FALSE
    /\ UNCHANGED <<job, pc, tip, blocks, cursor, pass, work, answers, k, saved, subjects,
                   comparisons, summary, heard>>

\* executeInner returns an error: the gateway, the chain head, a sampler or a
\* save failed, there are too few sources, or the context was found expired
\* before a subject.  Sampling the blocks and comparing return no error.
Fail ==
    /\ \/ pc \in {"forChain", "finalized", "tip", "save"}
       \/ pc = "pass" /\ pass > 1 /\ pass <= Len(Passes) /\ PassApplies(Passes[pass])
       \/ pc = "loop" /\ ~live /\ work # <<>>
    /\ pc' = "failed"
    /\ UNCHANGED <<job, live, tip, blocks, cursor, pass, work, answers, k, saved, subjects,
                   comparisons, summary, heard>>

\* Sources.ForChain returned at least two sources; the anchor is next.
ForChain ==
    /\ pc = "forChain" /\ Cardinality(job.sources) >= 2
    /\ pc' = "finalized"
    /\ UNCHANGED <<job, live, tip, blocks, cursor, pass, work, answers, k, saved, subjects,
                   comparisons, summary, heard>>

Finalized ==
    /\ pc = "finalized" /\ live
    /\ pc' = "tip"
    /\ UNCHANGED <<job, live, tip, blocks, cursor, pass, work, answers, k, saved, subjects,
                   comparisons, summary, heard>>

\* ChainHead.Tip; the strategy is asked for its blocks.
Tip ==
    /\ pc = "tip" /\ live
    /\ tip' = job.tip
    /\ pc' = "sample"
    /\ cursor' = LoopStart(job.strategy, job.tip)
    /\ UNCHANGED <<job, live, blocks, pass, work, answers, k, saved, subjects, comparisons,
                   summary, heard>>

\* Strategy().Blocks without a loop.
SampleAtOnce ==
    /\ pc = "sample" /\ NoLoop(job.strategy)
    /\ blocks' \in AtOnce(job.strategy)
    /\ pc' = "pass"
    /\ UNCHANGED <<job, live, tip, cursor, pass, work, answers, k, saved, subjects,
                   comparisons, summary, heard>>

\* One iteration of the loop of LatestN, Random or SparseSteps.
SampleNext ==
    /\ pc = "sample" /\ ~NoLoop(job.strategy) /\ Len(blocks) < MaxBlocks
    /\ LET next == LoopNext(job.strategy, cursor, LoopLast(job.strategy, tip))
       IN  /\ cursor' = next.block
           /\ pc' = IF next.done THEN "pass" ELSE "sample"
    /\ blocks' = Append(blocks, cursor)
    /\ UNCHANGED <<job, live, tip, pass, work, answers, k, saved, subjects, comparisons,
                   summary, heard>>

\* A pass begins: its plans are resolved; it is skipped when it does not apply.
EnterPass ==
    /\ pc = "pass" /\ pass <= Len(Passes)
    /\ IF PassApplies(Passes[pass])
       THEN work' = Work(Passes[pass]) /\ pc' = "loop" /\ UNCHANGED pass
       ELSE pass' = pass + 1 /\ UNCHANGED <<work, pc>>
    /\ UNCHANGED <<job, live, tip, blocks, cursor, answers, k, saved, subjects, comparisons,
                   summary, heard>>

\* fanOutFetch over the next subject.  An answer is lost when the budget
\* refuses it or the call fails; none comes once the context has expired.
Losses == Cardinality({h \in heard : h.got # job.sources \/ h.stale})

Fetch ==
    /\ pc = "loop" /\ live /\ work # <<>>
    /\ \E got \in SUBSET job.sources, stale \in BOOLEAN :
         /\ (got # job.sources \/ stale) => Losses < MaxLosses
         /\ stale => Passes[pass] # "block"
         /\ answers' = [got |-> got, stale |-> stale]
         /\ heard' = heard \cup {[subject |-> Head(work), got |-> got, stale |-> stale]}
    /\ k' = 1 /\ pc' = "compare"
    /\ UNCHANGED <<job, live, tip, blocks, cursor, pass, work, saved, subjects, comparisons,
                   summary>>

\* Mutant of Snapshots: a sample with a missing answer is skipped.
SnapshotsOfAll(m) ==
    {s \in answers.got : answers.got = job.sources /\ m \in job.supports[s] /\ Extracts(Passes[pass], m)}

\* The usable snapshots of a metric, and the outcome of the comparison.
Snapshots(m) == {s \in answers.got : m \in job.supports[s] /\ Extracts(Passes[pass], m)}
Disagrees(m) ==
    /\ \E s, t \in Snapshots(m) : job.view[s] # job.view[t]
    /\ ~(Windowed(m) /\ answers.stale)

\* compareAndSave, one metric: skipped, discarded or agreed ...
Compare ==
    /\ pc = "compare" /\ k <= Len(CurrentMetrics)
    /\ IF Disagrees(CurrentMetrics[k])
       THEN pc' = "save" /\ UNCHANGED k
       ELSE k' = k + 1 /\ UNCHANGED pc
    /\ UNCHANGED <<job, live, tip, blocks, cursor, pass, work, answers, saved, subjects,
                   comparisons, summary, heard>>

\* ... or saved as a discrepancy.
Save ==
    /\ pc = "save" /\ live
    /\ saved' = Append(saved, [metric |-> CurrentMetrics[k], subject |-> Head(work),
                               block |-> RecordBlock(Head(work)), address |-> Head(work).address])
    /\ k' = k + 1 /\ pc' = "compare"
    /\ UNCHANGED <<job, live, tip, blocks, cursor, pass, work, answers, subjects, comparisons,
                   summary, heard>>

\* The subject is done and counted.
EndSubject ==
    /\ pc = "compare" /\ k > Len(CurrentMetrics)
    /\ subjects' = Append(subjects, Head(work))
    /\ comparisons' = comparisons + Len(CurrentMetrics)
    /\ work' = Tail(work)
    /\ pc' = "loop"
    /\ UNCHANGED <<job, live, tip, blocks, cursor, pass, answers, k, saved, summary, heard>>

EndPass ==
    /\ pc = "loop" /\ work = <<>>
    /\ pass' = pass + 1 /\ pc' = "pass"
    /\ UNCHANGED <<job, live, tip, blocks, cursor, work, answers, k, saved, subjects,
                   comparisons, summary, heard>>

\* RecordSummary on the running aggregate; executeInner returns nil.
RecordSummary ==
    /\ pc = "pass" /\ pass > Len(Passes)
    /\ summary' = [subjects |-> subjects, sources |-> job.sources, comparisons |-> comparisons]
    /\ pc' = "completed"
    /\ UNCHANGED <<job, live, tip, blocks, cursor, pass, work, answers, k, saved, subjects,
                   comparisons, heard>>

Step ==
    \/ ForChain \/ Finalized \/ Tip \/ SampleAtOnce \/ SampleNext
    \/ EnterPass \/ Fetch \/ Compare \/ Save \/ EndSubject \/ EndPass \/ RecordSummary
    \/ Fail

Next == Step \/ Expire

Spec == Init /\ [][Next]_vars

\* The goroutine that executes the run is scheduled until it returns.
FairSpec == Spec /\ WF_vars(Step)
-----------------------------------------------------------------------------
(* Properties.                                                             *)

\* Some range has as many blocks as there are block numbers.
WholeRange(st) == st.kind = "random" /\ RangeLen(st) = 0

\* The sampled blocks are the ones the comment of the strategy itself documents, at
\* every height of the chain and every edge of the range, the one range left out
\* whose length BlockRange.Len cannot represent.  A fixed list is documented to be
\* returned verbatim; its order need not be ascending, although the interface
\* SamplingStrategy says so of all strategies.  The other three do ascend.
SampleIsAsDocumented ==
    (pc = "pass" /\ ~WholeRange(job.strategy)) => IsSample(job.strategy, tip, blocks)

\* The subjects a run has to cover, metric by metric.
Required(m) ==
    LET addrs == IF job.addressSampler THEN Sampled(job.addressPlans) ELSE {}
        toks == IF job.tokenSampler THEN Sampled(job.tokenPlans) ELSE {}
    IN  CASE m \in {"hash", "trace"} -> {Subject("block", b, None, None) : b \in ToSet(blocks)}
          [] m = "balance"           -> {Subject("address", None, a, None) : a \in addrs}
          [] m = "balanceAtBlock"    -> {Subject("addressAtBlock", b, a, None) :
                                            b \in ToSet(blocks), a \in addrs}
          [] m = "holdings"          -> {Subject("holdings", None, a, None) : a \in addrs}
          [] m = "tokenBalance"      -> {Subject("tokenBalance", None, a, t) : a \in addrs, t \in toks}
          [] m = "total"             -> {}
Wanted == UNION {Required(job.metrics[i]) : i \in DOMAIN job.metrics}

\* A run that ends as completed asked its sources about every subject its
\* metrics and plans call for, and its summary says so, once per subject unless
\* a fixed list repeats a block; the two other metrics of the category let the
\* address pass visit the addresses as well.
SummaryCoversTheRun ==
    (pc = "completed") =>
        /\ Wanted \subseteq ToSet(summary.subjects)
        /\ \A s \in ToSet(summary.subjects) : s \in Wanted \/ s.kind = "address"
        /\ {h.subject : h \in heard} = ToSet(summary.subjects)
        /\ IsInjective(blocks) => IsInjective(summary.subjects)
        /\ Len(saved) <= summary.comparisons

\* The pass whose fetch returns the metric.
Home(m) ==
    CASE m = "hash" -> "block" [] m = "balance" -> "address"
      [] m = "balanceAtBlock" -> "addressAtBlock"
      [] OTHER -> m

\* No metric is judged on values of another fetch: metrics of one category are
\* fetched by three different calls, and the ERC-20 extractors accept any of
\* them.
ValuesComeFromTheirFetch == \A i \in DOMAIN saved : saved[i].subject.kind = Home(saved[i].metric)

\* A completed run has a saved discrepancy for every subject on which two
\* supporting sources answered with different views, unless a windowed metric
\* was sampled stale: nothing that disagreed is lost between the passes.
DisagreementsAreSaved ==
    (pc = "completed") =>
        \A h \in heard, m \in ToSet(job.metrics) :
            (/\ h.subject.kind = Home(m)
             /\ \E s, t \in h.got : /\ m \in job.supports[s] \cap job.supports[t]
                                    /\ job.view[s] # job.view[t]
             /\ ~(Windowed(m) /\ h.stale))
            => \E i \in DOMAIN saved : saved[i].metric = m /\ saved[i].subject = h.subject

\* executeInner returns, unless the loop of LatestN or of Random has to stop at
\* the largest block number, which it steps over: SparseSteps does not need
\* the exception.
ExecutionEnds ==
    \/ ~NoLoop(job.strategy) /\ job.strategy.kind # "sparse_steps"
       /\ LoopLast(job.strategy, job.tip) = MaxBlock
    \/ <>Ended
=============================================================================
