-------------------------- MODULE MCExecutePasses --------------------------
(***************************************************************************)
(* The TLC instance of ExecutePasses: addresses 11 and 12, tokens 21 and    *)
(* 22, block numbers of three bits, and the jobs worth executing.           *)
(***************************************************************************)
EXTENDS ExecutePasses

\* Three sources: two agree or not, and the third serves only some metrics.
Deployment(views, limited) ==
    [sources |-> 1..3,
     view |-> views,
     supports |-> [s \in 1..3 |-> IF s = 3 THEN limited ELSE Metrics]]

Job(metrics, strategy, addressPlans, tokenPlans, height, deployment, samplers) ==
    [metrics |-> metrics, strategy |-> strategy, addressPlans |-> addressPlans,
     tokenPlans |-> tokenPlans, tip |-> height, sources |-> deployment.sources,
     view |-> deployment.view, supports |-> deployment.supports,
     addressSampler |-> samplers.addresses, tokenSampler |-> samplers.tokens]

Wired == [addresses |-> TRUE, tokens |-> TRUE]
Unwired == {[addresses |-> FALSE, tokens |-> FALSE], [addresses |-> TRUE, tokens |-> FALSE]}

Split == Deployment(<<1, 1, 2>>, Metrics)
Partial == Deployment(<<1, 2, 2>>, {"hash", "holdings"})
Alone == [Split EXCEPT !.sources = {1}, !.view = <<1>>, !.supports = <<Metrics>>]

\* Overlapping plans, metrics of one category that belong to three passes, a
\* metric no pass serves, and a list that repeats a block.
Lists == {<<"hash", "trace">>, <<"balance", "holdings">>, <<"holdings">>,
          <<"tokenBalance", "balance">>, <<"balanceAtBlock", "hash">>,
          <<"total", "balance", "tokenBalance", "holdings">>}
Comparing ==
    {Job(ms, st, <<<<12, 11>>, <<11>>>>, <<<<22>>, <<21>>>>, 2, d, Wired) :
        ms \in Lists, st \in {FixedList(<<3, 1>>), FixedList(<<1, 1>>), LatestN(2)},
        d \in {Split, Partial}}
    \cup {Job(ms, LatestN(1), ap, tp, 2, Split, w) :
            ms \in Lists, ap \in {<<>>, <<<<11>>>>}, tp \in {<<>>, <<<<21>>>>},
            w \in Unwired \cup {Wired}}
    \cup {Job(<<"hash">>, LatestN(1), <<>>, <<>>, 2, Alone, Wired)}

\* Every strategy over the block numbers; no metric that needs a comparison.
Ranges == {r \in BlockNumber \X BlockNumber : r[1] <= r[2]}
Strategies ==
    {LatestN(n) : n \in 0..4}
    \cup {Random(r[1], r[2], c) : r \in Ranges, c \in {0, 1, 2, 7, 8}}
    \cup {SparseSteps(r[1], r[2], s) : r \in Ranges, s \in 0..7}
Drawing ==
    {Job(<<"total">>, st, <<>>, <<>>, height, Split, Wired) :
        st \in Strategies, height \in {0, 2, 6, 7}}

MCJobs == Comparing \cup Drawing
=============================================================================
