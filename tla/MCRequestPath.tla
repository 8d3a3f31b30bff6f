--------------------------- MODULE MCRequestPath ---------------------------
(***************************************************************************)
(* The TLC instance of RequestPath: one call sends any of the bodies below, *)
(* valid and not, beside the call of an ordinary client.                   *)
(***************************************************************************)
EXTENDS RequestPath, TLC

MCMetrics == [k \in {"hash", "balance"} |->
    [key |-> k, category |-> IF k = "hash" THEN "block" ELSE "address_latest",
     tier |-> IF k = "hash" THEN 1 ELSE 0]]

Cron(fields) == [fields |-> fields, clean |-> TRUE, padded |-> FALSE]
Text(a, spelling) == [address |-> a, spelling |-> spelling]
Of(kind, body) == [kind |-> kind, body |-> body]

Manual == [kind |-> "manual", user |-> "ops"]
Realtime == [kind |-> "realtime", block |-> 9]
Scheduled(cron) == [kind |-> "scheduled", cron |-> cron]
Every(cron, tz) == [cron |-> cron, timezone |-> tz]

Once == [route |-> "runs", chain |-> 1, metrics |-> <<"hash">>,
         sampling |-> Of("latest_n", [n |-> 2]), trigger |-> Manual, schedule |-> Null,
         addressPlans |-> <<>>, tokenPlans |-> <<>>]
Recurring == [Once EXCEPT !.route = "schedules", !.trigger = Null, !.schedule = Every(Cron(5), "")]

Samplings ==
    {Of("fixed_list", [numbers |-> <<7, 0>>]), Of("latest_n", Null), Of("fixed_list", Null)}
    \cup {Of("random", [start |-> s, end |-> 3, count |-> 2, seed |-> -1]) : s \in {0, 3, 4}}
    \cup {Of("sparse_steps", [start |-> s, end |-> 3, step |-> 2]) : s \in {1, 4}}

AddressPlans ==
    {<<Of("known", [addresses |-> <<Text("a2", sp), Text("a1", "lower")>>])>> :
        sp \in {"lower", "checksum", "typo"}}
    \cup {<<Of("top_n", [n |-> 3]), Of("random", [count |-> 1, seed |-> 5])>>,
          <<Of("recently_active", [recent_blocks |-> 4, count |-> 2, seed |-> 6])>>,
          <<Of("known", Null)>>}

TokenPlans ==
    {<<Of("known_tokens", [tokens |-> <<Text("t1", sp)>>])>> : sp \in {"lower", "typo"}}
    \cup {<<Of("known_tokens", Null)>>}

\* Both routes with every kind of each part, then what is wrong with one part.
Bodies ==
    UNION {{[b EXCEPT !.sampling = s] : s \in Samplings}
           \cup {[b EXCEPT !.addressPlans = p] : p \in AddressPlans}
           \cup {[b EXCEPT !.tokenPlans = p] : p \in TokenPlans}
           \cup {[b EXCEPT !.metrics = m] : m \in {<<"balance", "hash">>, <<"gone">>}}
           : b \in {Once, Recurring}}
    \cup {[Recurring EXCEPT !.schedule = s] :
            s \in {Every(Cron(6), "UTC"), Every(Cron(4), ""), Every(EmptyCron, ""),
                   Every(Cron(5), "Mars"), Every([Cron(5) EXCEPT !.padded = TRUE], "Asia/Seoul"),
                   Every([Cron(5) EXCEPT !.clean = FALSE], "")}}
    \cup {[Once EXCEPT !.trigger = Realtime], [Once EXCEPT !.chain = MaxInt64 + 1],
          [Once EXCEPT !.schedule = Every(Cron(5), "")],
          [Once EXCEPT !.trigger = Scheduled(Cron(5))],
          [Once EXCEPT !.trigger = Scheduled(Cron(6)), !.schedule = Every(Cron(5), "UTC")]}

MCRequests == [c \in Calls |-> IF c = 1 THEN Bodies \cup {Once, Recurring} ELSE {Once}]

\* Bound: while a client pages, only ordinary calls are made.
PagingBound == reader.phase = "reading" => \A c \in Calls : calls[c].req \in {Null, Once}

Block(n) == [kind |-> "block", block |-> n, address |-> Null, token |-> Null, name |-> ""]
Holding == [kind |-> "erc20_balance", block |-> Null, address |-> "a1", token |-> "t1", name |-> ""]
Whole == [kind |-> "snapshot", block |-> Null, address |-> Null, token |-> Null, name |-> "total"]
Value(raw, reflected) == [raw |-> raw, fetchedAt |-> 0, reflected |-> reflected]

\* Heights at zero and in the upper half of uint64, with and without an anchor.
Outcome(anchor, subjects, address, block, tier, key) ==
    [summary |-> [anchor |-> anchor, subjects |-> subjects, sources |-> <<"rpc">>, count |-> 1],
     diff |-> [run |-> Null, metric |-> MCMetrics[key], block |-> block,
               subject |-> [type |-> "block", address |-> address],
               values |-> ("rpc" :> Value("1", block) @@ "scan" :> Value("2", Null)), detectedAt |-> 3],
     judgement |-> [severity |-> "warning", trusted |-> <<"rpc">>],
     meta |-> [tier |-> tier, anchor |-> IF anchor = Null THEN 0 ELSE anchor, seed |-> Null]]
MCOutcomes ==
    {Outcome(0, <<Block(0), Holding>>, "a1", MaxInt64 + 3, 2, "balance"),
     Outcome(Null, <<Whole>>, Null, 0, 0, "hash")}

Symmetry == Permutations(RunIds)
=============================================================================
