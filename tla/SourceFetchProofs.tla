------------------------- MODULE SourceFetchProofs -------------------------
(***************************************************************************)
(* Proofs about the fetches of SourceFetch, for any retry policy, limiter   *)
(* and Retry-After headers.                                                 *)
(***************************************************************************)
EXTENDS SourceFetch, Integers, SequenceTheorems, TLAPS

Protocols == {"jsonrpc", "rest", "envelope", "rawProxy", "wrappedProxy"}
Received == UNION {Replies(via) : via \in Protocols}

\* A fetch an adapter does not refuse is one call or two, over a protocol of
\* the adapter.
LEMMA CallsShape ==
    ASSUME NEW j \in Jobs, ~Refuses(j)
    PROVE  /\ Len(Calls(j)) \in {1, 2}
           /\ \A i \in 1..Len(Calls(j)) : Calls(j)[i].via \in Protocols
<1> USE DEF Protocols, Via
<1>0. j.kind \in StateKinds \cup HeadKinds /\ j.adapter \in Adapters
  BY DEF Jobs
<1>1. CASE j.adapter = "rpc"
  BY <1>0, <1>1 DEF Calls, Refuses, Jobs, StateKinds, HeadKinds, RpcCalls, RpcBlock, RpcAddress,
                    RpcToken, RpcTrace, RpcTip, RpcFinalized
<1>2. CASE j.adapter = "blockscout"
  <2>1. \A w : Proxy("blockscout", w) = [via |-> "rawProxy", want |-> w]
    BY DEF Proxy
  <2>2. j.kind \in StateKinds \ {"internalTxByBlock"} /\ Calls(j) = BlockscoutCalls[j.kind]
    BY <1>0, <1>2 DEF Calls, Refuses, Jobs, HeadKinds
  <2>3. CASE j.kind = "block"
    BY <2>1, <2>2, <2>3 DEF BlockscoutCalls, BlockscoutBlock
  <2>4. CASE j.kind = "addressLatest"
    BY <2>1, <2>2, <2>4 DEF BlockscoutCalls, BlockscoutLatest
  <2>5. CASE j.kind = "addressAtBlock"
    BY <2>1, <2>2, <2>5 DEF BlockscoutCalls, BlockscoutAtBlock
  <2>6. CASE j.kind = "erc20Balance"
    BY <2>1, <2>2, <2>6 DEF BlockscoutCalls, BlockscoutToken
  <2>7. CASE j.kind \in {"erc20Holdings", "snapshot", "internalTxByTx"}
    BY <2>2, <2>7 DEF BlockscoutCalls, BlockscoutHoldings, BlockscoutSnapshot, BlockscoutTrace
  <2> QED
    BY <2>2, <2>3, <2>4, <2>5, <2>6, <2>7 DEF StateKinds
<1>3. CASE j.adapter = "routescan"
  BY <1>0, <1>3 DEF Calls, Refuses, Jobs, StateKinds, HeadKinds, Proxy, RoutescanCalls, RoutescanBlock,
                    RoutescanAddress, RoutescanToken, RoutescanList
<1> QED
  BY <1>0, <1>1, <1>2, <1>3 DEF Adapters

\* What a fetch refuses without a request, Supports does not claim, or its
\* anchor is pinned.
LEMMA RefusedIsUnclaimed ==
    ASSUME NEW j \in Jobs, Refuses(j), Supports(j)
    PROVE  j.pinned
BY DEF Jobs, Adapters, Refuses, Supports, RpcSupports, BlockscoutSupports, RoutescanSupports

\* A retry is put off at least as long as the upstream asked, if it asked in
\* seconds.
LEMMA DelayCoversWait ==
    ASSUME NEW n \in Nat \ {0}, NEW r, r.wait \in Waits
    PROVE  /\ Delay(n, r) \in Int /\ r.wait.ticks \in Nat
           /\ r.wait.form # "date" => r.wait.ticks <= Delay(n, r)
<1>1. 2^(n - 1) \in Int
  OBVIOUS
<1>2. Backoff(n) \in Int
  BY <1>1, SourceFetchAssumption DEF Backoff
<1>3. /\ r.wait.ticks \in Nat
      /\ \/ parseRetryAfter(r.wait) = r.wait.ticks
         \/ r.wait.form = "date" /\ parseRetryAfter(r.wait) = 0
  BY SourceFetchAssumption DEF Waits, NoWait, parseRetryAfter
<1> QED
  BY <1>2, <1>3 DEF Delay

\* An error callers take for permanent comes with an answer, and not with one the
\* decoder knows to be temporary.
LEMMA PermanentAnswer ==
    ASSUME NEW c, c.via \in Protocols, NEW r \in Replies(c.via),
           Classify(c, r) \in {"unsupported", "notfound", "invalid"}
    PROVE  /\ r.status \in {"200", "404", "4xx"}
           /\ r.content \notin KnownTemporary(c.via)
<1>1. r.status \in {"200", "404", "4xx"}
  BY DEF Replies, Reply, Classify, HTTPStatusError
<1>2. ASSUME r.content \in KnownTemporary(c.via) PROVE FALSE
  <2>1. r.content \in {"throttled", "throttledServer", "serverError", "cut"} /\ c.via # "rest"
        /\ (c.via = "jsonrpc" \/ (c.via \in {"envelope", "wrappedProxy"} /\ r.content = "throttled"))
    BY <1>2 DEF KnownTemporary, Protocols
  <2>2. r.status = "200"
    BY <2>1 DEF Replies, Reply
  <2>3. Classify(c, r) = Decode(c.via, c.want, r.content)
    BY <2>2 DEF Classify
  <2>4. CASE r.content = "cut"
    BY <2>1, <2>3, <2>4 DEF Decode
  <2>5. CASE r.content # "cut"
    <3>1. Classify(c, r) = DecodeError(c.via, r.content)
      BY <2>1, <2>3, <2>5 DEF Decode
    <3> QED
      BY <2>1, <2>5, <3>1 DEF DecodeError, RpcError, EnvelopeError
  <2> QED
    BY <2>4, <2>5
<1> QED
  BY <1>1, <1>2
-----------------------------------------------------------------------------
(* The inductive invariant.                                                *)

Busy == {"check", "limit", "send", "backoff", "classify"}

\* The request whose token has been taken and which is not sent yet.
Outgoing == IF pc = "send" THEN 1 ELSE 0

Typed ==
    /\ job \in Jobs /\ pc \in Busy \cup {"idle"}
    /\ call \in Nat \ {0} /\ attempt \in Nat \ {0}
    /\ hold \in Int /\ owed \in Nat /\ tokens \in 0..Burst
    /\ recent = <<recent[1], recent[2]>> /\ recent[1] \in Nat /\ recent[2] \in Nat
    /\ got \in Seq(Received)

\* Tokens of a limiter are neither minted nor used twice: what was sent in a tick,
\* what is about to be sent and what is left is what the tick began with.
Metered ==
    HasLimiter(job.adapter) =>
      /\ recent[1] + tokens + Outgoing <= Burst + 1
      /\ recent[1] + recent[2] + tokens + Outgoing <= Burst + 2

\* A wait is over except during the backoff, and so is what the upstream asked for,
\* which is not longer; but a date in the header is overlooked.
Waiting ==
    /\ pc # "backoff" => hold = 0
    /\ pc \in {"idle", "classify"} => owed = 0
    /\ reply.wait.form # "date" => (pc # "backoff" => owed = 0) /\ owed <= hold

\* Calls before the current one ended well; a fetch that is under way has no
\* result yet.
Underway ==
    pc \in Busy =>
      /\ result = "none" /\ ~Refuses(job) /\ call <= Len(Calls(job))
      /\ \A i \in 1..(call - 1) : Classify(Calls(job)[i], got[i]) = "ok"
      /\ pc # "classify" => Len(got) = call - 1
      /\ pc = "classify" =>
           /\ Len(got) = call /\ got[call] = reply /\ reply \in Replies(Current.via)

IInv == Typed /\ Metered /\ Waiting /\ Underway /\ CompleteOrNothing /\ PermanentErrorsAreAnswers

\* What a transport may deliver is well-formed, its Retry-After a header.
LEMMA ReceivedShape ==
    ASSUME NEW via \in Protocols, NEW r \in Replies(via)
    PROVE  r \in Received /\ r.wait \in Waits
BY DEF Received, Replies, Reply, Waits

\* A fetch that has no result has made no promise.
LEMMA NoResultYet ==
    ASSUME result \in {"none", "context", "unavailable"}
    PROVE  CompleteOrNothing /\ PermanentErrorsAreAnswers
BY DEF CompleteOrNothing, PermanentErrorsAreAnswers

\* The adapter is called for a new fetch.
LEMMA BeginPreserves ==
    ASSUME IInv, NEW j \in Jobs, Begin(j)
    PROVE  IInv'
<1> USE DEF Begin
<1>1. got' = <<>> /\ got' \in Seq(Received) /\ Len(got') = 0
  OBVIOUS
<1>2. Typed'
  BY <1>1 DEF IInv, Typed, Busy
<1>3. Metered' /\ Waiting'
  <2>1. HasLimiter(job'.adapter) <=> HasLimiter(job.adapter)
    OBVIOUS
  <2> QED
    BY <2>1 DEF IInv, Typed, Metered, Waiting, Outgoing
<1>4. CASE Refuses(j)
  <2>1. Underway' /\ CompleteOrNothing'
    BY <1>4 DEF Underway, Busy, CompleteOrNothing
  <2>2. Supports(j) => j.pinned
    BY <1>4, RefusedIsUnclaimed
  <2>3. PermanentErrorsAreAnswers'
    BY <1>1, <1>4, <2>2 DEF PermanentErrorsAreAnswers
  <2> QED
    BY <1>2, <1>3, <2>1, <2>3 DEF IInv
<1>5. CASE ~Refuses(j)
  <2>1. pc' = "check" /\ result' = "none" /\ call' = 1 /\ job' = j
    BY <1>5
  <2>2. Underway'
    <3>2. 1..(call' - 1) = {} /\ Len(got') = call' - 1
      BY <1>1, <2>1
    <3> HIDE DEF Begin
    <3>3. Len(Calls(j)) \in {1, 2}
      BY <1>5, CallsShape
    <3>1. call' <= Len(Calls(job'))
      BY <2>1, <3>3
    <3> QED
      BY <1>5, <2>1, <3>1, <3>2 DEF Underway
  <2>3. CompleteOrNothing' /\ PermanentErrorsAreAnswers'
    BY <2>1 DEF CompleteOrNothing, PermanentErrorsAreAnswers
  <2> QED
    BY <1>2, <1>3, <2>2, <2>3 DEF IInv
<1> QED
  BY <1>4, <1>5

\* A request that is sent has had its token taken before, if there is a limiter.
LEMMA SentIsMetered ==
    ASSUME Typed, Metered, pc = "send", pc' # "send", UNCHANGED <<tokens, job>>,
           recent' = <<IF recent[1] < RecentCap THEN recent[1] + 1 ELSE recent[1], recent[2]>>
    PROVE  Metered'
<1> SUFFICES ASSUME HasLimiter(job.adapter)
             PROVE  /\ recent'[1] + tokens' + Outgoing' <= Burst + 1
                    /\ recent'[1] + recent'[2] + tokens' + Outgoing' <= Burst + 2
  BY DEF Metered
<1>2. Outgoing = 1 /\ Outgoing' = 0
  BY DEF Outgoing
<1>3. recent[1] \in Nat /\ recent[2] \in Nat /\ tokens \in Nat /\ Burst \in Nat
  BY SourceFetchAssumption DEF Typed
<1>4. /\ recent[1] + tokens + 1 <= Burst + 1
      /\ recent[1] + recent[2] + tokens + 1 <= Burst + 2
  BY <1>2 DEF Metered
<1>5. recent[1] < RecentCap
  BY <1>3, <1>4 DEF RecentCap
<1>1. recent'[1] = recent[1] + 1 /\ recent'[2] = recent[2]
  BY <1>5
<1> HIDE DEF Outgoing
<1> QED
  BY <1>1, <1>2, <1>3, <1>4

\* A step that sends nothing leaves the meter alone, if it does not take a token
\* but for the next request.
LEMMA MeterKept ==
    ASSUME Typed, Metered, UNCHANGED <<recent, job>>,
           \/ ~HasLimiter(job.adapter)
           \/ UNCHANGED tokens /\ pc' # "send"
           \/ tokens > 0 /\ tokens' = tokens - 1 /\ pc # "send"
    PROVE  Metered'
<1>1. recent[1] \in Nat /\ recent[2] \in Nat /\ tokens \in Nat /\ Burst \in Nat
  BY SourceFetchAssumption DEF Typed
<1>2. CASE UNCHANGED tokens /\ pc' # "send"
  <2>1. Outgoing' = 0 /\ Outgoing \in Nat
    BY <1>2 DEF Outgoing
  <2> QED
    BY <1>1, <1>2, <2>1 DEF Metered
<1>3. CASE tokens > 0 /\ tokens' = tokens - 1 /\ pc # "send"
  <2>1. Outgoing = 0 /\ Outgoing' \in 0..1
    BY <1>3 DEF Outgoing
  <2> QED
    BY <1>1, <1>3, <2>1 DEF Metered
<1>4. CASE ~HasLimiter(job.adapter)
  BY <1>4 DEF Metered
<1> QED
  BY <1>2, <1>3, <1>4

\* A tick earns one token.
LEMMA TickIsMetered ==
    ASSUME Typed, Metered, Tick
    PROVE  tokens' \in 0..Burst /\ Metered'
<1>1. recent[1] \in Nat /\ recent[2] \in Nat /\ tokens \in Nat /\ tokens <= Burst /\ Burst \in Nat
  BY SourceFetchAssumption DEF Typed
<1>2. recent'[1] = 0 /\ recent'[2] = recent[1] /\ pc' = pc /\ job' = job
  BY DEF Tick
<1>3. tokens' \in Nat /\ tokens' <= Burst /\ tokens' <= tokens + 1
  BY <1>1 DEF Tick
<1>4. Outgoing \in Nat /\ Outgoing <= 1 /\ Outgoing' = Outgoing
  BY <1>2 DEF Outgoing
<1>5. HasLimiter(job.adapter) => recent[1] + tokens + Outgoing <= Burst + 1
  BY DEF Metered
<1>6. ASSUME NEW r \in Nat, NEW t \in Nat, NEW u \in Nat, NEW o \in Nat, NEW b \in Nat,
             u <= b, u <= t + 1, o <= 1, r + t + o <= b + 1
      PROVE  0 + u + o <= b + 1 /\ 0 + r + u + o <= b + 2
  BY <1>6
<1>7. HasLimiter(job.adapter) =>
        0 + tokens' + Outgoing <= Burst + 1 /\ 0 + recent[1] + tokens' + Outgoing <= Burst + 2
  BY <1>1, <1>3, <1>4, <1>5, <1>6
<1>8. Metered'
  BY <1>2, <1>4, <1>7, Zenon DEF Metered
<1> QED
  BY <1>1, <1>3, <1>8

\* A fetch that ends without classifying a reply.
LEMMA GivesUp ==
    ASSUME IInv, pc # "idle", NEW r \in {"context", "unavailable"}, Finish(r),
           UNCHANGED <<job, call, attempt, tokens, recent, got>>
    PROVE  IInv'
<1> USE DEF Finish
<1>1. Typed' /\ Waiting' /\ Underway'
  BY DEF IInv, Typed, Waiting, Underway, Busy
<1>3. Metered'
  BY MeterKept DEF IInv
<1>2. CompleteOrNothing' /\ PermanentErrorsAreAnswers'
  BY DEF CompleteOrNothing, PermanentErrorsAreAnswers
<1> QED
  BY <1>1, <1>2, <1>3 DEF IInv

\* Client.Do takes a token, sends the request and looks at the answer.
LEMMA SendPreserves ==
    ASSUME IInv, NEW r \in Replies(Current.via), Send(r)
    PROVE  IInv'
<1> USE DEF Send
<1>1. /\ pc = "send" /\ job \in Jobs /\ ~Refuses(job) /\ call \in 1..Len(Calls(job))
      /\ Len(Calls(job)) \in {1, 2} /\ Current.via \in Protocols
  BY CallsShape DEF IInv, Typed, Underway, Busy, Current
<1>2. r \in Received /\ r.wait \in Waits
  BY <1>1, ReceivedShape
<1>3. result' = "none"
  BY <1>1 DEF IInv, Underway, Busy
<1>4. CompleteOrNothing' /\ PermanentErrorsAreAnswers'
  BY <1>3 DEF CompleteOrNothing, PermanentErrorsAreAnswers
<1>5. /\ recent' = <<IF recent[1] < RecentCap THEN recent[1] + 1 ELSE recent[1], recent[2]>>
      /\ recent' = <<recent'[1], recent'[2]>> /\ recent'[1] \in Nat /\ recent'[2] \in Nat
      /\ UNCHANGED <<tokens, job, call, result>>
  BY DEF IInv, Typed
<1>8. Typed /\ Metered /\ pc = "send" /\ UNCHANGED <<tokens, job>>
  BY <1>1, <1>5 DEF IInv
<1>6. CASE Retryable(r) /\ attempt < MaxAttempts
  <2>1. Retry(r) /\ UNCHANGED got
    BY <1>6
  <2>2. /\ Delay(attempt, r) \in Int /\ r.wait.ticks \in Nat
        /\ r.wait.form # "date" => r.wait.ticks <= Delay(attempt, r)
    BY <1>2, DelayCoversWait DEF IInv, Typed
  <2>3. Typed' /\ Waiting'
    BY <1>2, <1>5, <2>1, <2>2 DEF IInv, Typed, Busy, Waiting, Retry
  <2>4. Metered'
    BY <1>5, <1>8, <2>1, SentIsMetered DEF Retry
  <2>5. Underway'
    BY <1>1, <1>5, <2>1 DEF IInv, Underway, Busy, Retry
  <2> QED
    BY <1>4, <2>3, <2>4, <2>5 DEF IInv
<1>7. CASE ~(Retryable(r) /\ attempt < MaxAttempts)
  <2>1. /\ pc' = "classify" /\ got' = Append(got, r) /\ reply' = r
        /\ owed' = 0 /\ UNCHANGED <<hold, attempt>>
    BY <1>7
  <2>2. /\ got' \in Seq(Received) /\ Len(got') = Len(got) + 1
        /\ \A i \in 1..Len(got) : got'[i] = got[i]
        /\ got'[Len(got) + 1] = r
    BY <1>2, <2>1 DEF IInv, Typed
  <2>3. Len(got) = call - 1 /\ call \in Nat \ {0}
    BY <1>1 DEF IInv, Typed, Underway, Busy
  <2>4. Typed' /\ Waiting'
    BY <1>1, <1>5, <2>1, <2>2 DEF IInv, Typed, Busy, Waiting
  <2>5. Metered'
    BY <1>5, <1>8, <2>1, SentIsMetered
  <2>6. Underway'
    BY <1>1, <1>5, <2>1, <2>2, <2>3 DEF IInv, Underway, Busy, Current
  <2> QED
    BY <1>4, <2>4, <2>5, <2>6 DEF IInv
<1> QED
  BY <1>6, <1>7

\* The adapter turns the answer of the client into a value or a named error, and
\* goes on to its next call or returns.
LEMMA ClassifiedPreserves ==
    ASSUME IInv, Classified
    PROVE  IInv'
<1> DEFINE r == Classify(Current, reply)
<1>1. /\ pc = "classify" /\ job \in Jobs /\ ~Refuses(job) /\ call \in 1..Len(Calls(job))
      /\ Len(Calls(job)) \in {1, 2} /\ Current.via \in Protocols
      /\ UNCHANGED <<live, job, reply, tokens, recent, got>>
  BY CallsShape DEF IInv, Typed, Underway, Busy, Current, Classified
<1>2. /\ Len(got) = call /\ got[call] = reply /\ reply \in Replies(Current.via)
      /\ call \in Nat \ {0} /\ result = "none" /\ got \in Seq(Received)
      /\ \A i \in 1..(call - 1) : Classify(Calls(job)[i], got[i]) = "ok"
  BY <1>1 DEF IInv, Typed, Underway, Busy
<1>3. CASE r = "ok" /\ call < Len(Calls(job))
  <2>1. /\ call' = call + 1 /\ attempt' = 1 /\ pc' = "check"
        /\ UNCHANGED <<result, hold, owed>>
    BY <1>3 DEF Classified, EndCall
  <2>2. Typed' /\ Waiting' /\ Metered'
    BY <1>1, <2>1 DEF IInv, Typed, Busy, Waiting, Metered, Outgoing
  <2>3. \A i \in 1..call : Classify(Calls(job)[i], got[i]) = "ok"
    BY <1>2, <1>3 DEF Current
  <2>4. Underway'
    BY <1>1, <1>2, <1>3, <2>1, <2>3 DEF Underway
  <2>5. CompleteOrNothing' /\ PermanentErrorsAreAnswers'
    BY <1>2, <2>1 DEF CompleteOrNothing, PermanentErrorsAreAnswers
  <2> QED
    BY <2>2, <2>4, <2>5 DEF IInv
<1>4. CASE ~(r = "ok" /\ call < Len(Calls(job)))
  <2>1. Finish(r) /\ UNCHANGED <<call, attempt>>
    BY <1>4 DEF Classified, EndCall
  <2>2. Typed' /\ Waiting' /\ Metered' /\ Underway'
    BY <1>1, <2>1 DEF IInv, Typed, Busy, Waiting, Metered, Outgoing, Finish, Underway
  <2>3. CompleteOrNothing'
    <3> SUFFICES ASSUME r = "ok"
                 PROVE  /\ Len(got) = Len(Calls(job))
                        /\ \A i \in DOMAIN got : Classify(Calls(job)[i], got[i]) = "ok"
      BY <1>1, <2>1 DEF CompleteOrNothing, Finish
    <3>1. call = Len(Calls(job)) /\ DOMAIN got = 1..call
      BY <1>1, <1>2, <1>4
    <3> QED
      BY <1>2, <3>1 DEF Current
  <2>4. PermanentErrorsAreAnswers'
    <3> SUFFICES ASSUME r \in {"unsupported", "notfound", "invalid"}
                 PROVE  /\ got # <<>>
                        /\ got[Len(got)].status \in {"200", "404", "4xx"}
                        /\ got[Len(got)].content \notin KnownTemporary(Calls(job)[Len(got)].via)
      BY <1>1, <2>1 DEF PermanentErrorsAreAnswers, Finish
    <3>1. got # <<>>
      BY <1>2
    <3>2. /\ reply.status \in {"200", "404", "4xx"}
          /\ reply.content \notin KnownTemporary(Current.via)
      BY <1>1, <1>2, PermanentAnswer
    <3> QED
      BY <1>2, <3>1, <3>2 DEF Current
  <2> QED
    BY <2>2, <2>3, <2>4 DEF IInv
<1> QED
  BY <1>3, <1>4

\* The invariant holds in every state.
LEMMA Inductive == Spec => []IInv
<1>1. Init => IInv
  <2> SUFFICES ASSUME Init PROVE IInv
    OBVIOUS
  <2>2. Typed
    BY SourceFetchAssumption DEF Init, Typed
  <2>3. Metered /\ Waiting /\ Underway
    BY SourceFetchAssumption DEF Init, Metered, Waiting, Underway, Busy, Outgoing
  <2> QED
    BY <2>2, <2>3, NoResultYet DEF Init, IInv
<1>2. IInv /\ [Next]_vars => IInv'
  <2> SUFFICES ASSUME IInv, [Next]_vars PROVE IInv'
    OBVIOUS
  <2>1. ASSUME NEW j \in Jobs, Begin(j) PROVE IInv'
    BY <2>1, BeginPreserves
  <2>2. CASE ContextEnds
    BY <2>2, GivesUp DEF ContextEnds
  <2>3. CASE WaitTooLong
    BY <2>3, GivesUp DEF WaitTooLong
  <2>4. CASE CheckContext
    BY <2>4 DEF CheckContext, IInv, Typed, Metered, Outgoing, Waiting, Underway, Busy,
                CompleteOrNothing, PermanentErrorsAreAnswers
  <2>5. CASE Acquire
    <3>1. Metered'
      BY <2>5, MeterKept DEF Acquire, IInv
    <3>2. Typed'
      BY <2>5, SourceFetchAssumption DEF Acquire, IInv, Typed, Busy
    <3>3. Waiting' /\ Underway' /\ CompleteOrNothing' /\ PermanentErrorsAreAnswers'
      BY <2>5 DEF Acquire, IInv, Waiting, Underway, Busy, CompleteOrNothing,
                  PermanentErrorsAreAnswers
    <3> QED
      BY <3>1, <3>2, <3>3 DEF IInv
  <2>6. CASE EndBackoff
    BY <2>6 DEF EndBackoff, IInv, Typed, Metered, Outgoing, Waiting, Underway, Busy,
                CompleteOrNothing, PermanentErrorsAreAnswers
  <2>7. CASE Classified
    BY <2>7, ClassifiedPreserves
  <2>8. ASSUME NEW r \in Replies(Current.via), Send(r) PROVE IInv'
    BY <2>8, SendPreserves
  <2>9. CASE Tick
    <3>1. hold \in Int /\ owed \in Nat /\ recent[1] \in Nat
      BY DEF IInv, Typed
    <3>2. recent' = <<0, recent[1]>> /\ recent'[1] = 0 /\ recent'[2] = recent[1]
      BY <2>9 DEF Tick
    <3>3. tokens' \in 0..Burst /\ Metered'
      BY <2>9, TickIsMetered DEF IInv
    <3>5. Typed'
      <4>1. Dec(hold) \in Int /\ Dec(owed) \in Nat
        BY <3>1 DEF Dec
      <4> QED
        BY <2>9, <3>1, <3>2, <3>3, <4>1 DEF Tick, IInv, Typed
    <3>7. Waiting'
      BY <2>9, <3>1 DEF Tick, Dec, IInv, Waiting
    <3>6. Underway' /\ CompleteOrNothing' /\ PermanentErrorsAreAnswers'
      BY <2>9 DEF Tick, IInv, Underway, Current, CompleteOrNothing, PermanentErrorsAreAnswers
    <3> QED
      BY <3>3, <3>5, <3>6, <3>7 DEF IInv
  <2>10. CASE Cancel \/ UNCHANGED vars
    BY <2>10 DEF Cancel, vars, IInv, Typed, Metered, Outgoing, Waiting, Underway, Busy, Current,
                 CompleteOrNothing, PermanentErrorsAreAnswers
  <2> QED
    BY <2>1, <2>2, <2>3, <2>4, <2>5, <2>6, <2>7, <2>8, <2>9, <2>10 DEF Next, Step
<1> QED
  BY <1>1, <1>2, PTL DEF Spec

\* The upstream of an adapter that has a limiter sees at most the burst and one
\* request per tick, however often calls are retried: every attempt goes through
\* the limiter.
THEOREM RequestsAreMetered == Spec => []RateHeld
<1>1. IInv => RateHeld
  <2> SUFFICES ASSUME IInv, HasLimiter(job.adapter) PROVE recent[1] + recent[2] <= Burst + 2
    BY DEF RateHeld
  <2>1. recent[1] + recent[2] + tokens + Outgoing <= Burst + 2
    BY DEF IInv, Metered
  <2>2. recent[1] \in Nat /\ recent[2] \in Nat /\ tokens \in Nat /\ Burst \in Nat
    BY SourceFetchAssumption DEF IInv, Typed
  <2>3. Outgoing \in Nat
    BY DEF Outgoing
  <2> QED
    BY <2>1, <2>2, <2>3
<1> QED
  BY <1>1, Inductive, PTL

\* No attempt is sent after the context has ended, and no retry before the seconds
\* have passed that the last Retry-After asked for; one that holds a date delays
\* nothing beyond the backoff.
THEOREM RetriesAreHeldBack == Spec => RetriesWait
<1>1. IInv /\ [Next]_vars =>
        [pc = "send" /\ pc' \in {"backoff", "classify"} =>
           live /\ (owed = 0 \/ reply.wait.form = "date")]_vars
  <2> SUFFICES ASSUME IInv, [Next]_vars, pc = "send", pc' \in {"backoff", "classify"}
               PROVE  live /\ (owed = 0 \/ reply.wait.form = "date")
    OBVIOUS
  <2>1. \E r : Send(r)
    BY DEF Next, Step, Begin, ContextEnds, Finish, CheckContext, Acquire, WaitTooLong,
           EndBackoff, Classified, Tick, Cancel, vars
  <2> QED
    BY <2>1 DEF Send, IInv, Waiting
<1> QED
  BY <1>1, Inductive, PTL DEF Spec, RetriesWait

\* A fetch that succeeds has heard a usable answer to each of its calls.
THEOREM NothingLeftOver == Spec => []CompleteOrNothing
BY Inductive, PTL DEF IInv

\* An error callers take for permanent follows a response that is no 429 and no
\* 5xx, and nothing that its decoder knows to be temporary.
THEOREM PermanentMeansAnswered == Spec => []PermanentErrorsAreAnswers
BY Inductive, PTL DEF IInv
=============================================================================
