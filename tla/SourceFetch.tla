---------------------------- MODULE SourceFetch ----------------------------
(***************************************************************************)
(* One adapter instance serving the fetches of a run, one after the other:  *)
(* a fetch is a fixed sequence of HTTP calls, a call is up to MaxAttempts   *)
(* requests through the shared client (httpx), and the reply that ends a    *)
(* call is decoded and classified by the protocol it came over.             *)
(*                                                                         *)
(* The values themselves are left out: a reply carries a usable value, or   *)
(* one of the ways in which it does not.  Time is counted in ticks of the   *)
(* limiter, one token each; the jitter of the backoff is left out.          *)
(***************************************************************************)
EXTENDS Naturals, Sequences

CONSTANTS
    MaxAttempts,  \* RetryPolicy.MaxAttempts
    MaxDelay,     \* RetryPolicy.MaxDelay, in ticks; BaseDelay is one tick
    Burst,        \* the capacity of the limiter
    RetryAfters   \* the waits an upstream asks for, in ticks

ASSUME SourceFetchAssumption ==
    /\ MaxAttempts \in Nat \ {0} /\ MaxDelay \in Nat \ {0} /\ Burst \in Nat \ {0}
    /\ RetryAfters \subseteq Nat

VARIABLES
    live,     \* the context of the fetch has not ended
    job,      \* the fetch, of the one adapter this is about
    pc,       \* where the fetch is
    call,     \* the index of its current call
    attempt,  \* the current attempt of that call
    reply,    \* the last reply
    hold,     \* what is left of the backoff
    tokens,   \* the tokens of the limiter
    result,   \* what the last fetch returned
    owed,     \* history: what is left of the wait the upstream asked for
    recent,   \* history: requests sent in the current tick and the one before, up to a cap
    got       \* history: the replies the calls of the fetch ended with

vars == <<live, job, pc, call, attempt, reply, hold, tokens, result, owed, recent, got>>
-----------------------------------------------------------------------------
(* The adapters.                                                           *)

Adapters == {"rpc", "blockscout", "routescan"}
StateKinds == {"block", "addressLatest", "addressAtBlock", "erc20Balance", "erc20Holdings",
               "snapshot", "internalTxByTx", "internalTxByBlock"}
HeadKinds == {"tip", "finalized"}

\* pinned: the query names a block number as its anchor; archive and trace are
\* the options of the rpc adapter.
Jobs == {j \in [adapter : Adapters, kind : StateKinds \cup HeadKinds, pinned : BOOLEAN,
                archive : BOOLEAN, trace : BOOLEAN] :
            /\ j.kind \in HeadKinds => j.adapter = "rpc"
            /\ j.pinned => j.kind \in {"erc20Balance", "erc20Holdings"}
            /\ j.archive \/ j.trace => j.adapter = "rpc"}

\* The rpc adapter and Routescan build their client with a limiter; Blockscout's
\* is a bare httpx.New().
HasLimiter(adapter) == adapter # "blockscout"

\* Supports of each adapter, for the capabilities a kind of fetch returns.
RpcSupports(j) ==
    \/ j.kind \in {"block", "addressLatest", "erc20Balance"}
    \/ j.kind = "addressAtBlock" /\ j.archive
    \/ j.kind \in {"internalTxByTx", "internalTxByBlock"} /\ j.trace

BlockscoutSupports(j) == j.kind # "internalTxByBlock"
RoutescanSupports(j) == j.kind # "snapshot"
Supports(j) ==
    CASE j.adapter = "rpc"        -> RpcSupports(j)
      [] j.adapter = "blockscout" -> BlockscoutSupports(j)
      [] j.adapter = "routescan"  -> RoutescanSupports(j)

\* The fetches that return ErrUnsupported without a request.
Refuses(j) ==
    CASE j.adapter = "rpc" ->
           \/ j.kind \in {"snapshot", "erc20Holdings"}
           \/ ~j.archive /\ (j.kind = "addressAtBlock" \/ (j.kind = "erc20Balance" /\ j.pinned))
           \/ ~j.trace /\ j.kind \in {"internalTxByTx", "internalTxByBlock"}
      [] j.adapter = "blockscout" ->
           j.kind = "internalTxByBlock" \/ (j.kind = "erc20Holdings" /\ j.pinned)
      [] j.adapter = "routescan" ->
           j.kind = "snapshot" \/ (j.kind \in {"erc20Balance", "erc20Holdings"} /\ j.pinned)

(***************************************************************************)
(* The calls of a fetch.  via is the protocol: a JSON-RPC POST, a REST GET, *)
(* an Etherscan envelope, or the proxy module of one, whose body is raw     *)
(* JSON-RPC (Blockscout) or wrapped in the envelope (Routescan).  want is   *)
(* what the adapter decodes: an object it may miss, a text it parses, or a  *)
(* list or record of which it takes what it can.                            *)
(***************************************************************************)
Via(via, want) == [via |-> via, want |-> want]
Proxy(adapter, want) == Via(IF adapter = "blockscout" THEN "rawProxy" ELSE "wrappedProxy", want)

RpcBlock == <<Via("jsonrpc", "object")>>
RpcAddress == <<Via("jsonrpc", "text"), Via("jsonrpc", "text")>>
RpcToken == <<Via("jsonrpc", "text")>>
RpcTrace == <<Via("jsonrpc", "loose")>>
RpcTip == <<Via("jsonrpc", "text")>>
RpcFinalized == <<Via("jsonrpc", "head")>>
RpcCalls ==
    [block |-> RpcBlock, addressLatest |-> RpcAddress, addressAtBlock |-> RpcAddress,
     erc20Balance |-> RpcToken, internalTxByTx |-> RpcTrace, internalTxByBlock |-> RpcTrace,
     tip |-> RpcTip, finalized |-> RpcFinalized]

BlockscoutBlock == <<Proxy("blockscout", "object")>>
BlockscoutLatest == <<Via("rest", "text"), Proxy("blockscout", "text")>>
BlockscoutAtBlock == <<Proxy("blockscout", "text"), Proxy("blockscout", "text")>>
BlockscoutToken == <<Proxy("blockscout", "text")>>
BlockscoutHoldings == <<Via("rest", "text"), Via("rest", "loose")>>
BlockscoutSnapshot == <<Via("rest", "loose")>>
BlockscoutTrace == <<Via("rest", "loose")>>
BlockscoutCalls ==
    [block |-> BlockscoutBlock, addressLatest |-> BlockscoutLatest,
     addressAtBlock |-> BlockscoutAtBlock, erc20Balance |-> BlockscoutToken,
     erc20Holdings |-> BlockscoutHoldings, snapshot |-> BlockscoutSnapshot,
     internalTxByTx |-> BlockscoutTrace]

RoutescanBlock == <<Proxy("routescan", "object")>>
RoutescanAddress == <<Via("envelope", "text"), Proxy("routescan", "text")>>
RoutescanToken == <<Via("envelope", "text")>>
RoutescanList == <<Via("envelope", "loose")>>
RoutescanCalls ==
    [block |-> RoutescanBlock, addressLatest |-> RoutescanAddress,
     addressAtBlock |-> RoutescanAddress, erc20Balance |-> RoutescanToken,
     erc20Holdings |-> RoutescanList, internalTxByTx |-> RoutescanList,
     internalTxByBlock |-> RoutescanList]

Calls(j) ==
    CASE j.adapter = "rpc"        -> RpcCalls[j.kind]
      [] j.adapter = "blockscout" -> BlockscoutCalls[j.kind]
      [] j.adapter = "routescan"  -> RoutescanCalls[j.kind]
Current == Calls(job)[call]
-----------------------------------------------------------------------------
(* Replies.                                                                *)

\* What a 200 carries: a usable value; a text that does not parse; a number whose
\* digits do not; JSON of another type; null; no records; an error object or
\* message; no JSON; a body cut short, by the upstream, by a failed connection or
\* by the end of the context.  The errors: an unknown method; a request throttled
\* with words the client looks for (in JSON-RPC "rate limit" and a code of the
\* server band -32099..-32000), with other words in that band, or in any other
\* way; a fault of the server (-32603 or the band); another one.
Contents == {"value", "malformed", "badDigits", "mistyped", "null", "norecords", "unknownMethod",
             "throttled", "throttledServer", "throttledElse", "serverError", "otherError",
             "garbage", "cut"}

\* The contents each protocol can express.
Expresses(via) ==
    CASE via = "jsonrpc" \/ via = "rawProxy" -> Contents \ {"norecords"}
      [] via = "rest" -> {"value", "malformed", "badDigits", "mistyped", "null", "garbage", "cut"}
      [] OTHER -> Contents \ {"throttledServer"}

\* "5xx": 500, 502, 503 and 504; "other5xx": the rest.  "timeout" is the timeout
\* of the http.Client, which net/http reports as an exceeded deadline.  An error
\* page may be empty.  Retry-After is a number of seconds or a date.
NoWait == [form |-> "none", ticks |-> 0]
Waits == {NoWait} \cup {[form |-> f, ticks |-> n] : f \in {"seconds", "date"}, n \in RetryAfters}
Reply(status, wait, content) == [status |-> status, wait |-> wait, content |-> content]
Replies(via) ==
    {Reply("200", NoWait, c) : c \in Expresses(via)}
    \cup {Reply(s, w, c) : s \in {"429", "5xx"}, w \in Waits, c \in {"page", "nothing"}}
    \cup {Reply(s, NoWait, "page") : s \in {"other5xx", "404", "4xx"}}
    \cup {Reply(s, NoWait, "nothing") : s \in {"transport", "timeout"}}
NoReply == Reply("none", NoWait, "nothing")

\* DefaultRetryable: a transport error that is not a context error, or one of
\* five statuses.
Retryable(r) == r.status \in {"transport", "429", "5xx"}

\* The errors that come with a 200: JSON-RPC errors by their code, those behind
\* the proxy module, and the messages of the envelope.
RpcError(content) ==
    CASE content = "unknownMethod" -> "unsupported"
      [] content = "throttled"     -> "ratelimited"
      [] content \in {"throttledServer", "serverError"} -> "unavailable"
      [] OTHER                     -> "invalid"
ProxyError(content) == IF content = "unknownMethod" THEN "unsupported" ELSE "invalid"
EnvelopeError(content) ==
    CASE content = "unknownMethod" -> "unsupported"
      [] content = "throttled"     -> "ratelimited"
      [] OTHER                     -> "invalid"
DecodeError(via, content) ==
    CASE via = "jsonrpc"  -> RpcError(content)
      [] via = "rawProxy" -> ProxyError(content)
      [] OTHER            -> EnvelopeError(content)

\* The decoded outcome of a 200.
DecodeNull(want) ==
    CASE want = "object" -> "notfound"
      [] want = "head"   -> "unnamed"
      [] want = "text"   -> "invalid"
      [] want = "loose"  -> "ok"
Decode(via, want, content) ==
    CASE content = "value"     -> "ok"
      [] content = "null"      -> DecodeNull(want)
      [] content = "norecords" -> IF via = "envelope" /\ want = "loose" THEN "ok" ELSE "invalid"
      [] content \in {"malformed", "badDigits"} /\ want = "loose" -> "ok"
      [] content = "malformed" -> "invalid"
      [] content = "badDigits" -> IF via = "wrappedProxy" THEN "unnamed" ELSE "invalid"
      [] content = "mistyped"  -> IF via = "wrappedProxy" THEN "unnamed" ELSE "invalid"
      [] content = "cut"       -> IF via = "jsonrpc" THEN "unnamed" ELSE "invalid"
      [] OTHER                 -> DecodeError(via, content)

\* What an error status becomes; only the REST API knows a 404.
HTTPStatusError(via, status) ==
    CASE status = "429" -> "ratelimited"
      [] status \in {"5xx", "other5xx"}   -> "unavailable"
      [] status = "404" /\ via = "rest"   -> "notfound"
      [] status \in {"404", "4xx"}        -> "invalid"

\* Mutant of Classify: a client error is looked for first, and its range has no
\* upper end.
ClassifyClientFirst(c, r) ==
    CASE r.status = "transport" -> "unavailable"
      [] r.status = "timeout"   -> "context"
      [] r.status = "200"       -> Decode(c.via, c.want, r.content)
      [] OTHER                  -> "invalid"

\* What a call returns.  A retryable reply that ends a call has been drained and
\* closed; callRPC alone reads the body before it looks at the status.
BodyIsGone(c, r) == c.via = "jsonrpc" /\ r.status \in {"429", "5xx"} /\ r.content = "page"
Classify(c, r) ==
    CASE r.status = "transport" -> "unavailable"
      [] r.status = "timeout"   -> "context"
      [] r.status = "200"       -> Decode(c.via, c.want, r.content)
      [] BodyIsGone(c, r)       -> "unnamed"
      [] OTHER                  -> HTTPStatusError(c.via, r.status)
-----------------------------------------------------------------------------
(* The client.                                                             *)

\* BackoffDelay before the retry that follows the n-th attempt.
Backoff(n) == IF 2^(n - 1) > MaxDelay THEN MaxDelay ELSE 2^(n - 1)

\* parseRetryAfter reads a number of seconds; a date counts for nothing.
parseRetryAfter(w) == IF w.form = "seconds" THEN w.ticks ELSE 0

\* Mutant of Delay: Retry-After is taken when it is shorter.
DelayShorter(n, r) ==
    LET ra == parseRetryAfter(r.wait)
    IN  IF ra > 0 /\ ra < Backoff(n) THEN ra ELSE Backoff(n)

\* Retry-After wins if it is longer.
Delay(n, r) ==
    LET ra == parseRetryAfter(r.wait)
    IN  IF ra > Backoff(n) THEN ra ELSE Backoff(n)

\* Any adapter, with any options; it has made no fetch.
Init ==
    /\ live = TRUE /\ job \in {j \in Jobs : j.kind = "block"} /\ pc = "idle"
    /\ call = 1 /\ attempt = 1 /\ reply = NoReply /\ hold = 0
    /\ tokens = Burst /\ result = "none"
    /\ owed = 0 /\ recent = <<0, 0>> /\ got = <<>>

\* The fetch returns.
Finish(r) == pc' = "idle" /\ result' = r /\ hold' = 0 /\ owed' = 0

\* The run asks the adapter for the next fetch; the context is still the one of
\* the task.
Begin(j) ==
    /\ pc = "idle" /\ live
    /\ j.adapter = job.adapter /\ j.archive = job.archive /\ j.trace = job.trace
    /\ job' = j /\ call' = 1 /\ attempt' = 1 /\ reply' = NoReply /\ got' = <<>>
    /\ IF Refuses(j) THEN pc' = "idle" /\ result' = "unsupported"
                     ELSE pc' = "check" /\ result' = "none"
    /\ UNCHANGED <<live, hold, tokens, owed, recent>>

\* The context ends; a new task brings a new one.
Cancel ==
    /\ live' = ~live
    /\ live \/ pc = "idle"
    /\ UNCHANGED <<job, pc, call, attempt, reply, hold, tokens, result, owed, recent, got>>

\* Do returns the error of the context: before the limiter, in its queue, in
\* the request, or during the backoff.
ContextEnds ==
    /\ pc \in {"check", "limit", "send", "backoff"} /\ ~live
    /\ Finish("context")
    /\ UNCHANGED <<live, job, call, attempt, reply, tokens, recent, got>>

CheckContext ==
    /\ pc = "check" /\ live
    /\ pc' = "limit"
    /\ UNCHANGED <<live, job, call, attempt, reply, hold, tokens, result, owed, recent, got>>

\* limiter.Wait, if there is a limiter: a token, or an error when the token would
\* come after the deadline of the context.
Acquire ==
    /\ pc = "limit" /\ live
    /\ IF HasLimiter(job.adapter) THEN tokens > 0 /\ tokens' = tokens - 1 ELSE UNCHANGED tokens
    /\ pc' = "send"
    /\ UNCHANGED <<live, job, call, attempt, reply, hold, result, owed, recent, got>>

WaitTooLong ==
    /\ pc = "limit" /\ live /\ HasLimiter(job.adapter) /\ tokens = 0
    /\ Finish("unavailable")
    /\ UNCHANGED <<live, job, call, attempt, reply, tokens, recent, got>>

\* Mutants of Retry: no attempt is counted; the retry passes by the limiter.
RetryUncounted(r) ==
    /\ hold' = Delay(attempt, r) /\ owed' = r.wait.ticks
    /\ pc' = "backoff" /\ UNCHANGED attempt
RetryUnlimited(r) ==
    /\ hold' = 0 /\ owed' = 0
    /\ pc' = "send" /\ attempt' = attempt + 1

Retry(r) ==
    /\ hold' = Delay(attempt, r) /\ owed' = r.wait.ticks
    /\ pc' = "backoff" /\ attempt' = attempt + 1

\* More requests in a tick than a limiter can let through are not told apart.
RecentCap == Burst + 3

\* One attempt: the reply ends the call or is thrown away for another attempt.
Send(r) ==
    /\ pc = "send" /\ live
    /\ recent' = [recent EXCEPT ![1] = IF @ < RecentCap THEN @ + 1 ELSE @]
    /\ reply' = r
    /\ IF Retryable(r) /\ attempt < MaxAttempts
       THEN Retry(r) /\ UNCHANGED got
       ELSE pc' = "classify" /\ got' = Append(got, r) /\ owed' = 0 /\ UNCHANGED <<hold, attempt>>
    /\ UNCHANGED <<live, job, call, tokens, result>>

EndBackoff ==
    /\ pc = "backoff" /\ hold = 0 /\ live
    /\ pc' = "check"
    /\ UNCHANGED <<live, job, call, attempt, reply, hold, tokens, result, owed, recent, got>>

\* Mutant of EndCall: the error of a second call is dropped.
EndCallLenient ==
    LET r == Classify(Current, reply)
    IN  IF r = "ok" /\ call < Len(Calls(job))
        THEN /\ call' = call + 1 /\ attempt' = 1 /\ pc' = "check"
             /\ UNCHANGED <<result, hold, owed>>
        ELSE Finish(IF call > 1 THEN "ok" ELSE r) /\ UNCHANGED <<call, attempt>>

\* The adapter goes on to its next call, or returns the values or the error.
EndCall ==
    LET r == Classify(Current, reply)
    IN  IF r = "ok" /\ call < Len(Calls(job))
        THEN /\ call' = call + 1 /\ attempt' = 1 /\ pc' = "check"
             /\ UNCHANGED <<result, hold, owed>>
        ELSE Finish(r) /\ UNCHANGED <<call, attempt>>

Classified ==
    /\ pc = "classify"
    /\ EndCall
    /\ UNCHANGED <<live, job, reply, tokens, recent, got>>

Dec(n) == IF n = 0 THEN 0 ELSE n - 1

\* A tick: the limiter earns a token, timers advance.
Tick ==
    /\ tokens' = IF tokens < Burst THEN tokens + 1 ELSE tokens
    /\ hold' = Dec(hold) /\ owed' = Dec(owed)
    /\ recent' = <<0, recent[1]>>
    /\ UNCHANGED <<live, job, pc, call, attempt, reply, result, got>>

Step ==
    \/ ContextEnds \/ CheckContext \/ Acquire \/ WaitTooLong \/ EndBackoff \/ Classified
    \/ pc = "send" /\ \E r \in Replies(Current.via) : Send(r)

Next ==
    \/ \E j \in Jobs : Begin(j)
    \/ Step \/ Tick \/ Cancel

Spec == Init /\ [][Next]_vars

\* The goroutine is scheduled and every request is answered or times out; time
\* passes.
FairSpec == Spec /\ WF_vars(Step) /\ WF_vars(Tick)
-----------------------------------------------------------------------------
(* Properties.                                                             *)

\* The upstream of an adapter that has a limiter sees at most the burst and one
\* request per tick, however often its calls are retried and however many fetches
\* follow one another: every attempt goes through the limiter.  A window of two
\* ticks holds the burst, the token of the second tick and a request whose token
\* was taken just before the window.  Nothing bounds what Blockscout sees.
RateHeld == HasLimiter(job.adapter) => recent[1] + recent[2] <= Burst + 2

\* An attempt is not sent after the context has ended, and a retry not before the
\* seconds have passed that the Retry-After of the reply before it asked for.  A
\* date in that header delays nothing beyond the backoff: parseRetryAfter gives 0.
RetriesWait ==
    [][pc = "send" /\ pc' \in {"backoff", "classify"} =>
         live /\ (owed = 0 \/ reply.wait.form = "date")]_vars

\* A fetch that succeeds has heard a usable answer to each of its calls: no
\* value of a result is left over from a failed call.
CompleteOrNothing ==
    result = "ok" =>
        /\ Len(got) = Len(Calls(job))
        /\ \A i \in DOMAIN got : Classify(Calls(job)[i], got[i]) = "ok"

\* The contents of a 200 that a protocol's decoder recognises as temporary.  The
\* envelope knows the words of throttling only; the REST API and raw JSON-RPC
\* behind a proxy know nothing.  Only callRPC tells a cut body from an answer.
KnownTemporary(via) ==
    CASE via = "jsonrpc" -> {"throttled", "throttledServer", "serverError", "cut"}
      [] via \in {"envelope", "wrappedProxy"} -> {"throttled"}
      [] OTHER -> {}

\* An error that callers take for permanent follows a response with status 200 or
\* a client error: never a failed connection, a timeout, a 429 or a 5xx, retries
\* and all.  Of what a 200 reports inside, it is never something the protocol's
\* decoder knows to be temporary; throttling in other words, and a body cut short
\* outside JSON-RPC, do become permanent.  Without a request only "unsupported" is
\* returned, for what Supports does not claim or for an anchor that is pinned.
PermanentErrorsAreAnswers ==
    (result \in {"unsupported", "notfound", "invalid"}) =>
        IF got = <<>> THEN result = "unsupported" /\ (Supports(job) => job.pinned)
        ELSE LET last == got[Len(got)]
             IN  /\ last.status \in {"200", "404", "4xx"}
                 /\ last.content \notin KnownTemporary(Calls(job)[Len(got)].via)

\* Every fetch returns: retries are bounded and every wait ends.
FetchesReturn == (pc # "idle") ~> (pc = "idle")
=============================================================================
