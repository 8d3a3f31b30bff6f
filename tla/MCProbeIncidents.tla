-------------------------- MODULE MCProbeIncidents --------------------------
(***************************************************************************)
(* TLC instances of ProbeIncidents.  Clock units stand for the interval of *)
(* a probe, latencies for "fast" and "slow".                               *)
(***************************************************************************)
EXTENDS ProbeIncidents

Limit(metric, value, windowSec) == [metric |-> metric, value |-> value, windowSec |-> windowSec]

Response(status, ms) == [kind |-> "response", ms |-> ms, status |-> status]
Failure(kind, ms) == [kind |-> kind, ms |-> ms, status |-> 0]

\* Both ends of every class of status, an implausible one, and every way not to
\* get a response.  Only a success is slow (latency 2): the failures stay below
\* the latency limit, so that latency and errors trip apart.
MCReplies ==
    {Response(status, 0) : status \in {199, 200, 399, 400, 499, 500, 599, 999}}
    \cup {Response(200, 2)}
    \cup {Failure(kind, 0) : kind \in ReplyKinds \ {"response"}}

\* Two failures in a row, half of the last calls failed, a slow one among them.
Mixed == <<Limit("consecutive_failures", 2, 0), Limit("error_rate_pct", 50, 2),
           Limit("latency_p95_ms", 2, 1)>>
=============================================================================
