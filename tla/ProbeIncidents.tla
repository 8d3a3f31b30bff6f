--------------------------- MODULE ProbeIncidents ---------------------------
(***************************************************************************)
(* The probe context: RunProbe calls an endpoint and stores what it saw as *)
(* an Observation, EvaluateWindow aggregates recent observations and opens *)
(* or closes one Incident per threshold metric.                            *)
(*                                                                         *)
(* Both are use cases that any number of workers may execute at the same   *)
(* time for one probe.  Each repository call is a step: an evaluation      *)
(* fixes its clock, then per threshold reads the window, looks for an open *)
(* incident and writes.  An observation is identified by its timestamp;    *)
(* it is stamped before it is stored, so it may arrive late.               *)
(***************************************************************************)
EXTENDS Integers, FiniteSets, Sequences

CONSTANTS
    Probers,      \* concurrent executions of RunProbe
    Evaluators,   \* concurrent executions of EvaluateWindow
    Thresholds,   \* the probe's thresholds, a sequence of records
    Replies,      \* what may come of a call: [kind, ms, status]
    None,         \* no observation
    Interval,     \* ProbeSchedule.Interval
    PerFailure,   \* seconds of lookback per failure when WindowSec is 0 (10)
    EvidenceMax,  \* EvaluateWindow.EvidenceMax
    MaxTime,      \* bound on the clock
    Faults        \* TRUE: repository calls fail and workers crash

Time == 0..MaxTime
Null == -1

\* A response, or why there is none: the request cannot be built, the deadline
\* passes, the context is cancelled, the connection times out or breaks.
ReplyKinds == {"response", "unbuilt", "deadline", "cancelled", "netTimeout", "broken"}

\* Threshold.Validate.
Metrics == {"latency_p95_ms", "latency_p99_ms", "error_rate_pct", "consecutive_failures"}
Valid(th) ==
    /\ th.metric \in Metrics /\ th.value \in Nat /\ th.windowSec \in Int
    /\ th.metric # "error_rate_pct" => th.value > 0
    /\ th.metric = "error_rate_pct" => th.value <= 100
    /\ th.metric # "consecutive_failures" => th.windowSec > 0

\* NewProbe asks for at least one threshold, each valid and of its own metric.
ASSUME ProbeIncidentsAssumption ==
    /\ Interval \in Nat \ {0} /\ PerFailure \in Nat \ {0} /\ EvidenceMax \in Nat \ {0}
    /\ \A reply \in Replies : reply.kind \in ReplyKinds /\ reply.ms \in Nat
    /\ MaxTime \in Nat /\ Faults \in BOOLEAN
    /\ None \notin [ms : Nat, failed : BOOLEAN]
    /\ Len(Thresholds) \in Nat \ {0}
    /\ \A i \in 1..Len(Thresholds) : Valid(Thresholds[i])
    /\ \A i, j \in 1..Len(Thresholds) :
         Thresholds[i].metric = Thresholds[j].metric => i = j

VARIABLES
    now,        \* the clock
    enabled,    \* Probe.enabled
    obs,        \* obs[t]: the observation stamped t, or None
    incidents,  \* the incidents in the order they were saved
    probing,    \* probing[p]: "idle", "calling" or "saving"
    stamped,    \* stamped[p]: timestamp and result it is about to save
    pc,         \* pc[e]: "idle", "window", "find", "save" or "close"
    at,         \* at[e]: the clock of the evaluation
    k,          \* k[e]: the threshold it is at
    win,        \* win[e]: the timestamps ListWindow returned
    found       \* found[e]: the open incident FindOpen returned

probeVars == <<enabled, obs, probing, stamped>>
evalVars  == <<pc, at, k, win, found>>
vars == <<now, probeVars, incidents, evalVars>>

NoStamp == [at |-> Null, result |-> None]

Init ==
    /\ now = 0
    /\ enabled = TRUE
    /\ obs = [t \in Time |-> None]
    /\ incidents = <<>>
    /\ probing = [p \in Probers |-> "idle"]
    /\ stamped = [p \in Probers |-> NoStamp]
    /\ pc = [e \in Evaluators |-> "idle"]
    /\ at = [e \in Evaluators |-> 0]
    /\ k = [e \in Evaluators |-> 1]
    /\ win = [e \in Evaluators |-> {}]
    /\ found = [e \in Evaluators |-> 0]

Tick ==
    /\ now < MaxTime
    /\ now' = now + 1
    /\ UNCHANGED <<probeVars, incidents, evalVars>>

\* The operator saves the probe with the switch flipped.
Toggle ==
    /\ enabled' = ~enabled
    /\ UNCHANGED <<now, obs, probing, stamped, incidents, evalVars>>
-----------------------------------------------------------------------------
(* RunProbe.Execute.                                                       *)

\* FindByID; a disabled probe is refused.
StartProbe(p) ==
    /\ probing[p] = "idle" /\ enabled
    /\ probing' = [probing EXCEPT ![p] = "calling"]
    /\ UNCHANGED <<now, enabled, obs, stamped, incidents, evalVars>>

\* Timestamps of the observations made so far.
Stamps == {t \in Time : obs[t] # None} \cup {stamped[p].at : p \in Probers}

\* Prober.Probe: classifyResponse and classifyTransportError; without a request
\* nothing is measured.
Probe(reply) ==
    [ms     |-> IF reply.kind = "unbuilt" THEN 0 ELSE reply.ms,
     status |-> IF reply.kind = "response" THEN reply.status ELSE 0,
     class  |-> CASE reply.kind \in {"unbuilt", "broken"} -> "network"
                  [] reply.kind \in {"deadline", "cancelled", "netTimeout"} -> "timeout"
                  [] reply.kind = "response" /\ reply.status \in 200..399 -> "none"
                  [] reply.kind = "response" /\ reply.status \in 400..499 -> "http_4xx"
                  [] reply.kind = "response" /\ reply.status \in 500..599 -> "http_5xx"
                  [] OTHER -> "protocol"]

\* NewObservation: the status is a plausible one and agrees with the class.
Consistent(result) ==
    /\ result.status \in {0} \cup 100..599
    /\ result.class = "http_4xx" => result.status \in 400..499
    /\ result.class = "http_5xx" => result.status \in 500..599
    /\ result.class \in {"network", "timeout"} => result.status = 0

\* What the metrics see of an observation.
Observed(result) == [ms |-> result.ms, failed |-> result.class # "none"]

\* The call returns and NewObservation stamps it; calls come Interval apart.
Observe(p, reply) ==
    /\ probing[p] = "calling"
    /\ \A t \in Stamps : t = Null \/ t + Interval <= now
    /\ Consistent(Probe(reply))
    /\ stamped' = [stamped EXCEPT ![p] = [at |-> now, result |-> Observed(Probe(reply))]]
    /\ probing' = [probing EXCEPT ![p] = "saving"]
    /\ UNCHANGED <<now, enabled, obs, incidents, evalVars>>

EndProbe(p) ==
    /\ probing' = [probing EXCEPT ![p] = "idle"]
    /\ stamped' = [stamped EXCEPT ![p] = NoStamp]

SaveObservation(p) ==
    /\ probing[p] = "saving"
    /\ obs' = [obs EXCEPT ![stamped[p].at] = stamped[p].result]
    /\ EndProbe(p)
    /\ UNCHANGED <<now, enabled, incidents, evalVars>>

\* NewObservation refuses the result: Execute fails and nothing is stored.
RefuseResult(p, reply) ==
    /\ probing[p] = "calling"
    /\ ~Consistent(Probe(reply))
    /\ EndProbe(p)
    /\ UNCHANGED <<now, enabled, obs, incidents, evalVars>>

\* The save fails, or the worker dies: the observation is lost.
ProbeFails(p) ==
    /\ Faults
    /\ probing[p] # "idle"
    /\ EndProbe(p)
    /\ UNCHANGED <<now, enabled, obs, incidents, evalVars>>
-----------------------------------------------------------------------------
(* computeMetric, over the set W of timestamps of the window.              *)

\* percentileMS: the nearest rank is ceil(p * n); the value of that rank is
\* the one that so many observations do not exceed.
Percentile(W, p) ==
    LET rank == (p * Cardinality(W) + 99) \div 100
        atMost(v) == Cardinality({t \in W : obs[t].ms <= v})
        below(v) == Cardinality({t \in W : obs[t].ms < v})
    IN  CHOOSE v \in {obs[t].ms : t \in W} : below(v) < rank /\ rank <= atMost(v)

Failed(W) == {t \in W : obs[t].failed}

\* consecutiveFailures: the trailing run of errors.
Trailing(W) == {t \in W : \A u \in W : u >= t => u \in Failed(W)}

\* computeMetric's ok.
Sufficient(th, W) ==
    IF th.metric = "consecutive_failures" THEN Cardinality(W) >= th.value ELSE W # {}

\* observed >= th.Value, exactly.  The code divides in float64, where the rate falls
\* short of its limit for a few ratios (29 failures of 50 against 58 percent).
Tripped(th, W) ==
    CASE th.metric = "latency_p95_ms" -> Percentile(W, 95) >= th.value
      [] th.metric = "latency_p99_ms" -> Percentile(W, 99) >= th.value
      [] th.metric = "error_rate_pct" ->
           100 * Cardinality(Failed(W)) >= th.value * Cardinality(W)
      [] th.metric = "consecutive_failures" -> Cardinality(Trailing(W)) >= th.value

\* How far evaluateThreshold looks back.
Lookback(th) ==
    IF th.metric = "consecutive_failures" /\ th.windowSec <= 0
    THEN th.value * PerFailure ELSE th.windowSec

\* ListWindow(now - lookback, now).
ListWindow(th, t) == {u \in Time : t - Lookback(th) <= u /\ u <= t /\ obs[u] # None}

\* truncateObservations: the most recent EvidenceMax.
Truncate(W) == {t \in W : Cardinality({u \in W : u > t}) < EvidenceMax}
-----------------------------------------------------------------------------
(* EvaluateWindow.Execute.                                                 *)

StartEvaluation(e) ==
    /\ pc[e] = "idle"
    /\ at' = [at EXCEPT ![e] = now]
    /\ k' = [k EXCEPT ![e] = 1]
    /\ pc' = [pc EXCEPT ![e] = "window"]
    /\ UNCHANGED <<now, probeVars, incidents, win, found>>

\* The loop moves to the next threshold, or Execute returns.
NextThreshold(e) ==
    /\ k' = [k EXCEPT ![e] = IF @ < Len(Thresholds) THEN @ + 1 ELSE 1]
    /\ pc' = [pc EXCEPT ![e] = IF k[e] < Len(Thresholds) THEN "window" ELSE "idle"]
    /\ win' = [win EXCEPT ![e] = {}]
    /\ found' = [found EXCEPT ![e] = 0]

\* Observations.ListWindow; too little data changes nothing.
ReadWindow(e) ==
    LET th == Thresholds[k[e]]
        W == ListWindow(th, at[e])
    IN  /\ pc[e] = "window"
        /\ IF Sufficient(th, W)
           THEN /\ win' = [win EXCEPT ![e] = W]
                /\ pc' = [pc EXCEPT ![e] = "find"]
                /\ UNCHANGED <<k, found>>
           ELSE NextThreshold(e)
        /\ UNCHANGED <<now, probeVars, incidents, at>>

Open(metric) == {i \in 1..Len(incidents) : /\ incidents[i].metric = metric
                                           /\ incidents[i].closedAt = Null}

\* Mutant of FindOpen: an incident is opened without looking for an open one.
FindOpenBlind(e) ==
    LET th == Thresholds[k[e]]
    IN  /\ pc[e] = "find"
        /\ IF Tripped(th, win[e])
           THEN pc' = [pc EXCEPT ![e] = "save"] /\ UNCHANGED <<k, win, found>>
           ELSE NextThreshold(e)
        /\ UNCHANGED <<now, probeVars, incidents, at>>

\* Incidents.FindOpen; a repository with several open rows returns any.
FindOpen(e) ==
    LET th == Thresholds[k[e]]
        open == Open(th.metric)
    IN  /\ pc[e] = "find"
        /\ \/ /\ Tripped(th, win[e]) /\ open = {}
              /\ pc' = [pc EXCEPT ![e] = "save"]
              /\ UNCHANGED <<k, win, found>>
           \/ /\ ~Tripped(th, win[e]) /\ open # {}
              /\ found' \in {[found EXCEPT ![e] = i] : i \in open}
              /\ pc' = [pc EXCEPT ![e] = "close"]
              /\ UNCHANGED <<k, win>>
           \/ /\ Tripped(th, win[e]) <=> open # {}
              /\ NextThreshold(e)
        /\ UNCHANGED <<now, probeVars, incidents, at>>

\* Mutant of NewIncident: the evidence is read again when the row is written.
NewIncidentReread(e) ==
    [metric |-> Thresholds[k[e]].metric, openedAt |-> at[e], closedAt |-> Null,
     evidence |-> Truncate(ListWindow(Thresholds[k[e]], at[e]))]

NewIncident(e) ==
    [metric |-> Thresholds[k[e]].metric, openedAt |-> at[e], closedAt |-> Null,
     evidence |-> Truncate(win[e])]

SaveIncident(e) ==
    /\ pc[e] = "save"
    /\ incidents' = Append(incidents, NewIncident(e))
    /\ NextThreshold(e)
    /\ UNCHANGED <<now, probeVars, at>>

\* Execute returns early, nothing of it remains.
EndEvaluation(e) ==
    /\ pc' = [pc EXCEPT ![e] = "idle"]
    /\ k' = [k EXCEPT ![e] = 1]
    /\ win' = [win EXCEPT ![e] = {}]
    /\ found' = [found EXCEPT ![e] = 0]

\* Mutant of MayClose: an incident cannot close at the instant it opened.
MayCloseLater(i, t) == incidents[i].closedAt = Null /\ incidents[i].openedAt < t

\* Incident.Close: refused when it is closed already or opened later.
MayClose(i, t) == incidents[i].closedAt = Null /\ incidents[i].openedAt <= t

\* Incidents.CloseAt with the clock of the evaluation.
CloseIncident(e) ==
    /\ pc[e] = "close"
    /\ IF MayClose(found[e], at[e])
       THEN /\ incidents' = [incidents EXCEPT ![found[e]].closedAt = at[e]]
            /\ NextThreshold(e)
       ELSE UNCHANGED incidents /\ EndEvaluation(e)
    /\ UNCHANGED <<now, probeVars, at>>

\* A repository call fails, or the worker dies; a save whose answer is lost
\* has happened.
EvaluationFails(e) ==
    /\ Faults
    /\ pc[e] # "idle"
    /\ \/ UNCHANGED incidents
       \/ pc[e] = "save" /\ incidents' = Append(incidents, NewIncident(e))
    /\ EndEvaluation(e)
    /\ UNCHANGED <<now, probeVars, at>>
-----------------------------------------------------------------------------
EvaluationStep(e) ==
    \/ StartEvaluation(e) \/ ReadWindow(e) \/ FindOpen(e)
    \/ SaveIncident(e) \/ CloseIncident(e)

Next ==
    \/ Tick \/ Toggle
    \/ \E p \in Probers : \/ StartProbe(p) \/ SaveObservation(p) \/ ProbeFails(p)
                          \/ \E reply \in Replies : Observe(p, reply) \/ RefuseResult(p, reply)
    \/ \E e \in Evaluators : EvaluationStep(e) \/ EvaluationFails(e)

Spec == Init /\ [][Next]_vars

\* EvaluateWindow is fired periodically and runs to its end; nothing is assumed
\* of the probe, the operator or the clock.
FairSpec == Spec /\ \A e \in Evaluators : WF_vars(EvaluationStep(e))
-----------------------------------------------------------------------------
(* Properties.                                                             *)

ThresholdOf(metric) == CHOOSE th \in {Thresholds[i] : i \in 1..Len(Thresholds)} :
                          th.metric = metric

\* Every incident is backed by its evidence, whatever was observed, saved late
\* or evaluated concurrently: at most EvidenceMax observations of its window,
\* which trip the threshold when none was cut off, and whose newest is a
\* failure when failures in a row opened it.
EvidenceShowsBreach ==
    \A i \in 1..Len(incidents) :
        LET inc == incidents[i]
            th == ThresholdOf(inc.metric)
        IN  /\ inc.evidence # {} /\ Cardinality(inc.evidence) <= EvidenceMax
            /\ \A t \in inc.evidence : /\ obs[t] # None
                                       /\ inc.openedAt - Lookback(th) <= t /\ t <= inc.openedAt
            /\ Cardinality(inc.evidence) < EvidenceMax => Tripped(th, inc.evidence)
            /\ inc.metric = "consecutive_failures" => Trailing(inc.evidence) # {}

\* With one evaluation at a time the incidents of a metric follow one another:
\* each is closed, not before it was opened, before the next one opens.
IncidentsInSequence ==
    \A i, j \in 1..Len(incidents) :
        (incidents[i].metric = incidents[j].metric /\ i < j) =>
            /\ incidents[i].closedAt # Null
            /\ incidents[i].openedAt <= incidents[i].closedAt
            /\ incidents[i].closedAt <= incidents[j].openedAt

\* The incident table follows the metric, however many evaluations failed
\* before: once all their steps are regular ones and the current window stays
\* tripped an incident stays open, and once it stays recovered none does.
IncidentsFollowMetric ==
    <>[][\A e \in Evaluators : EvaluationFails(e) => EvaluationStep(e)]_vars =>
        \A n \in 1..Len(Thresholds) :
            LET th == Thresholds[n]
                W == ListWindow(th, now)
            IN  /\ <>[](Sufficient(th, W) /\ Tripped(th, W)) => <>[](Open(th.metric) # {})
                /\ <>[](Sufficient(th, W) /\ ~Tripped(th, W)) => <>[](Open(th.metric) = {})
=============================================================================
