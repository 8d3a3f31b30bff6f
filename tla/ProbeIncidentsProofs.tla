------------------------ MODULE ProbeIncidentsProofs ------------------------
(***************************************************************************)
(* Proofs about the incidents of ProbeIncidents, for any number of probe    *)
(* calls and evaluations at the same time, any valid thresholds and any     *)
(* replies.                                                                 *)
(***************************************************************************)
EXTENDS ProbeIncidents, SequenceTheorems, FiniteSetTheorems, WellFoundedInduction, TLAPS

-----------------------------------------------------------------------------
(* The evidence of an incident: the most recent timestamps of a window.     *)

\* Every set of timestamps is finite.
LEMMA TimesAreFinite ==
    ASSUME NEW W \in SUBSET Time
    PROVE  IsFiniteSet(W) /\ Cardinality(W) \in Nat
<1>1. IsFiniteSet(Time)
  BY ProbeIncidentsAssumption, FS_Interval DEF Time
<1> QED
  BY <1>1, FS_Subset, FS_CardinalityType

\* A set of timestamps has an oldest.
LEMMA Oldest ==
    ASSUME NEW W \in SUBSET Time, W # {}
    PROVE  \E t \in W : \A u \in W : t <= u
<1>1. W \subseteq Nat
  BY ProbeIncidentsAssumption DEF Time
<1>2. PICK t \in W : \A u \in W : ~(<<u, t>> \in OpToRel(<, Nat))
  BY <1>1, NatLessThanWellFounded, WFMin
<1>3. \A u, v \in Nat : u < v => <<u, v>> \in OpToRel(<, Nat)
  BY DEF OpToRel
<1>4. \A u \in W : ~(u < t)
  BY <1>1, <1>2, <1>3
<1>5. \A u \in W : t <= u
  BY <1>1, <1>4
<1> QED
  BY <1>5

\* A set of timestamps has a newest.
LEMMA Newest ==
    ASSUME NEW W \in SUBSET Time, W # {}
    PROVE  \E t \in W : \A u \in W : u <= t
<1> DEFINE V == {v \in Time : MaxTime - v \in W}
<1>1. MaxTime \in Nat /\ \A u \in W : u \in Nat /\ u <= MaxTime
  BY ProbeIncidentsAssumption DEF Time
<1>2. \A u \in W : MaxTime - u \in V
  BY <1>1 DEF Time
<1>3. V \in SUBSET Time /\ V # {}
  BY <1>2
<1>4. PICK v \in V : \A u \in V : v <= u
  BY <1>3, Oldest
<1>5. MaxTime - v \in W /\ v \in Nat
  BY <1>1, <1>4 DEF Time
<1>6. \A u \in W : u <= MaxTime - v
  BY <1>1, <1>2, <1>4, <1>5
<1> QED
  BY <1>5, <1>6

Later(W, t) == {u \in W : u > t}

\* Truncating keeps at most EvidenceMax timestamps, and all of them when that
\* leaves fewer; it keeps the newest.
LEMMA TruncateKeeps ==
    ASSUME NEW W \in SUBSET Time, W # {}
    PROVE  /\ Truncate(W) \subseteq W /\ Truncate(W) # {}
           /\ Cardinality(Truncate(W)) <= EvidenceMax
           /\ Cardinality(Truncate(W)) < EvidenceMax => Truncate(W) = W
           /\ \A t \in W : (\A u \in W : u <= t) => t \in Truncate(W)
<1> DEFINE T == Truncate(W)
<1>0. EvidenceMax \in Nat \ {0} /\ W \subseteq Nat
  BY ProbeIncidentsAssumption DEF Time
<1>11. \A t \in W : \A u : u \in Later(W, t) <=> u \in W /\ ~(u <= t)
  <2> SUFFICES ASSUME NEW t \in W, NEW u \in W PROVE u > t <=> ~(u <= t)
    BY DEF Later
  <2>1. t \in Nat /\ u \in Nat
    BY <1>0
  <2> QED
    BY <2>1
<1>1. \A t : t \in T <=> t \in W /\ Cardinality(Later(W, t)) < EvidenceMax
  BY DEF Truncate, Later
<1>2. \A t : Later(W, t) \in SUBSET Time
  BY DEF Later
<1>3. \A t : IsFiniteSet(Later(W, t)) /\ Cardinality(Later(W, t)) \in Nat
  BY <1>2, TimesAreFinite
<1>4. T \in SUBSET Time /\ T \subseteq W
  BY <1>1
<1>5. IsFiniteSet(T) /\ Cardinality(T) \in Nat
  BY <1>4, TimesAreFinite
<1>6. ASSUME NEW t \in W, \A u \in W : u <= t PROVE t \in T
  <2>1. Later(W, t) = {}
    BY <1>6, <1>11
  <2> QED
    BY <1>0, <1>1, <2>1, FS_EmptySet
<1>7. T # {}
  <2>1. PICK t \in W : \A u \in W : u <= t
    BY Newest
  <2> QED
    BY <1>6, <2>1
<1>8. Cardinality(T) <= EvidenceMax
  <2>1. PICK t \in T : \A u \in T : t <= u
    BY <1>4, <1>7, Oldest
  <2>2. T \ {t} \subseteq Later(W, t)
    <3>1. \A u \in T : u # t => ~(u <= t)
      <4> SUFFICES ASSUME NEW u \in T, u # t PROVE ~(u <= t)
        OBVIOUS
      <4>1. t \in Nat /\ u \in Nat /\ t <= u
        BY <1>0, <1>4, <2>1
      <4> QED
        BY <4>1
    <3> QED
      BY <1>4, <1>11, <2>1, <3>1
  <2>3. Cardinality(T \ {t}) = Cardinality(T) - 1
    BY <1>5, <2>1, FS_RemoveElement
  <2>4. Cardinality(T \ {t}) <= Cardinality(Later(W, t))
    BY <1>3, <2>2, FS_Subset
  <2>5. Cardinality(Later(W, t)) < EvidenceMax
    BY <1>1, <2>1
  <2> QED
    BY <1>0, <1>3, <1>5, <2>3, <2>4, <2>5
<1>9. ASSUME Cardinality(T) < EvidenceMax PROVE T = W
  <2> SUFFICES ASSUME W \ T # {} PROVE FALSE
    BY <1>4
  <2>1. W \ T \in SUBSET Time
    OBVIOUS
  <2>2. PICK t \in W \ T : \A u \in W \ T : u <= t
    BY <2>1, Newest
  <2>3. Later(W, t) \subseteq T
    BY <1>11, <2>2
  <2>4. Cardinality(Later(W, t)) <= Cardinality(T)
    BY <1>5, <2>3, FS_Subset
  <2>5. ~(Cardinality(Later(W, t)) < EvidenceMax)
    BY <1>1, <2>2
  <2> QED
    BY <1>0, <1>3, <1>5, <1>9, <2>4, <2>5
<1> HIDE DEF T
<1>10. T = Truncate(W)
  BY DEF T
<1> QED
  BY <1>4, <1>6, <1>7, <1>8, <1>9, <1>10
-----------------------------------------------------------------------------
(* Observations.                                                           *)

Results == [ms : Nat, failed : BOOLEAN]

\* The timestamps an observation is stored under.
Made == {t \in Time : obs[t] # None}

\* An observation that is about to be stored has a timestamp of its own.
Observations ==
    /\ now \in Time /\ DOMAIN obs = Time
    /\ DOMAIN probing = Probers /\ DOMAIN stamped = Probers
    /\ \A p \in Probers : probing[p] = "saving" =>
         /\ stamped[p].at \in 0..now /\ stamped[p].result \in Results
         /\ obs[stamped[p].at] = None
    /\ \A p, q \in Probers :
         (probing[p] = "saving" /\ probing[q] = "saving" /\ p # q) =>
           stamped[p].at # stamped[q].at

\* What has been stored stays as it is.
Kept == \A t \in Made : t \in Made' /\ obs'[t] = obs[t]

\* What is stored of a reply.
LEMMA ObservedIsResult ==
    ASSUME NEW reply \in Replies
    PROVE  Observed(Probe(reply)) \in Results
<1>1. reply.ms \in Nat
  BY ProbeIncidentsAssumption
<1>2. Probe(reply).ms \in Nat
  BY <1>1 DEF Probe
<1> QED
  BY <1>2 DEF Observed, Results

\* A call that is not saving yet takes a timestamp nobody else has.
LEMMA ObserveStamps ==
    ASSUME Observations, NEW p \in Probers, NEW reply \in Replies, Observe(p, reply)
    PROVE  Observations'
<1> DEFINE res == Observed(Probe(reply))
<1>1. /\ probing[p] = "calling" /\ UNCHANGED <<now, obs>> /\ now \in Nat
      /\ probing' = [probing EXCEPT ![p] = "saving"]
      /\ stamped' = [stamped EXCEPT ![p] = [at |-> now, result |-> res]]
      /\ \A t \in Stamps : t = Null \/ t + Interval <= now
  BY ProbeIncidentsAssumption DEF Observe, Observations, Time
<1>2. res \in Results
  BY ObservedIsResult
<1> HIDE DEF res
<1>3. now \notin Stamps
  BY <1>1, ProbeIncidentsAssumption DEF Null
<1>4. obs[now] = None /\ \A q \in Probers : stamped[q].at # now
  BY <1>3 DEF Stamps, Observations
<1>5. /\ stamped'[p].at = now /\ stamped'[p].result = res /\ probing'[p] = "saving"
      /\ \A q \in Probers : q # p => stamped'[q] = stamped[q] /\ probing'[q] = probing[q]
      /\ DOMAIN probing' = Probers /\ DOMAIN stamped' = Probers
  BY <1>1 DEF Observations
<1>6. now \in 0..now
  BY <1>1
<1> QED
  BY <1>1, <1>2, <1>4, <1>5, <1>6 DEF Observations

\* A probe call that ends without an observation.
LEMMA EndStamps ==
    ASSUME Observations, NEW p \in Probers, EndProbe(p), UNCHANGED <<now, obs>>
    PROVE  Observations'
<1>1. /\ probing'[p] = "idle" /\ DOMAIN probing' = Probers /\ DOMAIN stamped' = Probers
      /\ \A q \in Probers : q # p => stamped'[q] = stamped[q] /\ probing'[q] = probing[q]
  BY DEF Observations, EndProbe
<1> QED
  BY <1>1 DEF Observations

\* A save fills a place that was empty.
LEMMA SaveStamps ==
    ASSUME Observations, NEW p \in Probers, SaveObservation(p)
    PROVE  Observations' /\ Kept
<1> DEFINE u == stamped[p].at
<1>1. /\ u \in 0..now /\ u \in Time /\ stamped[p].result \in Results /\ obs[u] = None
      /\ \A q \in Probers : probing[q] = "saving" /\ q # p => stamped[q].at # u
      /\ obs' = [obs EXCEPT ![u] = stamped[p].result] /\ now' = now
  BY ProbeIncidentsAssumption DEF Observations, SaveObservation, Time
<1>2. /\ probing'[p] = "idle" /\ DOMAIN probing' = Probers /\ DOMAIN stamped' = Probers
      /\ \A q \in Probers : q # p => stamped'[q] = stamped[q] /\ probing'[q] = probing[q]
  BY DEF Observations, SaveObservation, EndProbe
<1> HIDE DEF u
<1>3. /\ DOMAIN obs' = Time
      /\ \A t \in Time : t # u => obs'[t] = obs[t]
  BY <1>1 DEF Observations
<1>4. Kept
  BY <1>1, <1>3 DEF Kept, Made
<1>5. \A q \in Probers : probing'[q] = "saving" =>
        /\ stamped'[q].at \in 0..now /\ stamped'[q].result \in Results
        /\ obs'[stamped'[q].at] = None
  <2> SUFFICES ASSUME NEW q \in Probers, probing'[q] = "saving"
               PROVE  /\ stamped'[q].at \in 0..now /\ stamped'[q].result \in Results
                      /\ obs'[stamped'[q].at] = None
    OBVIOUS
  <2>1. q # p /\ stamped'[q] = stamped[q] /\ probing[q] = "saving"
    BY <1>2
  <2>2. stamped[q].at \in 0..now /\ stamped[q].result \in Results /\ obs[stamped[q].at] = None
    BY <2>1 DEF Observations
  <2>3. stamped[q].at \in Time /\ stamped[q].at # u
    BY <1>1, <2>1, <2>2, ProbeIncidentsAssumption DEF Observations, Time
  <2> QED
    BY <1>3, <2>1, <2>2, <2>3
<1> QED
  BY <1>1, <1>2, <1>3, <1>4, <1>5 DEF Observations

\* Observations keep their timestamps apart and are never overwritten.
LEMMA ObservationsKept ==
    ASSUME Observations, [Next]_vars
    PROVE  Observations' /\ Kept
<1>1. ASSUME UNCHANGED obs PROVE Kept
  BY <1>1 DEF Kept, Made
<1>2. CASE UNCHANGED <<now, obs, probing, stamped>>
  BY <1>1, <1>2 DEF Observations
<1>3. CASE Tick
  <2>1. now' \in Time /\ 0..now \subseteq 0..now' /\ UNCHANGED <<obs, probing, stamped>>
    BY <1>3, ProbeIncidentsAssumption DEF Tick, probeVars, Observations, Time
  <2> QED
    BY <1>1, <2>1 DEF Observations
<1>4. ASSUME NEW p \in Probers, StartProbe(p) PROVE Observations' /\ Kept
  <2>1. /\ UNCHANGED <<now, obs, stamped>> /\ DOMAIN probing' = Probers
        /\ \A q \in Probers : probing'[q] = "saving" => probing[q] = "saving"
    BY <1>4 DEF Observations, StartProbe
  <2> QED
    BY <1>1, <2>1 DEF Observations
<1>5. ASSUME NEW p \in Probers, SaveObservation(p) PROVE Observations' /\ Kept
  BY <1>5, SaveStamps
<1>6. ASSUME NEW p \in Probers, NEW reply \in Replies, Observe(p, reply) PROVE Observations' /\ Kept
  BY <1>1, <1>6, ObserveStamps DEF Observe
<1>7. ASSUME NEW p \in Probers, NEW reply \in Replies, RefuseResult(p, reply) PROVE Observations' /\ Kept
  BY <1>1, <1>7, EndStamps DEF RefuseResult
<1>8. ASSUME NEW p \in Probers, ProbeFails(p) PROVE Observations' /\ Kept
  BY <1>1, <1>8, EndStamps DEF ProbeFails
<1>9. ASSUME NEW e \in Evaluators, EvaluationStep(e) \/ EvaluationFails(e)
      PROVE  UNCHANGED <<now, obs, probing, stamped>>
  BY <1>9 DEF EvaluationStep, EvaluationFails, StartEvaluation, ReadWindow, FindOpen, SaveIncident,
              CloseIncident, probeVars
<1>10. CASE Toggle \/ UNCHANGED vars
  BY <1>2, <1>10 DEF Toggle, vars, probeVars
<1> QED
  BY <1>2, <1>3, <1>4, <1>5, <1>6, <1>7, <1>8, <1>9, <1>10 DEF Next
-----------------------------------------------------------------------------
(* Evidence.                                                               *)

\* A sequence, of whatever elements.
ASequence(s) == \E S : s \in Seq(S)

InWindow(th, W, t) == \A u \in W : t - Lookback(th) <= u /\ u <= t

\* E is evidence for an incident that th opened at t.
BackedBy(th, E, t) ==
    /\ E # {} /\ E \subseteq Made /\ Cardinality(E) <= EvidenceMax
    /\ InWindow(th, E, t)
    /\ Cardinality(E) < EvidenceMax => Tripped(th, E)
    /\ th.metric = "consecutive_failures" => Trailing(E) # {}

Evaluations ==
    /\ DOMAIN pc = Evaluators /\ DOMAIN at = Evaluators /\ DOMAIN k = Evaluators
    /\ DOMAIN win = Evaluators /\ DOMAIN found = Evaluators
    /\ \A e \in Evaluators : /\ pc[e] \in {"idle", "window", "find", "save", "close"}
                             /\ at[e] \in Nat /\ k[e] \in 1..Len(Thresholds)

\* What an evaluation holds between its steps.
Holds(e) ==
    /\ pc[e] \in {"find", "save"} =>
         win[e] # {} /\ win[e] \subseteq Made /\ InWindow(Thresholds[k[e]], win[e], at[e])
    /\ pc[e] = "save" =>
         \A th, W : th = Thresholds[k[e]] /\ W = win[e] => Tripped(th, W)
    /\ pc[e] = "close" => found[e] \in 1..Len(incidents)

Windows == \A e \in Evaluators : Holds(e)

Fields == {"metric", "openedAt", "closedAt", "evidence"}

Backed ==
    /\ ASequence(incidents)
    /\ \A i \in 1..Len(incidents) :
         /\ DOMAIN incidents[i] = Fields
         /\ \E n \in 1..Len(Thresholds) :
              /\ incidents[i].metric = Thresholds[n].metric
              /\ \A E, t : E = incidents[i].evidence /\ t = incidents[i].openedAt =>
                   BackedBy(Thresholds[n], E, t)

\* The inductive invariant.  The verdict an evaluation has reached is about
\* observations it no longer reads: it stands because they are never changed.
IInv == Observations /\ Evaluations /\ Windows /\ Backed

\* A window in which a threshold trips shows it, whatever is stored later.
LEMMA SameVerdict ==
    ASSUME Kept
    PROVE  \A th : \A W \in SUBSET Made : Valid(th) => (Tripped(th, W)' <=> Tripped(th, W))
<1> SUFFICES ASSUME NEW th, NEW W \in SUBSET Made, Valid(th) PROVE Tripped(th, W)' <=> Tripped(th, W)
  OBVIOUS
<1>1. \A t \in W : obs'[t] = obs[t]
  BY DEF Kept
<1>2. Failed(W)' = Failed(W)
  BY <1>1 DEF Failed
<1>3. Trailing(W)' = Trailing(W)
  BY <1>2 DEF Trailing
<1>4. \A p : Percentile(W, p)' = Percentile(W, p)
  <2> SUFFICES ASSUME NEW p PROVE Percentile(W, p)' = Percentile(W, p)
    OBVIOUS
  <2>1. \A v : /\ {t \in W : obs'[t].ms <= v} = {t \in W : obs[t].ms <= v}
               /\ {t \in W : obs'[t].ms < v} = {t \in W : obs[t].ms < v}
    BY <1>1
  <2>2. {obs'[t].ms : t \in W} = {obs[t].ms : t \in W}
    BY <1>1
  <2> QED
    BY <2>1, <2>2 DEF Percentile
<1> QED
  BY <1>2, <1>3, <1>4 DEF Tripped, Valid, Metrics

\* Likewise for the evidence of an incident.
LEMMA SameEvidence ==
    ASSUME Kept
    PROVE  \A th, E, t : Valid(th) /\ BackedBy(th, E, t) => BackedBy(th, E, t)'
<1> SUFFICES ASSUME NEW th, Valid(th), NEW E, NEW t, BackedBy(th, E, t) PROVE BackedBy(th, E, t)'
  OBVIOUS
<1>1. E \subseteq Made /\ E \subseteq Made'
  BY DEF BackedBy, Kept
<1>2. Tripped(th, E)' <=> Tripped(th, E)
  BY <1>1, SameVerdict
<1>3. Trailing(E)' = Trailing(E)
  <2>1. \A u \in E : obs'[u] = obs[u]
    BY <1>1 DEF Kept
  <2> QED
    BY <2>1 DEF Trailing, Failed
<1> QED
  BY <1>1, <1>2, <1>3 DEF BackedBy

\* The truncated window of a threshold that tripped is evidence for it.
LEMMA TruncatedIsEvidence ==
    ASSUME NEW th, Valid(th), NEW W \in SUBSET Made, W # {}, NEW t, InWindow(th, W, t),
           Tripped(th, W)
    PROVE  BackedBy(th, Truncate(W), t)
<1>1. W \in SUBSET Time
  BY DEF Made
<1> DEFINE E == Truncate(W)
<1>2. /\ E \subseteq W /\ E # {} /\ Cardinality(E) <= EvidenceMax
      /\ Cardinality(E) < EvidenceMax => E = W
      /\ \A u \in W : (\A v \in W : v <= u) => u \in E
  BY <1>1, TruncateKeeps
<1> HIDE DEF E
<1>3. ASSUME th.metric = "consecutive_failures" PROVE Trailing(E) # {}
  <2>1. Cardinality(Trailing(W)) >= th.value /\ th.value \in Nat /\ th.value > 0
    BY <1>3 DEF Tripped, Valid
  <2>2. Trailing(W) # {}
    BY <2>1, FS_EmptySet
  <2>3. PICK u \in W : \A v \in W : v <= u
    BY <1>1, Newest
  <2>4. PICK v \in W : \A w \in W : w >= v => w \in Failed(W)
    BY <2>2 DEF Trailing
  <2>5. u \in Nat /\ v \in Nat /\ v <= u /\ W \subseteq Nat
    BY <1>1, <2>3, ProbeIncidentsAssumption DEF Time
  <2>6. obs[u].failed /\ u \in E
    BY <1>2, <2>3, <2>4, <2>5 DEF Failed
  <2>7. \A w \in E : w >= u => w = u
    BY <1>2, <2>3, <2>5
  <2>8. u \in Trailing(E)
    BY <2>6, <2>7 DEF Trailing, Failed
  <2> QED
    BY <2>8
<1> QED
  BY <1>2, <1>3 DEF BackedBy, InWindow, E

\* The length and the indices of a sequence over no particular set.
LEMMA SequenceShape ==
    ASSUME NEW s, ASequence(s)
    PROVE  Len(s) \in Nat /\ DOMAIN s = 1..Len(s)
<1>1. PICK S : s \in Seq(S)
  BY DEF ASequence
<1> QED
  BY <1>1, LenProperties

\* An incident is appended.
LEMMA AppendShape ==
    ASSUME NEW s, ASequence(s), NEW x
    PROVE  /\ ASequence(Append(s, x)) /\ Len(Append(s, x)) = Len(s) + 1
           /\ \A i \in 1..Len(s) : Append(s, x)[i] = s[i]
           /\ Append(s, x)[Len(s) + 1] = x
<1>1. PICK S : s \in Seq(S)
  BY DEF ASequence
<1> DEFINE T == S \cup {x}
<1>2. s \in Seq(T) /\ x \in T
  BY <1>1, SeqMonotonic
<1> HIDE DEF T
<1>3. Append(s, x) \in Seq(T)
  BY <1>2
<1>4. /\ Len(Append(s, x)) = Len(s) + 1
      /\ \A i \in 1..Len(s) : Append(s, x)[i] = s[i]
      /\ Append(s, x)[Len(s) + 1] = x
  BY <1>2
<1> QED
  BY <1>3, <1>4 DEF ASequence

\* A function on a sequence's indices is a sequence of the same length.
LEMMA SameIndices ==
    ASSUME NEW s, ASequence(s), NEW t, t = [j \in DOMAIN s |-> t[j]]
    PROVE  ASequence(t) /\ Len(t) = Len(s)
<1> DEFINE n == Len(s)
           T == {t[j] : j \in 1..n}
<1>1. n \in Nat /\ t = [j \in 1..n |-> t[j]]
  BY SequenceShape
<1>2. t \in [1..n -> T]
  BY <1>1
<1> HIDE DEF n, T
<1>3. t \in Seq(T)
  BY <1>1, <1>2, SeqDef
<1>4. Len(t) \in Nat /\ 1..n = 1..Len(t)
  BY <1>1, <1>3, LenProperties
<1>5. Len(t) = n
  BY <1>1, <1>4
<1> QED
  BY <1>3, <1>5 DEF ASequence, n

\* An incident in the table is at most closed.
Opened(i) ==
    /\ DOMAIN incidents'[i] = Fields
    /\ incidents'[i].metric = incidents[i].metric
    /\ incidents'[i].openedAt = incidents[i].openedAt
    /\ incidents'[i].evidence = incidents[i].evidence

\* How a step changes the table: not at all, by one new incident, or by closing
\* one.
Extends(e) ==
    /\ ASequence(incidents') /\ Len(incidents') = Len(incidents) + 1
    /\ \A i \in 1..Len(incidents) : incidents'[i] = incidents[i]
    /\ incidents'[Len(incidents) + 1] = NewIncident(e)

Closes(i, t) ==
    /\ ASequence(incidents') /\ Len(incidents') = Len(incidents)
    /\ \A j \in 1..Len(incidents) : Opened(j)
    /\ \A j \in 1..Len(incidents) : j # i => incidents'[j] = incidents[j]
    /\ incidents'[i].closedAt = t

\* IncidentRepository.Save of a new incident: the list grows by it.
LEMMA AppendExtends ==
    ASSUME ASequence(incidents), NEW e, incidents' = Append(incidents, NewIncident(e))
    PROVE  Extends(e)
<1> DEFINE inc == NewIncident(e)
<1> HIDE DEF inc
<1>1. incidents' = Append(incidents, inc)
  BY DEF inc
<1>2. /\ ASequence(incidents') /\ Len(incidents') = Len(incidents) + 1
      /\ \A i \in 1..Len(incidents) : incidents'[i] = incidents[i]
      /\ incidents'[Len(incidents) + 1] = inc
  BY <1>1, AppendShape
<1> QED
  BY <1>2 DEF Extends, inc

\* IncidentRepository.CloseAt: one incident gets its end, no other changes.
LEMMA ExceptCloses ==
    ASSUME Backed, NEW i \in 1..Len(incidents), NEW t,
           incidents' = [incidents EXCEPT ![i].closedAt = t]
    PROVE  Closes(i, t)
<1>1. ASequence(incidents) /\ DOMAIN incidents = 1..Len(incidents)
  BY SequenceShape DEF Backed
<1>2. incidents' = [j \in DOMAIN incidents |-> incidents'[j]]
  OBVIOUS
<1>3. ASequence(incidents') /\ Len(incidents') = Len(incidents)
  BY <1>1, <1>2, SameIndices
<1>4. /\ \A j \in 1..Len(incidents) : j # i => incidents'[j] = incidents[j]
      /\ incidents'[i] = [incidents[i] EXCEPT !.closedAt = t]
  BY <1>1
<1>5. \A j \in 1..Len(incidents) : DOMAIN incidents[j] = Fields
  BY DEF Backed
<1>6. Opened(i) /\ incidents'[i].closedAt = t
  BY <1>4, <1>5 DEF Opened, Fields
<1>7. \A j \in 1..Len(incidents) : Opened(j)
  BY <1>4, <1>5, <1>6 DEF Opened
<1> QED
  BY <1>3, <1>4, <1>6, <1>7 DEF Closes

\* Incidents stay backed while observations are kept.
LEMMA BackedKept ==
    ASSUME Backed, Kept, ASequence(incidents'), Len(incidents) <= Len(incidents'),
           \A i \in 1..Len(incidents) : Opened(i)
    PROVE  \A i \in 1..Len(incidents) :
             /\ DOMAIN incidents'[i] = Fields
             /\ \E n \in 1..Len(Thresholds) :
                  /\ incidents'[i].metric = Thresholds[n].metric
                  /\ \A E, t : E = incidents'[i].evidence /\ t = incidents'[i].openedAt =>
                       BackedBy(Thresholds[n], E, t)'
<1> SUFFICES ASSUME NEW i \in 1..Len(incidents)
             PROVE  /\ DOMAIN incidents'[i] = Fields
                    /\ \E n \in 1..Len(Thresholds) :
                         /\ incidents'[i].metric = Thresholds[n].metric
                         /\ \A E, t : E = incidents'[i].evidence /\ t = incidents'[i].openedAt =>
                              BackedBy(Thresholds[n], E, t)'
  OBVIOUS
<1>1. Opened(i)
  OBVIOUS
<1>2. PICK n \in 1..Len(Thresholds) :
        /\ incidents[i].metric = Thresholds[n].metric
        /\ \A E, t : E = incidents[i].evidence /\ t = incidents[i].openedAt =>
             BackedBy(Thresholds[n], E, t)
  BY DEF Backed
<1>3. Valid(Thresholds[n])
  BY ProbeIncidentsAssumption
<1>4. \A E, t : BackedBy(Thresholds[n], E, t) => BackedBy(Thresholds[n], E, t)'
  BY <1>3, SameEvidence
<1> QED
  BY <1>1, <1>2, <1>4 DEF Opened
-----------------------------------------------------------------------------
(* Steps of the evaluations.                                               *)

\* Evaluation e is where it was.
Still(e) == /\ pc'[e] = pc[e] /\ at'[e] = at[e] /\ k'[e] = k[e]
            /\ win'[e] = win[e] /\ found'[e] = found[e]

\* An evaluation does not touch another.
LEMMA OthersStill ==
    ASSUME Evaluations, NEW e \in Evaluators, NEW f \in Evaluators, e # f,
           EvaluationStep(f) \/ EvaluationFails(f)
    PROVE  Still(e)
<1>1. ASSUME NextThreshold(f), UNCHANGED at PROVE Still(e)
  BY <1>1 DEF NextThreshold, Evaluations, Still
<1>2. ASSUME EndEvaluation(f), UNCHANGED at PROVE Still(e)
  BY <1>2 DEF EndEvaluation, Evaluations, Still
<1>3. CASE StartEvaluation(f)
  BY <1>3 DEF StartEvaluation, Evaluations, Still
<1>4. CASE ReadWindow(f)
  BY <1>1, <1>4 DEF ReadWindow, Evaluations, Still
<1>5. CASE FindOpen(f)
  <2>1. UNCHANGED at
    BY <1>5 DEF FindOpen
  <2>2. CASE NextThreshold(f)
    BY <1>1, <2>1, <2>2
  <2>3. CASE ~NextThreshold(f)
    BY <1>5, <2>3 DEF FindOpen, Evaluations, Still
  <2> QED
    BY <2>2, <2>3
<1>6. CASE SaveIncident(f)
  BY <1>1, <1>6 DEF SaveIncident
<1>7. CASE CloseIncident(f)
  BY <1>1, <1>2, <1>7 DEF CloseIncident
<1>8. CASE EvaluationFails(f)
  BY <1>2, <1>8 DEF EvaluationFails
<1> QED
  BY <1>3, <1>4, <1>5, <1>6, <1>7, <1>8 DEF EvaluationStep

\* Moving on to the next threshold, or ending, keeps the indices in range.
LEMMA NextInRange ==
    ASSUME Evaluations, NEW e \in Evaluators, UNCHANGED at,
           NextThreshold(e) \/ EndEvaluation(e)
    PROVE  Evaluations' /\ pc'[e] \in {"window", "idle"}
<1>1. Len(Thresholds) \in Nat /\ Len(Thresholds) > 0
  BY ProbeIncidentsAssumption
<1>2. k[e] \in 1..Len(Thresholds)
  BY DEF Evaluations
<1>3. CASE NextThreshold(e)
  <2> DEFINE n == IF k[e] < Len(Thresholds) THEN k[e] + 1 ELSE 1
  <2>1. n \in 1..Len(Thresholds)
    BY <1>1, <1>2
  <2>2. k' = [k EXCEPT ![e] = n]
    BY <1>3 DEF NextThreshold
  <2> HIDE DEF n
  <2> QED
    BY <1>3, <2>1, <2>2 DEF NextThreshold, Evaluations
<1>4. CASE EndEvaluation(e)
  <2>1. 1 \in 1..Len(Thresholds)
    BY <1>1
  <2> QED
    BY <1>4, <2>1 DEF EndEvaluation, Evaluations
<1> QED
  BY <1>3, <1>4

\* Every step of an evaluation keeps its types.
LEMMA EvaluationsKept ==
    ASSUME Evaluations, Observations, NEW e \in Evaluators, EvaluationStep(e) \/ EvaluationFails(e)
    PROVE  Evaluations'
<1>1. CASE StartEvaluation(e)
  <2>1. now \in Nat /\ 1 \in 1..Len(Thresholds)
    BY ProbeIncidentsAssumption DEF Observations, Time
  <2> QED
    BY <1>1, <2>1 DEF StartEvaluation, Evaluations
<1>2. CASE ReadWindow(e)
  <2>1. CASE NextThreshold(e)
    BY <1>2, <2>1, NextInRange DEF ReadWindow
  <2>2. CASE ~NextThreshold(e)
    BY <1>2, <2>2 DEF ReadWindow, Evaluations
  <2> QED
    BY <2>1, <2>2
<1>3. CASE FindOpen(e)
  <2>1. CASE NextThreshold(e)
    BY <1>3, <2>1, NextInRange DEF FindOpen
  <2>2. CASE ~NextThreshold(e)
    BY <1>3, <2>2 DEF FindOpen, Evaluations
  <2> QED
    BY <2>1, <2>2
<1>4. CASE SaveIncident(e)
  BY <1>4, NextInRange DEF SaveIncident
<1>5. CASE CloseIncident(e)
  BY <1>5, NextInRange DEF CloseIncident
<1>6. CASE EvaluationFails(e)
  BY <1>6, NextInRange DEF EvaluationFails
<1> QED
  BY <1>1, <1>2, <1>3, <1>4, <1>5, <1>6 DEF EvaluationStep

\* What happens to the table in a step.
TableStep ==
    \/ UNCHANGED incidents
    \/ \E e \in Evaluators : pc[e] = "save" /\ Extends(e)
    \/ \E e \in Evaluators : /\ pc[e] = "close" /\ MayClose(found[e], at[e])
                             /\ Closes(found[e], at[e])

\* An incident is opened by an evaluation that saves one and closed by one that
\* found it.
LEMMA TableChanges ==
    ASSUME IInv, NEW e \in Evaluators, EvaluationStep(e) \/ EvaluationFails(e)
    PROVE  TableStep
<1>1. ASequence(incidents) /\ Backed /\ Holds(e)
  BY DEF IInv, Backed, Windows
<1>2. CASE StartEvaluation(e) \/ ReadWindow(e) \/ FindOpen(e)
  BY <1>2 DEF StartEvaluation, ReadWindow, FindOpen, TableStep
<1>3. CASE SaveIncident(e)
  BY <1>1, <1>3, AppendExtends DEF SaveIncident, TableStep
<1>4. CASE CloseIncident(e)
  <2>1. pc[e] = "close" /\ found[e] \in 1..Len(incidents)
    BY <1>1, <1>4 DEF CloseIncident, Holds
  <2>2. CASE MayClose(found[e], at[e])
    <3>1. incidents' = [incidents EXCEPT ![found[e]].closedAt = at[e]]
      BY <1>4, <2>2 DEF CloseIncident
    <3>2. Closes(found[e], at[e])
      BY <1>1, <2>1, <3>1, ExceptCloses
    <3> QED
      BY <2>1, <2>2, <3>2 DEF TableStep
  <2>3. CASE ~MayClose(found[e], at[e])
    BY <1>4, <2>3 DEF CloseIncident, TableStep
  <2> QED
    BY <2>2, <2>3
<1>5. CASE EvaluationFails(e)
  BY <1>1, <1>5, AppendExtends DEF EvaluationFails, TableStep
<1> QED
  BY <1>2, <1>3, <1>4, <1>5 DEF EvaluationStep

\* The table keeps its incidents.
LEMMA TableGrows ==
    ASSUME IInv, TableStep
    PROVE  /\ ASequence(incidents) /\ ASequence(incidents') /\ Len(incidents) \in Nat
           /\ Len(incidents') \in {Len(incidents), Len(incidents) + 1}
           /\ \A i \in 1..Len(incidents) : Opened(i)
<1>1. ASequence(incidents) /\ Len(incidents) \in Nat
  BY SequenceShape DEF IInv, Backed
<1>2. \A i \in 1..Len(incidents) : DOMAIN incidents[i] = Fields
  BY DEF IInv, Backed
<1>3. CASE UNCHANGED incidents
  BY <1>1, <1>2, <1>3 DEF Opened
<1>4. ASSUME NEW e \in Evaluators, Extends(e)
      PROVE  /\ ASequence(incidents') /\ Len(incidents') = Len(incidents) + 1
             /\ \A i \in 1..Len(incidents) : Opened(i)
  BY <1>2, <1>4 DEF Extends, Opened
<1>5. ASSUME NEW i, NEW t, Closes(i, t)
      PROVE  /\ ASequence(incidents') /\ Len(incidents') = Len(incidents)
             /\ \A j \in 1..Len(incidents) : Opened(j)
  BY <1>5 DEF Closes
<1> QED
  BY <1>1, <1>3, <1>4, <1>5 DEF TableStep

\* Every incident of the table is backed after a step.
LEMMA TableBacked ==
    ASSUME IInv, Kept, TableStep
    PROVE  Backed'
<1>1. /\ ASequence(incidents) /\ ASequence(incidents') /\ Len(incidents) \in Nat
      /\ Len(incidents') \in {Len(incidents), Len(incidents) + 1}
      /\ \A i \in 1..Len(incidents) : Opened(i)
  BY TableGrows
<1> DEFINE Fine(i) ==
             /\ DOMAIN incidents'[i] = Fields
             /\ \E n \in 1..Len(Thresholds) :
                  /\ incidents'[i].metric = Thresholds[n].metric
                  /\ \A E, t : E = incidents'[i].evidence /\ t = incidents'[i].openedAt =>
                       BackedBy(Thresholds[n], E, t)'
<1>2. \A i \in 1..Len(incidents) : Fine(i)
  <2>1. Len(incidents) <= Len(incidents')
    BY <1>1
  <2> QED
    BY <1>1, <2>1, BackedKept DEF IInv
<1>3. ASSUME NEW e \in Evaluators, pc[e] = "save", Extends(e) PROVE Fine(Len(incidents) + 1)
  <2> DEFINE m == Len(incidents) + 1
  <2>1. incidents'[m] = NewIncident(e)
    BY <1>3 DEF Extends
  <2>2. /\ DOMAIN incidents'[m] = Fields
        /\ incidents'[m].metric = Thresholds[k[e]].metric
        /\ incidents'[m].evidence = Truncate(win[e])
        /\ incidents'[m].openedAt = at[e]
    BY <2>1 DEF NewIncident, Fields
  <2>3. PICK n \in 1..Len(Thresholds) : n = k[e]
    BY DEF IInv, Evaluations
  <2>4. PICK th : th = Thresholds[n]
    OBVIOUS
  <2>5. PICK W : W = win[e]
    OBVIOUS
  <2>6. Valid(th)
    BY <2>3, <2>4, ProbeIncidentsAssumption
  <2>7. W # {} /\ W \in SUBSET Made /\ InWindow(th, W, at[e]) /\ Tripped(th, W)
    BY <1>3, <2>3, <2>4, <2>5 DEF IInv, Windows, Holds
  <2>8. BackedBy(th, Truncate(W), at[e])
    BY <2>6, <2>7, TruncatedIsEvidence
  <2>9. ASSUME NEW E, NEW t, E = Truncate(W), t = at[e] PROVE BackedBy(Thresholds[n], E, t)'
    <3>1. BackedBy(th, E, t)
      BY <2>8, <2>9
    <3>2. BackedBy(Thresholds[n], E, t)
      BY <2>4, <3>1
    <3> QED
      BY <2>4, <2>6, <3>2, SameEvidence
  <2> HIDE DEF m
  <2> QED
    BY <2>2, <2>3, <2>5, <2>9 DEF m
<1>4. ASSUME Len(incidents') = Len(incidents) + 1 PROVE Fine(Len(incidents'))
  <2>1. ~UNCHANGED incidents /\ ~\E i, t : Closes(i, t)
    BY <1>1, <1>4 DEF Closes
  <2>2. PICK e \in Evaluators : pc[e] = "save" /\ Extends(e)
    BY <2>1 DEF TableStep
  <2> QED
    BY <1>3, <1>4, <2>2
<1>5. \A i \in 1..Len(incidents') : Fine(i)
  <2> HIDE DEF Fine
  <2> QED
    BY <1>1, <1>2, <1>4
<1> QED
  BY <1>1, <1>5 DEF Backed
\* What an evaluation holds stands while others work.
LEMMA HoldsStill ==
    ASSUME IInv, Kept, Len(incidents) <= Len(incidents'), Len(incidents) \in Nat,
           Len(incidents') \in Nat, NEW e \in Evaluators, Still(e)
    PROVE  Holds(e)'
<1>1. Holds(e) /\ k[e] \in 1..Len(Thresholds)
  BY DEF IInv, Windows, Evaluations
<1>2. Valid(Thresholds[k[e]])
  BY <1>1, ProbeIncidentsAssumption
<1>3. ASSUME pc[e] \in {"find", "save"}
      PROVE  /\ win'[e] # {} /\ win'[e] \subseteq Made'
             /\ InWindow(Thresholds[k'[e]], win'[e], at'[e])
  BY <1>1, <1>3 DEF Holds, Still, Kept
<1>4. ASSUME pc[e] = "save", NEW th, NEW W, th = Thresholds[k'[e]], W = win'[e]
      PROVE  Tripped(th, W)'
  <2>1. th = Thresholds[k[e]] /\ W = win[e]
    BY <1>4 DEF Still
  <2>2. Tripped(th, W) /\ W \in SUBSET Made /\ Valid(th)
    BY <1>1, <1>2, <1>4, <2>1 DEF Holds
  <2> QED
    BY <2>2, SameVerdict
<1>5. pc[e] = "close" => found'[e] \in 1..Len(incidents')
  BY <1>1 DEF Holds, Still
<1> QED
  BY <1>3, <1>4, <1>5 DEF Holds, Still

\* What an evaluation holds after its own step.
LEMMA HoldsAfter ==
    ASSUME IInv, Evaluations', Kept, NEW e \in Evaluators, EvaluationStep(e) \/ EvaluationFails(e)
    PROVE  Holds(e)'
<1>1. ASSUME pc'[e] \in {"window", "idle"} PROVE Holds(e)'
  BY <1>1 DEF Holds
<1>2. ASSUME NextThreshold(e) \/ EndEvaluation(e), UNCHANGED at PROVE Holds(e)'
  BY <1>1, <1>2, NextInRange DEF IInv
<1>3. CASE StartEvaluation(e)
  BY <1>1, <1>3 DEF StartEvaluation, IInv, Evaluations
<1>4. CASE ReadWindow(e) /\ ~NextThreshold(e)
  <2> DEFINE th == Thresholds[k[e]]
             W == ListWindow(th, at[e])
  <2>1. /\ Sufficient(th, W) /\ pc'[e] = "find" /\ win'[e] = W
        /\ k'[e] = k[e] /\ at'[e] = at[e] /\ UNCHANGED obs
    BY <1>4 DEF ReadWindow, IInv, Evaluations, probeVars
  <2>2. W \subseteq Made /\ Made' = Made /\ InWindow(th, W, at[e])
    BY <2>1 DEF ListWindow, Made, InWindow
  <2>3. W # {}
    <3>1. th.value \in Nat /\ (th.metric = "consecutive_failures" => th.value > 0)
      BY ProbeIncidentsAssumption DEF IInv, Evaluations, Valid
    <3>2. th.metric = "consecutive_failures" => Cardinality(W) >= th.value
      BY <2>1 DEF Sufficient
    <3>3. th.metric = "consecutive_failures" => Cardinality(W) # 0
      BY <3>1, <3>2
    <3>4. Cardinality({}) = 0
      BY FS_EmptySet
    <3>5. th.metric # "consecutive_failures" => W # {}
      BY <2>1 DEF Sufficient
    <3> QED
      BY <3>3, <3>4, <3>5
  <2> HIDE DEF W
  <2> QED
    BY <2>1, <2>2, <2>3 DEF Holds
<1>5. CASE FindOpen(e) /\ ~NextThreshold(e)
  <2> DEFINE th == Thresholds[k[e]]
  <2>1. /\ pc[e] = "find" /\ win'[e] = win[e] /\ k'[e] = k[e] /\ at'[e] = at[e]
        /\ UNCHANGED <<obs, incidents>>
    BY <1>5 DEF FindOpen, IInv, Evaluations, probeVars
  <2>2. win[e] # {} /\ win[e] \subseteq Made' /\ InWindow(th, win[e], at[e])
    BY <2>1 DEF IInv, Windows, Holds, Made
  <2>3. \/ Tripped(th, win[e]) /\ pc'[e] = "save"
        \/ pc'[e] = "close" /\ found'[e] \in 1..Len(incidents)
    BY <1>5 DEF FindOpen, IInv, Evaluations, Open
  <2>4. ASSUME pc'[e] = "save", NEW u, NEW W, u = Thresholds[k'[e]], W = win'[e]
        PROVE  Tripped(u, W)'
    <3>1. Tripped(u, W)
      BY <2>1, <2>3, <2>4
    <3>2. W \in SUBSET Made /\ Valid(u)
      BY <2>1, <2>4, ProbeIncidentsAssumption DEF IInv, Windows, Holds, Evaluations
    <3> QED
      BY <3>1, <3>2, SameVerdict
  <2> QED
    BY <2>1, <2>2, <2>3, <2>4 DEF Holds
<1>6. CASE SaveIncident(e)
  BY <1>2, <1>6 DEF SaveIncident
<1>7. CASE CloseIncident(e)
  BY <1>2, <1>7 DEF CloseIncident
<1>8. CASE EvaluationFails(e)
  BY <1>2, <1>8 DEF EvaluationFails
<1>9. CASE (ReadWindow(e) \/ FindOpen(e)) /\ NextThreshold(e)
  BY <1>2, <1>9 DEF ReadWindow, FindOpen
<1> QED
  BY <1>3, <1>4, <1>5, <1>6, <1>7, <1>8, <1>9 DEF EvaluationStep

\* Every step preserves the invariant and treats the table as TableStep says.
LEMMA StepPreserves ==
    ASSUME IInv, [Next]_vars
    PROVE  IInv' /\ TableStep
<1>1. Observations' /\ Kept
  BY ObservationsKept DEF IInv
<1>2. ASSUME NEW e \in Evaluators, EvaluationStep(e) \/ EvaluationFails(e)
      PROVE  IInv' /\ TableStep
  <2>1. Evaluations'
    BY <1>2, EvaluationsKept DEF IInv
  <2>2. TableStep
    BY <1>2, TableChanges
  <2>3. Len(incidents) \in Nat /\ Len(incidents') \in Nat /\ Len(incidents) <= Len(incidents')
    BY <2>2, TableGrows
  <2>4. Windows'
    <3> SUFFICES ASSUME NEW f \in Evaluators PROVE Holds(f)'
      BY DEF Windows
    <3>1. CASE f = e
      BY <1>1, <1>2, <2>1, <3>1, HoldsAfter
    <3>2. CASE f # e
      <4>1. Still(f)
        BY <1>2, <3>2, OthersStill DEF IInv
      <4> QED
        BY <1>1, <2>3, <4>1, HoldsStill
    <3> QED
      BY <3>1, <3>2
  <2>5. Backed'
    BY <1>1, <2>2, TableBacked
  <2> QED
    BY <1>1, <2>1, <2>2, <2>4, <2>5 DEF IInv
<1>3. ASSUME UNCHANGED <<incidents, evalVars>>
      PROVE  IInv' /\ TableStep
  <2>1. TableStep /\ Evaluations' /\ \A f \in Evaluators : Still(f)
    BY <1>3 DEF TableStep, Evaluations, IInv, evalVars, Still
  <2>2. Len(incidents) \in Nat /\ Len(incidents') \in Nat /\ Len(incidents) <= Len(incidents')
    BY <2>1, TableGrows
  <2>3. Windows'
    BY <1>1, <2>1, <2>2, HoldsStill DEF Windows
  <2>4. Backed'
    BY <1>1, <2>1, TableBacked
  <2> QED
    BY <1>1, <2>1, <2>3, <2>4 DEF IInv
<1>4. CASE \/ Tick \/ Toggle
           \/ \E p \in Probers : \/ StartProbe(p) \/ SaveObservation(p) \/ ProbeFails(p)
                                 \/ \E reply \in Replies : Observe(p, reply) \/ RefuseResult(p, reply)
           \/ UNCHANGED vars
  <2>1. UNCHANGED <<incidents, evalVars>>
    BY <1>4 DEF Tick, Toggle, StartProbe, SaveObservation, ProbeFails, Observe, RefuseResult, vars
  <2> QED
    BY <1>3, <2>1
<1> QED
  BY <1>2, <1>4 DEF Next

\* The invariant holds initially.
LEMMA InitHolds == Init => IInv
<1> SUFFICES ASSUME Init PROVE IInv
  OBVIOUS
<1>1. Observations
  BY ProbeIncidentsAssumption DEF Init, Observations, Time
<1>2. Evaluations /\ Windows
  BY ProbeIncidentsAssumption DEF Init, Evaluations, Windows, Holds
<1>3. Backed
  <2>1. incidents = <<>> /\ incidents \in Seq({}) /\ Len(incidents) = 0
    BY DEF Init
  <2> QED
    BY <2>1 DEF Backed, ASequence
<1> QED
  BY <1>1, <1>2, <1>3 DEF IInv

\* Every incident is backed by its evidence, whatever was observed, saved late
\* or evaluated at the same time.
THEOREM IncidentsAreBacked == Spec => []EvidenceShowsBreach
<1>1. IInv /\ [Next]_vars => IInv'
  BY StepPreserves
<1>2. IInv => EvidenceShowsBreach
  <2> SUFFICES ASSUME IInv, NEW i \in 1..Len(incidents)
               PROVE  LET inc == incidents[i]
                          th == ThresholdOf(inc.metric)
                      IN  /\ inc.evidence # {} /\ Cardinality(inc.evidence) <= EvidenceMax
                          /\ \A t \in inc.evidence :
                               /\ obs[t] # None
                               /\ inc.openedAt - Lookback(th) <= t /\ t <= inc.openedAt
                          /\ Cardinality(inc.evidence) < EvidenceMax => Tripped(th, inc.evidence)
                          /\ inc.metric = "consecutive_failures" => Trailing(inc.evidence) # {}
    BY DEF EvidenceShowsBreach
  <2>1. PICK n \in 1..Len(Thresholds) :
          /\ incidents[i].metric = Thresholds[n].metric
          /\ BackedBy(Thresholds[n], incidents[i].evidence, incidents[i].openedAt)
    BY DEF IInv, Backed
  <2>2. ThresholdOf(incidents[i].metric) = Thresholds[n]
    <3>1. \A m \in 1..Len(Thresholds) : Thresholds[m].metric = Thresholds[n].metric => m = n
      BY ProbeIncidentsAssumption
    <3> QED
      BY <2>1, <3>1 DEF ThresholdOf
  <2> QED
    BY <2>1, <2>2 DEF BackedBy, InWindow, Made
<1> QED
  BY <1>1, <1>2, InitHolds, PTL DEF Spec
-----------------------------------------------------------------------------
(* One evaluation at a time.                                               *)

\* The times of an incident are times of evaluations that have begun.
Dated ==
    \A e \in Evaluators : \A i \in 1..Len(incidents) :
      /\ incidents[i].openedAt \in Nat /\ incidents[i].openedAt <= at[e]
      /\ incidents[i].closedAt # Null =>
           /\ incidents[i].closedAt \in Nat
           /\ incidents[i].openedAt <= incidents[i].closedAt /\ incidents[i].closedAt <= at[e]

\* An evaluation that is about to open an incident has found none open.
NoneOpen ==
    \A e \in Evaluators : pc[e] = "save" =>
      \A i \in 1..Len(incidents) :
        incidents[i].metric = Thresholds[k[e]].metric => incidents[i].closedAt # Null

Clocks == \A e \in Evaluators : at[e] <= now

Sequenced == Dated /\ NoneOpen /\ Clocks /\ IncidentsInSequence
Single == \A e, f \in Evaluators : e = f

\* Evaluations begin at ever later times.
LEMMA ClocksAdvance ==
    ASSUME IInv, Clocks, [Next]_vars
    PROVE  Clocks' /\ \A e \in Evaluators : at[e] \in Nat /\ at'[e] \in Nat /\ at[e] <= at'[e]
<1>1. /\ now \in Nat /\ \A e \in Evaluators : at[e] \in Nat /\ at[e] <= now
      /\ DOMAIN at = Evaluators
  BY ProbeIncidentsAssumption DEF IInv, Observations, Time, Evaluations, Clocks
<1>2. CASE UNCHANGED <<now, at>>
  BY <1>1, <1>2 DEF Clocks
<1>3. CASE Tick
  BY <1>1, <1>3 DEF Tick, evalVars, Clocks
<1>4. ASSUME NEW e \in Evaluators, StartEvaluation(e)
      PROVE  Clocks' /\ \A f \in Evaluators : at[f] \in Nat /\ at'[f] \in Nat /\ at[f] <= at'[f]
  BY <1>1, <1>4 DEF StartEvaluation, Clocks
<1>5. ASSUME NEW e \in Evaluators,
             \/ ReadWindow(e) \/ FindOpen(e) \/ SaveIncident(e) \/ CloseIncident(e)
             \/ EvaluationFails(e)
      PROVE  UNCHANGED <<now, at>>
  BY <1>5 DEF ReadWindow, FindOpen, SaveIncident, CloseIncident, EvaluationFails
<1>6. CASE \/ Toggle
           \/ \E p \in Probers : \/ StartProbe(p) \/ SaveObservation(p) \/ ProbeFails(p)
                                 \/ \E reply \in Replies : Observe(p, reply) \/ RefuseResult(p, reply)
           \/ UNCHANGED vars
  <2>1. UNCHANGED <<now, at>>
    BY <1>6 DEF Toggle, StartProbe, SaveObservation, ProbeFails, Observe, RefuseResult, vars, evalVars
  <2> QED
    BY <1>2, <2>1
<1> QED
  BY <1>2, <1>3, <1>4, <1>5, <1>6 DEF Next, EvaluationStep

\* With one evaluation at a time nothing opens between its look and its save.
LEMMA NoneOpenKept ==
    ASSUME Single, IInv, NoneOpen, [Next]_vars
    PROVE  NoneOpen'
<1>1. ASSUME NEW e \in Evaluators, pc'[e] # "save" PROVE NoneOpen'
  <2>1. \A f \in Evaluators : f = e
    BY DEF Single
  <2> QED
    BY <1>1, <2>1 DEF NoneOpen
<1>2. CASE UNCHANGED <<incidents, evalVars>>
  BY <1>2 DEF NoneOpen, evalVars
<1>3. ASSUME NEW e \in Evaluators, StartEvaluation(e) PROVE NoneOpen'
  BY <1>1, <1>3 DEF StartEvaluation, IInv, Evaluations
<1>4. ASSUME NEW e \in Evaluators, ReadWindow(e) PROVE NoneOpen'
  <2>1. CASE NextThreshold(e)
    BY <1>1, <1>4, <2>1, NextInRange DEF ReadWindow, IInv
  <2>2. CASE ~NextThreshold(e)
    BY <1>1, <1>4, <2>2 DEF ReadWindow, IInv, Evaluations
  <2> QED
    BY <2>1, <2>2
<1>5. ASSUME NEW e \in Evaluators, FindOpen(e) PROVE NoneOpen'
  <2>1. CASE NextThreshold(e)
    BY <1>1, <1>5, <2>1, NextInRange DEF FindOpen, IInv
  <2>2. CASE ~NextThreshold(e)
    <3>1. CASE pc'[e] # "save"
      BY <1>1, <3>1
    <3>2. CASE pc'[e] = "save"
      <4>1. Open(Thresholds[k[e]].metric) = {} /\ UNCHANGED <<k, incidents>>
        BY <1>5, <2>2, <3>2 DEF FindOpen, IInv, Evaluations
      <4>2. \A f \in Evaluators : f = e
        BY DEF Single
      <4> QED
        BY <4>1, <4>2 DEF Open, NoneOpen
    <3> QED
      BY <3>1, <3>2
  <2> QED
    BY <2>1, <2>2
<1>6. ASSUME NEW e \in Evaluators, SaveIncident(e) \/ CloseIncident(e) \/ EvaluationFails(e)
      PROVE  NoneOpen'
  <2>1. UNCHANGED at /\ (NextThreshold(e) \/ EndEvaluation(e))
    BY <1>6 DEF SaveIncident, CloseIncident, EvaluationFails
  <2> QED
    BY <1>1, <2>1, NextInRange DEF IInv
<1>7. CASE \/ Tick \/ Toggle
           \/ \E p \in Probers : \/ StartProbe(p) \/ SaveObservation(p) \/ ProbeFails(p)
                                 \/ \E reply \in Replies : Observe(p, reply) \/ RefuseResult(p, reply)
           \/ UNCHANGED vars
  <2>1. UNCHANGED <<incidents, evalVars>>
    BY <1>7 DEF Tick, Toggle, StartProbe, SaveObservation, ProbeFails, Observe, RefuseResult, vars
  <2> QED
    BY <1>2, <2>1
<1> QED
  BY <1>3, <1>4, <1>5, <1>6, <1>7 DEF Next, EvaluationStep

\* Opening and closing keep the incidents of a metric one after the other.
LEMMA SequenceKept ==
    ASSUME Single, IInv, Sequenced, TableStep,
           \A e \in Evaluators : at[e] \in Nat /\ at'[e] \in Nat /\ at[e] <= at'[e]
    PROVE  Dated' /\ IncidentsInSequence'
<1> DEFINE n == Len(incidents)
           Row(i) == \A e \in Evaluators :
             /\ incidents'[i].openedAt \in Nat /\ incidents'[i].openedAt <= at'[e]
             /\ incidents'[i].closedAt # Null =>
                  /\ incidents'[i].closedAt \in Nat
                  /\ incidents'[i].openedAt <= incidents'[i].closedAt
                  /\ incidents'[i].closedAt <= at'[e]
           Pair(i, j) == (incidents'[i].metric = incidents'[j].metric /\ i < j) =>
             /\ incidents'[i].closedAt # Null
             /\ incidents'[i].openedAt <= incidents'[i].closedAt
             /\ incidents'[i].closedAt <= incidents'[j].openedAt
<1>1. n \in Nat
  BY TableGrows
<1>2. \A i \in 1..n : incidents'[i] = incidents[i] => Row(i)
  BY DEF Sequenced, Dated
<1>3. \A i, j \in 1..n : incidents'[i] = incidents[i] /\ incidents'[j] = incidents[j] => Pair(i, j)
  BY DEF Sequenced, IncidentsInSequence
<1>4. ASSUME \A i \in 1..Len(incidents') : Row(i),
             \A i, j \in 1..Len(incidents') : Pair(i, j)
      PROVE  Dated' /\ IncidentsInSequence'
  BY <1>4 DEF Dated, IncidentsInSequence
<1>5. CASE UNCHANGED incidents
  <2> HIDE DEF Row, Pair
  <2> QED
    BY <1>2, <1>3, <1>4, <1>5
<1>6. ASSUME NEW e \in Evaluators, pc[e] = "save", Extends(e) PROVE Dated' /\ IncidentsInSequence'
  <2>1. /\ Len(incidents') = n + 1 /\ \A i \in 1..n : incidents'[i] = incidents[i]
        /\ incidents'[n + 1].metric = Thresholds[k[e]].metric
        /\ incidents'[n + 1].openedAt = at[e] /\ incidents'[n + 1].closedAt = Null
    BY <1>6 DEF Extends, NewIncident
  <2>2. \A f \in Evaluators : f = e
    BY DEF Single
  <2>3. Row(n + 1)
    BY <2>1, <2>2
  <2>4. \A i \in 1..n : Pair(i, n + 1)
    BY <1>6, <2>1 DEF Sequenced, NoneOpen, Dated
  <2>5. \A j \in 1..(n + 1) : Pair(n + 1, j)
    BY <1>1
  <2> HIDE DEF Row, Pair
  <2>6. \A i \in 1..(n + 1) : i \in 1..n \/ i = n + 1
    BY <1>1
  <2>7. \A i \in 1..Len(incidents') : Row(i)
    BY <1>2, <2>1, <2>3, <2>6
  <2>8. \A i, j \in 1..Len(incidents') : Pair(i, j)
    BY <1>3, <2>1, <2>4, <2>5, <2>6
  <2> QED
    BY <1>4, <2>7, <2>8
<1>7. ASSUME NEW e \in Evaluators, pc[e] = "close", MayClose(found[e], at[e]), Closes(found[e], at[e])
      PROVE  Dated' /\ IncidentsInSequence'
  <2> DEFINE c == found[e]
  <2>1. /\ c \in 1..n /\ incidents[c].closedAt = Null /\ incidents[c].openedAt <= at[e]
        /\ Len(incidents') = n
        /\ \A i \in 1..n : i # c => incidents'[i] = incidents[i]
        /\ \A i \in 1..n : /\ incidents'[i].metric = incidents[i].metric
                           /\ incidents'[i].openedAt = incidents[i].openedAt
        /\ incidents'[c].closedAt = at[e]
    BY <1>7 DEF IInv, Windows, Holds, MayClose, Closes, Opened
  <2> HIDE DEF c
  <2>2. \A f \in Evaluators : f = e
    BY DEF Single
  <2>3. incidents[c].openedAt \in Nat
    BY <2>1 DEF Sequenced, Dated
  <2>4. Row(c)
    BY <2>1, <2>2, <2>3
  <2>5. \A j \in 1..n : Pair(c, j)
    BY <2>1 DEF Sequenced, IncidentsInSequence
  <2>6. \A i \in 1..n : i # c => Pair(i, c)
    BY <2>1 DEF Sequenced, IncidentsInSequence
  <2> HIDE DEF Row, Pair
  <2>7. \A i \in 1..Len(incidents') : Row(i)
    BY <1>2, <2>1, <2>4
  <2>8. \A i, j \in 1..Len(incidents') : Pair(i, j)
    BY <1>3, <2>1, <2>5, <2>6
  <2> QED
    BY <1>4, <2>7, <2>8
<1> HIDE DEF Row, Pair
<1> QED
  BY <1>5, <1>6, <1>7 DEF TableStep

\* With one evaluation at a time, and whichever of them fail half way, each
\* incident of a metric is closed before the next one opens.
THEOREM OneAfterAnother ==
    ASSUME Single
    PROVE  Spec => []IncidentsInSequence
<1>1. Init => IInv /\ Sequenced
  <2> SUFFICES ASSUME Init PROVE Sequenced
    BY InitHolds
  <2>1. incidents = <<>> /\ Len(incidents) = 0 /\ 1..Len(incidents) = {}
    BY DEF Init
  <2>2. NoneOpen /\ Clocks
    BY DEF Init, NoneOpen, Clocks
  <2>3. Dated /\ IncidentsInSequence
    BY <2>1 DEF Dated, IncidentsInSequence
  <2> QED
    BY <2>2, <2>3 DEF Sequenced
<1>2. IInv /\ Sequenced /\ [Next]_vars => IInv' /\ Sequenced'
  <2> SUFFICES ASSUME IInv, Sequenced, [Next]_vars PROVE IInv' /\ Sequenced'
    OBVIOUS
  <2>1. IInv' /\ TableStep
    BY StepPreserves
  <2>2. Clocks' /\ \A e \in Evaluators : at[e] \in Nat /\ at'[e] \in Nat /\ at[e] <= at'[e]
    BY ClocksAdvance DEF Sequenced
  <2>3. NoneOpen'
    BY NoneOpenKept DEF Sequenced
  <2>4. Dated' /\ IncidentsInSequence'
    BY <2>1, <2>2, SequenceKept
  <2> QED
    BY <2>1, <2>2, <2>3, <2>4 DEF Sequenced
<1>3. Sequenced => IncidentsInSequence
  BY DEF Sequenced
<1> QED
  BY <1>1, <1>2, <1>3, PTL DEF Spec
=============================================================================
