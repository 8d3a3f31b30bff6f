----------------------------- MODULE Comparison -----------------------------
(***************************************************************************)
(* One comparison of compareAndSave: the snapshots of a metric that survive *)
(* the fan-out are judged pair by pair (applyTolerance); on disagreement a  *)
(* Discrepancy is built and DefaultPolicy.Judge picks the sources to trust. *)
(* applyTolerance walks the pairs in the order of the source ids;           *)
(* pickTrustedCluster ranges over Go maps, whose order is arbitrary, so     *)
(* here the clusters are visited in any order.                              *)
(***************************************************************************)
EXTENDS Tolerances, FiniteSets, Sequences

CONSTANTS
    NSources,     \* sources are 1..NSources, in the order of their ids
    Reflected,    \* reflected blocks the sources may report
    Anchors,      \* anchors
    Categories,   \* metric categories compared
    RankedSources,\* sources the operator may list in SourceTrust
    LatestFwd,    \* TolFwd of the default AddressLatest tolerance
    Overrides     \* tolerances an operator may pin to the metric

Sources == 1..NSources

ASSUME ComparisonAssumption ==
    /\ NSources \in Nat /\ RankedSources \subseteq Sources
    /\ Reflected \subseteq Block \cup {Nil} /\ Anchors \subseteq Block
    /\ Categories \subseteq MetricCategories /\ LatestFwd \in Block
    /\ \A o \in Overrides : o \in Tolerance

VARIABLES
    snapshots,  \* the snapshots by source; only usable results are in it
    tol,        \* the tolerance the resolver returned for the metric
    anchor,     \* the run's anchor block
    rank,       \* rank[s]: position of s in SourceTrust, 0 when it has none
    pc,         \* "pairs", "clusters", "done"
    i, j,       \* the pair to judge next, as positions in the sorted entries
    allOK,      \* applyTolerance's accumulator
    outcome,    \* "none" until the comparison is decided
    todo,       \* clusters pickTrustedCluster has still to visit
    best        \* the best cluster so far, {} when there is none

inputs == <<snapshots, tol, anchor, rank>>
vars == <<inputs, pc, i, j, allOK, outcome, todo, best>>

\* SourceTrust is a list without repetitions.
Ranks == {f \in [Sources -> 0..Cardinality(RankedSources)] :
            /\ \A s, t \in Sources : (s # t /\ f[s] = f[t]) => f[s] = 0
            /\ \A s \in Sources : \A r \in 1..f[s] : \E t \in Sources : f[t] = r
            /\ \A s \in Sources \ RankedSources : f[s] = 0}

\* A fetch error, an unsupported capability or a missing field drops a source.
Usable == UNION {[S -> [raw : Raws, reflected : Reflected]] : S \in SUBSET Sources}

\* The entries applyTolerance sorts: a source's place is its number among them.
Place(s) == Cardinality({t \in DOMAIN snapshots : t <= s})
Entries == [p \in 1..Cardinality(DOMAIN snapshots) |->
              CHOOSE s \in DOMAIN snapshots : Place(s) = p]

\* groupByRaw.
Cluster(raw) == {s \in DOMAIN snapshots : snapshots[s].raw = raw}
Clusters == {Cluster(snapshots[s].raw) : s \in DOMAIN snapshots}
RawOf(g) == snapshots[CHOOSE s \in g : TRUE].raw

Init ==
    /\ snapshots \in Usable
    /\ tol \in {DefaultTolerance(c, LatestFwd) : c \in Categories} \cup Overrides
    /\ anchor \in Anchors
    /\ rank \in Ranks
    /\ pc = "pairs" /\ i = 1 /\ j = 2 /\ allOK = TRUE
    /\ outcome = "none" /\ todo = {} /\ best = {}
-----------------------------------------------------------------------------
Finish(result) == pc' = "done" /\ outcome' = result

\* Fewer than two snapshots: the metric is skipped.
Skip ==
    /\ pc = "pairs" /\ Cardinality(DOMAIN snapshots) < 2
    /\ Finish("skip")
    /\ UNCHANGED <<inputs, i, j, allOK, todo, best>>

\* tol.Judge on the pair.
PairVerdict == Judge(tol, snapshots[Entries[i]], snapshots[Entries[j]], anchor)

\* One iteration of applyTolerance's double loop.
JudgePair ==
    /\ pc = "pairs" /\ i < Len(Entries)
    /\ IF PairVerdict.discard
       THEN Finish("discard") /\ UNCHANGED <<i, j, allOK>>
       ELSE /\ allOK' = (allOK /\ PairVerdict.ok)
            /\ i' = IF j < Len(Entries) THEN i ELSE i + 1
            /\ j' = IF j < Len(Entries) THEN j + 1 ELSE i + 2
            /\ UNCHANGED <<pc, outcome>>
    /\ UNCHANGED <<inputs, todo, best>>

\* Every pair was judged: agreement, or a Discrepancy to be judged.
PairsDone ==
    /\ pc = "pairs" /\ Len(Entries) >= 2 /\ i >= Len(Entries)
    /\ IF allOK
       THEN Finish("agree") /\ UNCHANGED todo
       ELSE /\ pc' = "clusters" /\ todo' = Clusters
            /\ UNCHANGED outcome
    /\ UNCHANGED <<inputs, i, j, allOK, best>>

\* The best rank in a cluster, 0 when none of its sources is ranked.
Ranked(g) == {s \in g : rank[s] # 0}
BestRank(g) == IF Ranked(g) = {} THEN 0 ELSE CHOOSE r \in {rank[s] : s \in Ranked(g)} :
                                               \A s \in Ranked(g) : r <= rank[s]

\* Mutant of Improves: a ranked cluster replaces any other.
ImprovesAlways(g) == BestRank(g) # 0

\* Does cluster g replace the best one so far?
Improves(g) == BestRank(g) # 0 /\ (best = {} \/ BestRank(g) < BestRank(best))

\* One cluster of pickTrustedCluster's first loop, in any order.
VisitCluster(g) ==
    /\ pc = "clusters" /\ g \in todo /\ Cardinality(Clusters) > 1
    /\ best' = IF Improves(g) THEN g ELSE best
    /\ todo' = todo \ {g}
    /\ UNCHANGED <<inputs, pc, i, j, allOK, outcome>>

\* The cluster the fallback sort puts first.
Largest == CHOOSE g \in Clusters : \A h \in Clusters \ {g} :
             \/ Cardinality(g) > Cardinality(h)
             \/ Cardinality(g) = Cardinality(h) /\ RawOf(g) < RawOf(h)

\* The sources of the discrepancy, all trusted when they form one cluster.
Everyone == DOMAIN snapshots

\* The judgement is made and the discrepancy saved with it.
Decide ==
    /\ pc = "clusters"
    /\ todo = {} \/ Cardinality(Clusters) <= 1
    /\ best' = CASE Cardinality(Clusters) <= 1 -> Everyone
                 [] best # {}                  -> best
                 [] OTHER                      -> Largest
    /\ Finish("disagree")
    /\ UNCHANGED <<inputs, i, j, allOK, todo>>

Next ==
    \/ Skip \/ JudgePair \/ PairsDone
    \/ \E g \in todo : VisitCluster(g)
    \/ Decide

Spec == Init /\ [][Next]_vars
-----------------------------------------------------------------------------
(* Properties.                                                             *)

\* A reflected block lies outside the window of integers, without wrapping.
Stale(s) ==
    /\ snapshots[s].reflected # Nil
    /\ \/ snapshots[s].reflected < anchor - tol.tolBack
       \/ snapshots[s].reflected > anchor + tol.tolFwd

\* The strings the sources show, and the integers in them.
RawsShown == {snapshots[s].raw : s \in DOMAIN snapshots}
ValuesShown == {RawValue[r] : r \in RawsShown}

\* All strings are integers, and the extremes are close enough.
NumbersClose ==
    /\ NotANumber \notin ValuesShown
    /\ LET lo == CHOOSE v \in ValuesShown : \A w \in ValuesShown : v <= w
           hi == CHOOSE v \in ValuesShown : \A w \in ValuesShown : v >= w
       IN  NumericWithin(lo, hi, tol.absoluteMax, tol.relativePPM)

\* The values of all sources lie within the tolerance, stated for the whole
\* sample at once: one raw string, or integers whose extremes are close enough.
AllClose ==
    CASE tol.kind = "observational" -> TRUE
      [] tol.kind = "exact"         -> Cardinality(RawsShown) = 1
      [] tol.kind = "numeric"       -> NumbersClose

\* applyTolerance reduces the pairs to the verdict on the sample: it discards
\* exactly when a source reported a block outside the anchor window, whatever
\* the pairs judged before said and however near the anchor is to the ends of
\* the block range, and otherwise agrees exactly when all values are close.
OutcomeFitsSample ==
    (pc = "done") =>
        outcome = IF Cardinality(DOMAIN snapshots) < 2 THEN "skip"
                  ELSE IF tol.windowed /\ \E s \in DOMAIN snapshots : Stale(s) THEN "discard"
                  ELSE IF AllClose THEN "agree" ELSE "disagree"

\* The trusted sources do not depend on the order in which Go visits the
\* clusters: they are those that agree with the best ranked source present, or
\* the largest cluster when no source is ranked ("the same Discrepancy always
\* produces the same Judgement across re-runs").
TrustIsDeterministic ==
    (outcome = "disagree" /\ Cardinality(Clusters) > 1) =>
        LET ranked == Ranked(DOMAIN snapshots)
        IN  IF ranked = {} THEN best = Largest
            ELSE \E s \in ranked : /\ \A t \in ranked : rank[s] <= rank[t]
                                   /\ best = Cluster(snapshots[s].raw)
=============================================================================
