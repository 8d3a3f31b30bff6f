----------------------------- MODULE DiffReplay -----------------------------
(***************************************************************************)
(* The discrepancy records of one run, and their replay, while operators    *)
(* edit the sources they name (SourceConfigs), upstreams change what they   *)
(* serve, and the retention sweep may take the run away.                    *)
(*                                                                         *)
(* The records are those of one block-immutable metric at one block: replay *)
(* refuses every other category at its first check.  Such metrics are       *)
(* compared exactly and never discarded.                                    *)
(***************************************************************************)
EXTENDS SourceConfigs

CONSTANTS
    Raws,         \* values an upstream may serve for the block's field
    Replayers,    \* concurrent POST /diffs/{id}/replay requests
    MaxDiffs      \* bound on the records

VARIABLES
    serves,    \* serves[e]: the value endpoint e serves
    runKept,   \* the run's row exists
    diffs,     \* the records by id; a swept one is Gone
    replay,    \* replay[p]: the state of the request
    witness    \* history: witness[d]: what each source said on whose word record d was last
               \* resolved

replayVars == <<serves, runKept, diffs, replay, witness>>
vars == <<configVars, replayVars>>

Gone == [values |-> <<>>, resolved |-> FALSE, parent |-> 0]
Free == [id |-> 0, todo |-> {}, built |-> <<>>, snapshots |-> <<>>]

Drop(f, x) == [z \in DOMAIN f \ {x} |-> f[z]]
Put(f, x, y) == [z \in DOMAIN f \cup {x} |-> IF z = x THEN y ELSE f[z]]
Agree(f) == \A s, t \in DOMAIN f : f[s] = f[t]

Init ==
    /\ ConfigInit
    /\ serves \in [Endpoints -> Raws]
    /\ runKept = TRUE
    /\ diffs = <<>> /\ witness = <<>>
    /\ replay = [p \in Replayers |-> Free]
-----------------------------------------------------------------------------
\* An upstream repairs or breaks its data.
Change(e, raw) ==
    /\ Event /\ serves[e] # raw
    /\ serves' = [serves EXCEPT ![e] = raw]
    /\ UNCHANGED <<rows, puts, nonces, seeding, runKept, diffs, replay, witness>>

\* Diffs.Save inserts a record; the foreign key needs the run.
Insert(values, parent) ==
    /\ diffs' = Append(diffs, [values |-> values, resolved |-> FALSE, parent |-> parent])
    /\ witness' = Append(witness, <<>>)

\* The run compares, once, what the enabled sources answer and saves a
\* disagreement.
Detect(got) ==
    /\ runKept /\ diffs = <<>>
    /\ ForChainOK /\ ChainHeadOK
    /\ got \subseteq Enabled /\ Cardinality(got) >= 2
    /\ LET values == [t \in got |-> serves[Upstream(t)]]
       IN  ~Agree(values) /\ Insert(values, 0)
    /\ UNCHANGED <<configVars, serves, runKept, replay>>

\* The sweep deletes the run and its records with it.
Prune ==
    /\ Event /\ runKept
    /\ runKept' = FALSE
    /\ diffs' = [d \in DOMAIN diffs |-> Gone]
    /\ UNCHANGED <<rows, puts, nonces, seeding, serves, replay, witness>>
-----------------------------------------------------------------------------
(* ReplayDiff.Execute.                                                     *)

Moves(p, next) == replay' = [replay EXCEPT ![p] = next]

\* Diffs.FindByID.
Load(p, d) ==
    /\ replay[p] = Free /\ diffs[d] # Gone
    /\ Moves(p, [id |-> d, todo |-> DOMAIN diffs[d].values,
                 built |-> <<>>, snapshots |-> <<>>])
    /\ UNCHANGED <<configVars, serves, runKept, diffs, witness>>

\* Sources.Get for a participant, in the order of a Go map: disabled rows are
\* found too; a missing row or one that does not build ends the replay.
Get(p, t) ==
    /\ t \in replay[p].todo
    /\ IF Present(t) /\ Builds(t)
       THEN Moves(p, [replay[p] EXCEPT !.todo = @ \ {t}, !.built = Put(@, t, Upstream(t))])
       ELSE Moves(p, Free)
    /\ UNCHANGED <<configVars, serves, runKept, diffs, witness>>

\* One goroutine of the fan-out: the source answers, or fails, does not
\* support the capability or leaves the field out.
Fetch(p, t) ==
    /\ replay[p].todo = {} /\ t \in DOMAIN replay[p].built
    /\ \E snapshots \in {replay[p].snapshots,
                         Put(replay[p].snapshots, t, serves[replay[p].built[t]])} :
         Moves(p, [replay[p] EXCEPT !.built = Drop(@, t), !.snapshots = snapshots])
    /\ UNCHANGED <<configVars, serves, runKept, diffs, witness>>

\* Fewer than two values do not make a comparison.
Enough(snapshots) == Cardinality(DOMAIN snapshots) >= 2

\* Mutant of Outcome: two sources that agree outvote a third.
OutcomeOutvoted(snapshots) ==
    IF \E s, t \in DOMAIN snapshots : s # t /\ snapshots[s] = snapshots[t]
    THEN "agree" ELSE "disagree"

\* applyTolerance for an exact metric.
Outcome(snapshots) == IF Agree(snapshots) THEN "agree" ELSE "disagree"

Heard(p) == replay[p] # Free /\ replay[p].todo = {} /\ replay[p].built = <<>>

\* Fewer than two values: an error.
TooFew(p) ==
    /\ Heard(p) /\ ~Enough(replay[p].snapshots)
    /\ Moves(p, Free)
    /\ UNCHANGED <<configVars, serves, runKept, diffs, witness>>

\* The values agree: MarkResolved, unless the record is gone.
Resolve(p) ==
    /\ Heard(p) /\ Enough(replay[p].snapshots) /\ Outcome(replay[p].snapshots) = "agree"
    /\ IF diffs[replay[p].id] = Gone
       THEN UNCHANGED <<diffs, witness>>
       ELSE /\ diffs' = [diffs EXCEPT ![replay[p].id].resolved = TRUE]
            /\ witness' = [witness EXCEPT ![replay[p].id] = replay[p].snapshots]
    /\ Moves(p, Free)
    /\ UNCHANGED <<configVars, serves, runKept>>

\* Mutant of RunExists: the insert does not need the run.
RunAssumed == TRUE

\* The foreign key of discrepancies.run_id.
RunExists == runKept

\* Mutant of Snapshots: what the chain's enabled sources serve now.
SnapshotsOfChain(p) == [t \in Enabled |-> serves[Upstream(t)]]

\* The values a new record is made of.
Snapshots(p) == replay[p].snapshots

\* They still disagree: a new record of the same run, or an error.
SaveAgain(p) ==
    /\ Heard(p) /\ Enough(replay[p].snapshots) /\ Outcome(replay[p].snapshots) = "disagree"
    /\ Len(diffs) < MaxDiffs
    /\ IF RunExists THEN Insert(Snapshots(p), replay[p].id) ELSE UNCHANGED <<diffs, witness>>
    /\ Moves(p, Free)
    /\ UNCHANGED <<configVars, serves, runKept>>

ReplayNext(p) ==
    \/ \E d \in DOMAIN diffs : Load(p, d)
    \/ \E t \in Types : Get(p, t) \/ Fetch(p, t)
    \/ TooFew(p) \/ Resolve(p) \/ SaveAgain(p)

Next ==
    \/ ConfigNext /\ UNCHANGED replayVars
    \/ \E e \in Endpoints, raw \in Raws : Change(e, raw)
    \/ \E got \in SUBSET Types : Detect(got)
    \/ Prune
    \/ \E p \in Replayers : ReplayNext(p)

Spec == Init /\ [][Next]_vars
-----------------------------------------------------------------------------
(* Properties.                                                             *)

\* Every stored credential decrypts, however updates of a row race: a save
\* writes the ciphertext and the nonce of one encryption, never a mixture.  A
\* row that does not decrypt would stop every run of the chain.
StoredSecretsDecrypt == \A t \in Types : HasSecret(rows[t]) => Decrypts(rows[t])

\* A record always shows a disagreement, and a record a replay left behind is
\* about sources of the record it replayed: replays narrow the participants,
\* they never bring in a source the run did not hear.
RecordsNarrow ==
    \A d \in DOMAIN diffs : diffs[d] # Gone =>
        /\ ~Agree(diffs[d].values)
        /\ diffs[d].parent # 0 =>
             /\ diffs[d].parent < d
             /\ diffs[diffs[d].parent] # Gone =>
                  DOMAIN diffs[d].values \subseteq DOMAIN diffs[diffs[d].parent].values

\* A record is resolved only after a replay in which at least two of the sources
\* it names answered and every source that answered gave one and the same value,
\* however configurations and upstreams change under the replay and whichever
\* replay of several comes last.  A source that stayed silent is not asked about:
\* it may be the one that disagreed.
ResolvedOnTwoAnswers ==
    \A d \in DOMAIN diffs : diffs[d].resolved =>
        /\ DOMAIN witness[d] \subseteq DOMAIN diffs[d].values
        /\ Cardinality(DOMAIN witness[d]) >= 2
        /\ \A s, t \in DOMAIN witness[d] : witness[d][s] = witness[d][t]

\* The sweep takes every record of the run, and no replay that is under way
\* brings one back.
SweptForGood == ~runKept => \A d \in DOMAIN diffs : diffs[d] = Gone
=============================================================================
