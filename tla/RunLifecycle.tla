---------------------------- MODULE RunLifecycle ----------------------------
(***************************************************************************)
(* What the runs table promises a reader: each stored run goes through     *)
(* the transitions of the aggregate and no others.  A row is created       *)
(* pending, moves only by Start, Complete, Fail or Cancel, never leaves a  *)
(* terminal status except by being deleted, and a deleted run never comes  *)
(* back.                                                                   *)
(***************************************************************************)
EXTENDS RunAggregate

CONSTANTS RunIds,   \* the run identifiers
          Time      \* the instants a transition may be stamped with

VARIABLES runs,     \* runs[r] is the row of r, Absent when there is none
          minted    \* the identifiers that ever had a row

lifecycleVars == <<runs, minted>>

Init ==
    /\ runs = [r \in RunIds |-> Absent]
    /\ minted = {}

Create(r) ==
    /\ r \notin minted
    /\ minted' = minted \cup {r}
    /\ runs' = [runs EXCEPT ![r] = NewRun]

Transition(r) ==
    /\ UNCHANGED minted
    /\ \E t \in Time :
         \/ CanStart(runs[r])    /\ runs' = [runs EXCEPT ![r] = Start(runs[r], t)]
         \/ CanComplete(runs[r]) /\ runs' = [runs EXCEPT ![r] = Complete(runs[r], t)]
         \/ CanFail(runs[r])     /\ runs' = [runs EXCEPT ![r] = Fail(runs[r], t)]
         \/ CanCancel(runs[r])   /\ runs' = [runs EXCEPT ![r] = Cancel(runs[r], t)]

\* Retention deletes any set of finished runs in one statement.
Delete(S) ==
    /\ \A r \in S : IsTerminal(runs[r].status)
    /\ runs' = [r \in RunIds |-> IF r \in S THEN Absent ELSE runs[r]]
    /\ UNCHANGED minted

Next ==
    \/ \E r \in RunIds : Create(r) \/ Transition(r)
    \/ \E S \in SUBSET RunIds : Delete(S)

Spec == Init /\ [][Next]_lifecycleVars
=============================================================================
