----------------------------- MODULE RateBudget -----------------------------
(***************************************************************************)
(* The concurrent fetches of fanOutFetch and the fixed-window budget that  *)
(* meters them (RedisBudget).                                              *)
(*                                                                         *)
(* Every execution fetches one subject at a time: a goroutine per source   *)
(* reserves one unit, calls the source, refunds the unit when the call     *)
(* fails, and fanOutFetch waits for all of them.  A unit lives in the      *)
(* bucket of a (source, window) pair; the bucket's key is computed from    *)
(* the wall clock before the Lua script runs in Redis, once for Reserve    *)
(* and again for Refund, so the two may name different windows.            *)
(***************************************************************************)
EXTENDS Integers, FiniteSets

CONSTANTS
    Execs,      \* executions whose fan-outs share the budget
    Sources,    \* the sources of the chain
    Capped,     \* those with a BudgetPolicy
    Limit,      \* BudgetPolicy.Limit
    MaxWindow,  \* bound: windows 0..MaxWindow
    MaxRounds,  \* bound: subjects each execution fetches
    Faults      \* TRUE: calls to Redis may fail

ASSUME RateBudgetAssumption ==
    /\ IsFiniteSet(Execs)
    /\ Capped \subseteq Sources
    /\ Limit \in Nat /\ MaxWindow \in Nat /\ MaxRounds \in Nat
    /\ Faults \in BOOLEAN

VARIABLES
    window,     \* the window the wall clock is in
    count,      \* count[s][k]: the bucket of source s and window k in Redis
    slot,       \* slot[e][s]: the goroutine of execution e for source s
    key,        \* key[e][s]: the window of the key it computed last
    charged,    \* charged[e][s]: the window its unit was taken from
    round,      \* subjects finished by each execution
    spent,      \* history: units taken from each bucket and not given back
    served,     \* history: successful calls charged to each bucket
    stray,      \* history: units that refunds of other windows took from each bucket
    leaked,     \* history: units of each bucket that no refund gave back to it
    expired     \* history: buckets whose key Redis has expired

vars == <<window, count, slot, key, charged, round, spent, served, stray, leaked, expired>>
histories == <<served, leaked, expired>>

Windows == 0..MaxWindow
Slot == {"start", "reserving", "fetching", "failed", "refunding", "ok", "err"}

Init ==
    /\ window = 0
    /\ count = [s \in Sources |-> [k \in Windows |-> 0]]
    /\ slot = [e \in Execs |-> [s \in Sources |-> "start"]]
    /\ key = [e \in Execs |-> [s \in Sources |-> 0]]
    /\ charged = [e \in Execs |-> [s \in Sources |-> 0]]
    /\ round = [e \in Execs |-> 0]
    /\ spent = [s \in Sources |-> [k \in Windows |-> 0]]
    /\ served = [s \in Sources |-> [k \in Windows |-> 0]]
    /\ stray = [s \in Sources |-> [k \in Windows |-> 0]]
    /\ leaked = [s \in Sources |-> [k \in Windows |-> 0]]
    /\ expired = {}

\* The bucket a goroutine addresses, and the goroutine moving on.
Bucket(e, s) == count[s][key[e][s]]
MoveTo(e, s, to) == slot' = [slot EXCEPT ![e][s] = to]
-----------------------------------------------------------------------------
(* Reserve.                                                                *)

\* policyFor finds no policy: Reserve returns nil without touching Redis.
ReserveUnlimited(e, s) ==
    /\ slot[e][s] = "start" /\ s \notin Capped
    /\ MoveTo(e, s, "fetching")
    /\ UNCHANGED <<window, count, key, charged, round, spent, stray, histories>>

\* currentKey, for the reservation of one unit.
ReserveKey(e, s) ==
    /\ slot[e][s] = "start" /\ s \in Capped
    /\ key' = [key EXCEPT ![e][s] = window]
    /\ MoveTo(e, s, "reserving")
    /\ UNCHANGED <<window, count, charged, round, spent, stray, histories>>

\* Mutant of HasBudget: the comparison forgets the unit being reserved.
HasBudgetOffByOne(e, s) == Bucket(e, s) <= Limit

HasBudget(e, s) == Bucket(e, s) + 1 <= Limit

\* reserveScript grants the unit.
ReserveGranted(e, s) ==
    /\ slot[e][s] = "reserving"
    /\ HasBudget(e, s)
    /\ count' = [count EXCEPT ![s][key[e][s]] = @ + 1]
    /\ spent' = [spent EXCEPT ![s][key[e][s]] = @ + 1]
    /\ charged' = [charged EXCEPT ![e][s] = key[e][s]]
    /\ MoveTo(e, s, "fetching")
    /\ UNCHANGED <<window, key, round, stray, histories>>

\* Mutant of ReserveExhausted: the goroutine waits for budget instead.
ReserveWaits(e, s) ==
    /\ slot[e][s] = "reserving"
    /\ ~HasBudget(e, s)
    /\ MoveTo(e, s, "start")
    /\ UNCHANGED <<window, count, key, charged, round, spent, stray, histories>>

\* reserveScript returns -1: ErrBudgetExhausted, no call is made.
ReserveExhausted(e, s) ==
    /\ slot[e][s] = "reserving"
    /\ ~HasBudget(e, s)
    /\ MoveTo(e, s, "err")
    /\ UNCHANGED <<window, count, key, charged, round, spent, stray, histories>>

\* The call to Redis fails; the script may have run all the same.
ReserveFails(e, s) ==
    /\ Faults
    /\ slot[e][s] = "reserving"
    /\ \/ UNCHANGED <<count, leaked>>
       \/ /\ HasBudget(e, s)
          /\ count' = [count EXCEPT ![s][key[e][s]] = @ + 1]
          /\ leaked' = [leaked EXCEPT ![s][key[e][s]] = @ + 1]
    /\ MoveTo(e, s, "err")
    /\ UNCHANGED <<window, key, charged, round, spent, stray, served, expired>>
-----------------------------------------------------------------------------
(* The fetch and Refund.                                                   *)

FetchOk(e, s) ==
    /\ slot[e][s] = "fetching"
    /\ served' = IF s \in Capped THEN [served EXCEPT ![s][charged[e][s]] = @ + 1] ELSE served
    /\ MoveTo(e, s, "ok")
    /\ UNCHANGED <<window, count, key, charged, round, spent, stray, leaked, expired>>

\* Mutant of FetchFails: the error path returns before the refund.
FetchFailsWithoutRefund(e, s) ==
    /\ slot[e][s] = "fetching"
    /\ MoveTo(e, s, "err")
    /\ UNCHANGED <<window, count, key, charged, round, spent, stray, histories>>

\* A failed call is refunded; Refund returns at once for an uncapped source.
FetchFails(e, s) ==
    /\ slot[e][s] = "fetching"
    /\ MoveTo(e, s, IF s \in Capped THEN "failed" ELSE "err")
    /\ UNCHANGED <<window, count, key, charged, round, spent, stray, histories>>

\* currentKey again, at the time of the refund.
RefundKey(e, s) ==
    /\ slot[e][s] = "failed"
    /\ key' = [key EXCEPT ![e][s] = window]
    /\ MoveTo(e, s, "refunding")
    /\ UNCHANGED <<window, count, charged, round, spent, stray, histories>>

\* Mutant of Refunded: the script has no floor.
RefundedUnfloored(e, s) == Bucket(e, s) - 1

\* refundScript: decrement, floored at zero (where the key is deleted).
Refunded(e, s) == IF Bucket(e, s) - 1 <= 0 THEN 0 ELSE Bucket(e, s) - 1

\* The unit leaves the charged bucket's balance, the decrement hits the bucket
\* of the key; when that is another one, the unit stays in its own bucket and
\* the other one loses a unit, if it has any.
GiveBack(e, s) ==
    /\ spent' = [spent EXCEPT ![s][charged[e][s]] = @ - 1]
    /\ count' = [count EXCEPT ![s][key[e][s]] = Refunded(e, s)]
    /\ IF key[e][s] = charged[e][s]
       THEN UNCHANGED <<stray, leaked>>
       ELSE /\ stray' = [stray EXCEPT ![s][key[e][s]] = IF Bucket(e, s) > 0 THEN @ + 1 ELSE @]
            /\ leaked' = [leaked EXCEPT ![s][charged[e][s]] = @ + 1]

RefundApplied(e, s) ==
    /\ slot[e][s] = "refunding"
    /\ GiveBack(e, s)
    /\ MoveTo(e, s, "err")
    /\ UNCHANGED <<window, key, charged, round, served, expired>>

\* fanOutFetch ignores the error of Refund; the script may have run.
RefundFails(e, s) ==
    /\ Faults
    /\ slot[e][s] = "refunding"
    /\ \/ GiveBack(e, s)
       \/ /\ leaked' = [leaked EXCEPT ![s][charged[e][s]] = @ + 1]
          /\ UNCHANGED <<spent, count, stray>>
    /\ MoveTo(e, s, "err")
    /\ UNCHANGED <<window, key, charged, round, served, expired>>
-----------------------------------------------------------------------------
\* Every goroutine has finished.
Joined(e) == \A s \in Sources : slot[e][s] \in {"ok", "err"}

\* wg.Wait returns; the pass goes on to its next subject.
Join(e) ==
    /\ Joined(e)
    /\ round[e] < MaxRounds
    /\ round' = [round EXCEPT ![e] = @ + 1]
    /\ slot' = [slot EXCEPT ![e] = [s \in Sources |-> "start"]]
    /\ UNCHANGED <<window, count, key, charged, spent, stray, histories>>

\* The clock crosses a window boundary.
Roll ==
    /\ window < MaxWindow
    /\ window' = window + 1
    /\ UNCHANGED <<count, slot, key, charged, round, spent, stray, histories>>

\* A key outlives its window by at most one window and the grace second.
Expire(s, k) ==
    /\ k < window /\ count[s][k] > 0
    /\ count' = [count EXCEPT ![s][k] = 0]
    /\ expired' = expired \cup {<<s, k>>}
    /\ UNCHANGED <<window, slot, key, charged, round, spent, stray, served, leaked>>

Goroutine(e, s) ==
    \/ ReserveUnlimited(e, s) \/ ReserveKey(e, s)
    \/ ReserveGranted(e, s) \/ ReserveExhausted(e, s) \/ ReserveFails(e, s)
    \/ FetchOk(e, s) \/ FetchFails(e, s)
    \/ RefundKey(e, s) \/ RefundApplied(e, s) \/ RefundFails(e, s)

Next ==
    \/ \E e \in Execs, s \in Sources : Goroutine(e, s)
    \/ \E e \in Execs : Join(e)
    \/ Roll
    \/ \E s \in Sources, k \in Windows : Expire(s, k)

Spec == Init /\ [][Next]_vars

\* Goroutines are scheduled: every call a goroutine makes returns, with a
\* result or an error (the HTTP and Redis clients have timeouts).
FairSpec == Spec /\ \A e \in Execs, s \in Sources : WF_vars(Goroutine(e, s))
-----------------------------------------------------------------------------
(* Properties.                                                             *)

TypeOK ==
    /\ window \in Windows
    /\ count \in [Sources -> [Windows -> Nat]]
    /\ slot \in [Execs -> [Sources -> Slot]]
    /\ key \in [Execs -> [Sources -> Windows]]
    /\ charged \in [Execs -> [Sources -> Windows]]
    /\ round \in [Execs -> 0..MaxRounds]
    /\ spent \in [Sources -> [Windows -> Int]]
    /\ served \in [Sources -> [Windows -> Nat]]
    /\ stray \in [Sources -> [Windows -> Nat]]
    /\ leaked \in [Sources -> [Windows -> Nat]]
    /\ expired \in SUBSET (Sources \X Windows)

\* No interleaving of concurrent fetchers, refunds and lost acknowledgements
\* takes a bucket past its limit (reserveScript checks and increments in one
\* script).
CountWithinLimit == \A s \in Sources, k \in Windows : count[s][k] <= Limit

\* The limit of a window is overspent by no more than the units that refunds of
\* another window took out of its bucket, where a refund that finds the bucket
\* empty takes none (refundScript's floor): besides those, a unit is handed out
\* twice only after the bucket's key has expired.
OverspendIsStrayRefunds ==
    \A s \in Sources, k \in Windows :
        <<s, k>> \notin expired => spent[s][k] <= Limit + stray[s][k]

\* What makes it inductive: the bucket accounts for every unit that is out.
BucketCoversSpending ==
    \A s \in Sources, k \in Windows :
        <<s, k>> \notin expired => spent[s][k] <= count[s][k] + stray[s][k]

\* Units leak only where the code cannot know better: once every fan-out has
\* joined, a bucket holds no more than the calls that succeeded and the units
\* lost to a lost answer of Redis or to a refund made in another window (the
\* reserve/refund contract of fanOutFetch: a failed call gives its unit back).
LeaksAreAccountedFor ==
    (\A e \in Execs : Joined(e)) =>
        \A s \in Sources, k \in Windows : count[s][k] <= served[s][k] + leaked[s][k]

\* Every fan-out joins, whatever the sources and Redis do: a goroutine that is
\* refused, fails or cannot refund still counts down the WaitGroup.
FanOutsJoin == \A e \in Execs : []<>Joined(e)
=============================================================================
