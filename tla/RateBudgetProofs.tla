-------------------------- MODULE RateBudgetProofs --------------------------
(***************************************************************************)
(* Proofs about RateBudget for any number of executions, sources, windows  *)
(* and rounds and every limit.                                             *)
(***************************************************************************)
EXTENDS RateBudget, FiniteSetTheorems, TLAPS

IInv == TypeOK /\ CountWithinLimit /\ BucketCoversSpending

\* A goroutine that moves on leaves the table of slots well typed.
LEMMA MoveToType ==
    ASSUME TypeOK, NEW e \in Execs, NEW s \in Sources, NEW to \in Slot, MoveTo(e, s, to)
    PROVE  slot' \in [Execs -> [Sources -> Slot]]
<1>1. slot[e] \in [Sources -> Slot] /\ [slot[e] EXCEPT ![s] = to] \in [Sources -> Slot]
  BY DEF TypeOK
<1> QED
  BY <1>1 DEF TypeOK, MoveTo

\* Whatever a step adds to the account of leaked units, it stays well typed.
LEMMA LeakedType ==
    ASSUME TypeOK, NEW s \in Sources, NEW w \in Windows,
           UNCHANGED leaked \/ leaked' = [leaked EXCEPT ![s][w] = @ + 1]
    PROVE  leaked' \in [Sources -> [Windows -> Nat]]
<1>1. leaked[s] \in [Windows -> Nat] /\ leaked[s][w] + 1 \in Nat
  BY DEF TypeOK
<1>2. CASE UNCHANGED leaked
  BY <1>2 DEF TypeOK
<1>3. CASE leaked' = [leaked EXCEPT ![s][w] = @ + 1]
  BY <1>1, <1>3 DEF TypeOK
<1> QED
  BY <1>2, <1>3

\* Steps of a goroutine that leave the buckets and the accounts alone.
LEMMA LocalStepsPreserve ==
    ASSUME IInv, NEW e \in Execs, NEW s \in Sources,
           \/ ReserveUnlimited(e, s) \/ ReserveKey(e, s) \/ ReserveExhausted(e, s)
           \/ FetchOk(e, s) \/ FetchFails(e, s) \/ RefundKey(e, s)
    PROVE  IInv'
<1> USE DEF IInv
<1>1. UNCHANGED <<window, count, charged, round, spent, stray, leaked, expired>>
  BY DEF ReserveUnlimited, ReserveKey, ReserveExhausted, FetchOk, FetchFails, RefundKey,
         histories
<1>2. slot' \in [Execs -> [Sources -> Slot]]
  <2>1. PICK to \in Slot : MoveTo(e, s, to)
    BY DEF ReserveUnlimited, ReserveKey, ReserveExhausted, FetchOk, FetchFails, RefundKey, Slot
  <2> QED
    BY <2>1, MoveToType
<1>3. key' \in [Execs -> [Sources -> Windows]]
  <2>1. UNCHANGED key \/ key' = [key EXCEPT ![e][s] = window]
    BY DEF ReserveUnlimited, ReserveKey, ReserveExhausted, FetchOk, FetchFails, RefundKey
  <2>2. key[e] \in [Sources -> Windows] /\ [key[e] EXCEPT ![s] = window] \in [Sources -> Windows]
    BY DEF TypeOK
  <2>3. key \in [Execs -> [Sources -> Windows]]
    BY DEF TypeOK
  <2> QED
    BY <2>1, <2>2, <2>3
<1>4. served' \in [Sources -> [Windows -> Nat]]
  <2>1. UNCHANGED served \/ served' = [served EXCEPT ![s][charged[e][s]] = @ + 1]
    BY DEF ReserveUnlimited, ReserveKey, ReserveExhausted, FetchOk, FetchFails, RefundKey,
           histories
  <2>2. /\ charged[e][s] \in Windows /\ served[s] \in [Windows -> Nat]
        /\ served[s][charged[e][s]] + 1 \in Nat
    BY DEF TypeOK
  <2>3. CASE UNCHANGED served
    BY <2>3 DEF TypeOK
  <2>4. CASE served' = [served EXCEPT ![s][charged[e][s]] = @ + 1]
    BY <2>2, <2>4 DEF TypeOK
  <2> QED
    BY <2>1, <2>3, <2>4
<1>5. TypeOK'
  BY <1>1, <1>2, <1>3, <1>4 DEF TypeOK
<1>6. CountWithinLimit' /\ BucketCoversSpending'
  BY <1>1 DEF CountWithinLimit, BucketCoversSpending
<1> QED
  BY <1>5, <1>6

\* A granted unit fits under the limit and is covered by the bucket it came
\* from; the same holds when the acknowledgement of the script is lost.
LEMMA ReservePreserves ==
    ASSUME IInv, NEW e \in Execs, NEW s \in Sources,
           ReserveGranted(e, s) \/ ReserveFails(e, s)
    PROVE  IInv'
<1> USE RateBudgetAssumption DEF IInv
<1> DEFINE k == key[e][s]
<1>1. /\ k \in Windows /\ count[s][k] \in Nat /\ count[s][k] + 1 \in Nat
      /\ spent[s][k] \in Int /\ spent[s][k] + 1 \in Int
  BY DEF TypeOK
<1>2. UNCHANGED <<window, key, round, stray, served, expired>>
  BY DEF ReserveGranted, ReserveFails, histories
<1>3. /\ slot' \in [Execs -> [Sources -> Slot]]
      /\ charged' \in [Execs -> [Sources -> Windows]]
      /\ leaked' \in [Sources -> [Windows -> Nat]]
  <2>1. PICK to \in Slot : MoveTo(e, s, to)
    BY DEF ReserveGranted, ReserveFails, Slot
  <2>2. UNCHANGED charged \/ charged' = [charged EXCEPT ![e][s] = k]
    BY DEF ReserveGranted, ReserveFails
  <2>3. /\ charged[e] \in [Sources -> Windows]
        /\ [charged[e] EXCEPT ![s] = k] \in [Sources -> Windows]
    BY <1>1 DEF TypeOK
  <2>4. charged' \in [Execs -> [Sources -> Windows]]
    BY <2>2, <2>3, ZenonT(60) DEF TypeOK
  <2>5. leaked' \in [Sources -> [Windows -> Nat]]
    BY <1>1, LeakedType DEF ReserveGranted, ReserveFails, histories
  <2> QED
    BY <2>1, <2>4, <2>5, MoveToType
<1>4. CASE UNCHANGED <<count, spent>>
  BY <1>2, <1>3, <1>4 DEF TypeOK, CountWithinLimit, BucketCoversSpending
<1>5. ASSUME count' = [count EXCEPT ![s][k] = count[s][k] + 1], HasBudget(e, s),
             UNCHANGED spent \/ spent' = [spent EXCEPT ![s][k] = spent[s][k] + 1]
      PROVE  IInv'
  <2>1. /\ count' \in [Sources -> [Windows -> Nat]]
        /\ \A t \in Sources, j \in Windows :
             count'[t][j] = IF t = s /\ j = k THEN count[s][k] + 1 ELSE count[t][j]
    BY <1>1, <1>5 DEF TypeOK
  <2>2. /\ spent' \in [Sources -> [Windows -> Int]]
        /\ \A t \in Sources, j \in Windows :
             spent'[t][j] = spent[t][j] \/ (t = s /\ j = k /\ spent'[t][j] = spent[t][j] + 1)
    <3>1. CASE UNCHANGED spent
      BY <3>1 DEF TypeOK
    <3>2. CASE spent' = [spent EXCEPT ![s][k] = spent[s][k] + 1]
      BY <1>1, <3>2 DEF TypeOK
    <3> QED
      BY <1>5, <3>1, <3>2
  <2>3. TypeOK'
    BY <1>2, <1>3, <2>1, <2>2 DEF TypeOK
  <2>4. CountWithinLimit'
    BY <1>5, <2>1 DEF CountWithinLimit, HasBudget, Bucket
  <2>5. BucketCoversSpending'
    <3> SUFFICES ASSUME NEW t \in Sources, NEW j \in Windows, <<t, j>> \notin expired
                 PROVE  spent'[t][j] <= count'[t][j] + stray[t][j]
      BY <1>2 DEF BucketCoversSpending
    <3>1. spent[t][j] <= count[t][j] + stray[t][j]
      BY DEF BucketCoversSpending
    <3>2. spent[t][j] \in Int /\ count[t][j] \in Nat /\ stray[t][j] \in Nat
      BY DEF TypeOK
    <3> QED
      BY <2>1, <2>2, <3>1, <3>2
  <2> QED
    BY <2>3, <2>4, <2>5
<1> QED
  BY <1>4, <1>5 DEF ReserveGranted, ReserveFails

\* A refund lowers a bucket that is not empty, and either the spending it covers
\* falls too or, when the window has moved on, a stray refund is on record.
LEMMA RefundPreserves ==
    ASSUME IInv, NEW e \in Execs, NEW s \in Sources,
           RefundApplied(e, s) \/ RefundFails(e, s)
    PROVE  IInv'
<1> USE DEF IInv
<1> DEFINE k == key[e][s]
           c == charged[e][s]
           taken == IF count[s][k] > 0 THEN stray[s][k] + 1 ELSE stray[s][k]
<1>1. /\ k \in Windows /\ c \in Windows
      /\ count[s][k] \in Nat /\ spent[s][c] - 1 \in Int /\ stray[s][k] \in Nat /\ taken \in Nat
  BY DEF TypeOK
<1>2. UNCHANGED <<window, key, charged, round, served, expired>>
  BY DEF RefundApplied, RefundFails, histories
<1>3. slot' \in [Execs -> [Sources -> Slot]] /\ leaked' \in [Sources -> [Windows -> Nat]]
  <2>1. slot' \in [Execs -> [Sources -> Slot]]
    BY MoveToType DEF RefundApplied, RefundFails, Slot
  <2>2. leaked' \in [Sources -> [Windows -> Nat]]
    BY <1>1, LeakedType DEF RefundApplied, RefundFails, GiveBack
  <2> QED
    BY <2>1, <2>2
<1>4. CASE UNCHANGED <<spent, count, stray>>
  BY <1>2, <1>3, <1>4 DEF TypeOK, CountWithinLimit, BucketCoversSpending
<1>5. CASE GiveBack(e, s)
  <2>1. /\ Refunded(e, s) \in Nat
        /\ Refunded(e, s) <= count[s][k] /\ count[s][k] - 1 <= Refunded(e, s)
        /\ count[s][k] + stray[s][k] <= Refunded(e, s) + taken
    BY <1>1 DEF Refunded, Bucket
  <2>2. /\ count' \in [Sources -> [Windows -> Nat]]
        /\ \A t \in Sources, j \in Windows :
             count'[t][j] = IF t = s /\ j = k THEN Refunded(e, s) ELSE count[t][j]
    BY <1>1, <1>5, <2>1 DEF GiveBack, TypeOK
  <2>3. /\ spent' \in [Sources -> [Windows -> Int]]
        /\ \A t \in Sources, j \in Windows :
             spent'[t][j] = IF t = s /\ j = c THEN spent[s][c] - 1 ELSE spent[t][j]
    BY <1>1, <1>5 DEF GiveBack, TypeOK
  <2>4. /\ stray' \in [Sources -> [Windows -> Nat]]
        /\ \A t \in Sources, j \in Windows :
             stray'[t][j] = IF t = s /\ j = k /\ k # c THEN taken ELSE stray[t][j]
    <3>1. CASE k = c
      BY <1>5, <3>1 DEF GiveBack, TypeOK
    <3>2. CASE k # c
      <4>1. /\ stray' = [stray EXCEPT ![s][k] = taken]
            /\ stray \in [Sources -> [Windows -> Nat]]
        BY <1>5, <3>2 DEF GiveBack, Bucket, TypeOK
      <4> QED
        BY <1>1, <3>2, <4>1
    <3> QED
      BY <3>1, <3>2
  <2>5. TypeOK'
    BY <1>2, <1>3, <2>2, <2>3, <2>4 DEF TypeOK
  <2>6. CountWithinLimit'
    <3> SUFFICES ASSUME NEW t \in Sources, NEW j \in Windows PROVE count'[t][j] <= Limit
      BY DEF CountWithinLimit
    <3>1. count[t][j] <= Limit /\ count[t][j] \in Nat /\ Limit \in Nat
      BY RateBudgetAssumption DEF CountWithinLimit, TypeOK
    <3> QED
      BY <2>1, <2>2, <3>1
  <2>7. BucketCoversSpending'
    <3> SUFFICES ASSUME NEW t \in Sources, NEW j \in Windows, <<t, j>> \notin expired
                 PROVE  spent'[t][j] <= count'[t][j] + stray'[t][j]
      BY <1>2 DEF BucketCoversSpending
    <3>1. spent[t][j] <= count[t][j] + stray[t][j]
      BY DEF BucketCoversSpending
    <3>2. spent[t][j] \in Int /\ count[t][j] \in Nat /\ stray[t][j] \in Nat
      BY DEF TypeOK
    <3>3. spent'[t][j] <= spent[t][j]
      BY <2>3, <3>2
    <3>4. CASE ~(t = s /\ j = k)
      <4>1. count'[t][j] = count[t][j] /\ stray'[t][j] = stray[t][j] /\ spent'[t][j] \in Int
        BY <2>2, <2>3, <2>4, <3>4
      <4> QED
        BY <3>1, <3>2, <3>3, <4>1
    <3>5. CASE t = s /\ j = k /\ k = c
      <4>1. /\ count'[t][j] = Refunded(e, s) /\ stray'[t][j] = stray[t][j]
            /\ spent'[t][j] = spent[t][j] - 1
        BY <2>2, <2>3, <2>4, <3>5
      <4> QED
        BY <2>1, <3>1, <3>2, <3>5, <4>1
    <3>6. CASE t = s /\ j = k /\ k # c
      <4>1. /\ count'[t][j] = Refunded(e, s) /\ stray'[t][j] = taken
            /\ spent'[t][j] = spent[t][j]
        BY <2>2, <2>3, <2>4, <3>6
      <4> QED
        BY <1>1, <2>1, <3>1, <3>2, <3>6, <4>1
    <3> QED
      BY <3>4, <3>5, <3>6
  <2> QED
    BY <2>5, <2>6, <2>7
<1> QED
  BY <1>4, <1>5 DEF RefundApplied, RefundFails

\* An expired bucket leaves the claim; the others are as they were.
LEMMA ClockStepsPreserve ==
    ASSUME IInv,
           \/ \E e \in Execs : Join(e)
           \/ Roll
           \/ \E s \in Sources, k \in Windows : Expire(s, k)
    PROVE  IInv'
<1> USE RateBudgetAssumption DEF IInv, histories
<1>1. ASSUME NEW e \in Execs, Join(e) PROVE IInv'
  <2>1. round' \in [Execs -> 0..MaxRounds] /\ slot' \in [Execs -> [Sources -> Slot]]
    BY <1>1 DEF Join, TypeOK, Slot
  <2>2. UNCHANGED <<window, count, key, charged, spent, stray, served, leaked, expired>>
    BY <1>1 DEF Join
  <2> QED
    BY <2>1, <2>2 DEF TypeOK, CountWithinLimit, BucketCoversSpending
<1>2. CASE Roll
  <2>1. window' \in Windows
    BY <1>2 DEF Roll, Windows, TypeOK
  <2> QED
    BY <1>2, <2>1 DEF Roll, TypeOK, CountWithinLimit, BucketCoversSpending
<1>3. ASSUME NEW s \in Sources, NEW k \in Windows, Expire(s, k) PROVE IInv'
  <2>1. /\ count' \in [Sources -> [Windows -> Nat]]
        /\ \A t \in Sources, j \in Windows :
             count'[t][j] = IF t = s /\ j = k THEN 0 ELSE count[t][j]
    BY <1>3 DEF Expire, TypeOK
  <2>2. TypeOK'
    BY <1>3, <2>1 DEF Expire, TypeOK
  <2>3. CountWithinLimit'
    BY <2>1 DEF CountWithinLimit
  <2>4. BucketCoversSpending'
    BY <1>3, <2>1 DEF Expire, BucketCoversSpending
  <2> QED
    BY <2>2, <2>3, <2>4
<1> QED
  BY <1>1, <1>2, <1>3

\* Together: types, the limit and the coverage of spending hold for ever,
\* however goroutines, window boundaries and expiries interleave.
THEOREM InductiveInvariant == Spec => []IInv
<1>1. Init => IInv
  BY RateBudgetAssumption
     DEF Init, IInv, TypeOK, Windows, Slot, CountWithinLimit, BucketCoversSpending
<1>2. IInv /\ [Next]_vars => IInv'
  <2> SUFFICES ASSUME IInv, [Next]_vars PROVE IInv'
    OBVIOUS
  <2>1. ASSUME NEW e \in Execs, NEW s \in Sources, Goroutine(e, s) PROVE IInv'
    BY <2>1, LocalStepsPreserve, ReservePreserves, RefundPreserves DEF Goroutine
  <2>2. CASE UNCHANGED vars
    BY <2>2 DEF vars, IInv, TypeOK, CountWithinLimit, BucketCoversSpending
  <2> QED
    BY <2>1, <2>2, ClockStepsPreserve DEF Next
<1> QED
  BY <1>1, <1>2, PTL DEF Spec

\* No bucket ever passes its limit.
THEOREM LimitHolds == Spec => []CountWithinLimit
BY InductiveInvariant, PTL DEF IInv

\* A window is overspent by at most the refunds that strayed into its bucket.
THEOREM OverspendBounded == Spec => []OverspendIsStrayRefunds
<1>1. IInv => OverspendIsStrayRefunds
  <2> SUFFICES ASSUME IInv, NEW s \in Sources, NEW k \in Windows, <<s, k>> \notin expired
               PROVE  spent[s][k] <= Limit + stray[s][k]
    BY DEF OverspendIsStrayRefunds
  <2>1. /\ spent[s][k] <= count[s][k] + stray[s][k]
        /\ count[s][k] <= Limit
    BY DEF IInv, BucketCoversSpending, CountWithinLimit
  <2>2. spent[s][k] \in Int /\ count[s][k] \in Nat /\ stray[s][k] \in Nat /\ Limit \in Nat
    BY RateBudgetAssumption DEF IInv, TypeOK
  <2> QED
    BY <2>1, <2>2
<1> QED
  BY <1>1, InductiveInvariant, PTL
-----------------------------------------------------------------------------
(* Leaks.                                                                  *)

\* The executions whose goroutine for s holds a unit of window k.
Out(s, k) == {e \in Execs : /\ slot[e][s] \in {"fetching", "failed", "refunding"}
                            /\ charged[e][s] = k}

\* Every unit in a bucket is a served call, a leak, or out with a goroutine.
UnitsAccountedFor ==
    /\ \A e \in Execs, s \in Sources :
         slot[e][s] \in {"reserving", "failed", "refunding"} => s \in Capped
    /\ \A s \in Sources, k \in Windows :
         IF s \in Capped
         THEN count[s][k] <= served[s][k] + leaked[s][k] + Cardinality(Out(s, k))
         ELSE count[s][k] = 0

\* Adding an execution to a set of them, or removing it, is counted.
LEMMA ExecsCount ==
    ASSUME NEW S \in SUBSET Execs, NEW e \in Execs
    PROVE  /\ Cardinality(S) \in Nat
           /\ e \notin S => Cardinality(S \cup {e}) = Cardinality(S) + 1
           /\ e \in S => Cardinality(S \ {e}) = Cardinality(S) - 1
<1>1. IsFiniteSet(S)
  BY RateBudgetAssumption, FS_Subset
<1> QED
  BY <1>1, FS_CardinalityType, FS_AddElement, FS_RemoveElement

\* The units out for a source and window are a number, since executions are
\* finitely many.
LEMMA ExecsCountNat ==
    \A s \in Sources, k \in Windows : Cardinality(Out(s, k)) \in Nat
<1>1. \A s, k : Out(s, k) \in SUBSET Execs
  BY DEF Out
<1>2. \A S \in SUBSET Execs : IsFiniteSet(S)
  BY RateBudgetAssumption, FS_Subset
<1> QED
  BY <1>1, <1>2, FS_CardinalityType

\* An increment of one cell of a table of counters.
LEMMA OneMore ==
    ASSUME NEW tab \in [Sources -> [Windows -> Nat]], NEW s \in Sources, NEW k \in Windows
    PROVE  \A t \in Sources, j \in Windows :
             [tab EXCEPT ![s][k] = tab[s][k] + 1][t][j]
               = IF t = s /\ j = k THEN tab[t][j] + 1 ELSE tab[t][j]
<1>1. tab[s] \in [Windows -> Nat]
  OBVIOUS
<1> QED
  BY <1>1

\* Only the slot of the goroutine that moves changes.
LEMMA OneMoves ==
    ASSUME TypeOK, NEW e \in Execs, NEW s \in Sources, NEW to, MoveTo(e, s, to)
    PROVE  \A f \in Execs, t \in Sources :
             slot'[f][t] = IF f = e /\ t = s THEN to ELSE slot[f][t]
<1>1. slot[e] \in [Sources -> Slot]
  BY DEF TypeOK
<1> QED
  BY <1>1 DEF TypeOK, MoveTo

\* Steps that take no unit out and bring none back.
LEMMA OutUnmoved ==
    ASSUME IInv, UnitsAccountedFor, NEW e \in Execs, NEW s \in Sources,
           \/ ReserveUnlimited(e, s) \/ ReserveKey(e, s) \/ ReserveExhausted(e, s)
           \/ ReserveFails(e, s) \/ FetchFails(e, s) \/ RefundKey(e, s)
    PROVE  UnitsAccountedFor'
<1> USE DEF IInv
<1>1. PICK to \in Slot :
        /\ MoveTo(e, s, to)
        /\ to \in {"reserving", "failed", "refunding"} => s \in Capped
        /\ s \in Capped => (slot[e][s] \in {"fetching", "failed", "refunding"}
                             <=> to \in {"fetching", "failed", "refunding"})
  BY DEF UnitsAccountedFor, ReserveUnlimited, ReserveKey, ReserveExhausted, ReserveFails,
         FetchFails, RefundKey, Slot
<1>2. /\ \A f \in Execs, t \in Sources :
            slot'[f][t] = IF f = e /\ t = s THEN to ELSE slot[f][t]
      /\ UNCHANGED <<charged, served>>
  BY <1>1, OneMoves
     DEF ReserveUnlimited, ReserveKey, ReserveExhausted, ReserveFails, FetchFails, RefundKey,
         histories
<1>3. \A t \in Sources, k \in Windows : t \in Capped => Out(t, k)' = Out(t, k)
  BY <1>1, <1>2 DEF Out
<1>4. \A t \in Sources, k \in Windows : Cardinality(Out(t, k)) \in Nat
  BY ExecsCountNat
<1>5. ASSUME NEW t \in Sources, NEW k \in Windows
      PROVE  /\ t \in Capped => count'[t][k] - count[t][k] <= leaked'[t][k] - leaked[t][k]
             /\ t \notin Capped => count'[t][k] = count[t][k]
             /\ count'[t][k] \in Nat /\ leaked'[t][k] \in Nat
  <2>1. CASE UNCHANGED <<count, leaked>>
    BY <2>1 DEF TypeOK
  <2>2. CASE /\ s \in Capped
             /\ count' = [count EXCEPT ![s][key[e][s]] = count[s][key[e][s]] + 1]
             /\ leaked' = [leaked EXCEPT ![s][key[e][s]] = leaked[s][key[e][s]] + 1]
    <3>1. key[e][s] \in Windows /\ count[t][k] \in Nat /\ leaked[t][k] \in Nat
      BY DEF TypeOK
    <3>2. /\ count \in [Sources -> [Windows -> Nat]]
          /\ leaked \in [Sources -> [Windows -> Nat]]
      BY DEF TypeOK
    <3>3. /\ count'[t][k] = IF t = s /\ k = key[e][s] THEN count[t][k] + 1 ELSE count[t][k]
          /\ leaked'[t][k] = IF t = s /\ k = key[e][s] THEN leaked[t][k] + 1 ELSE leaked[t][k]
      BY <2>2, <3>1, <3>2, OneMore
    <3> QED
      BY <2>2, <3>1, <3>3
  <2> QED
    BY <2>1, <2>2
       DEF UnitsAccountedFor, ReserveUnlimited, ReserveKey, ReserveExhausted, ReserveFails,
           FetchFails, RefundKey, histories
<1>6. ASSUME NEW t \in Sources, NEW k \in Windows
      PROVE  IF t \in Capped
             THEN count'[t][k] <= served'[t][k] + leaked'[t][k] + Cardinality(Out(t, k)')
             ELSE count'[t][k] = 0
  <2>1. /\ count[t][k] \in Nat /\ served[t][k] \in Nat /\ leaked[t][k] \in Nat
        /\ served'[t][k] = served[t][k]
    BY <1>2 DEF TypeOK
  <2> QED
    BY <1>3, <1>4, <1>5, <2>1 DEF UnitsAccountedFor
<1> QED
  BY <1>1, <1>2, <1>6 DEF UnitsAccountedFor

\* A granted unit goes out with its goroutine.
LEMMA GrantedGoesOut ==
    ASSUME IInv, UnitsAccountedFor, NEW e \in Execs, NEW s \in Sources, ReserveGranted(e, s)
    PROVE  UnitsAccountedFor'
<1> USE DEF IInv
<1> DEFINE k == key[e][s]
<1>1. s \in Capped /\ k \in Windows /\ slot[e][s] = "reserving"
  BY DEF ReserveGranted, UnitsAccountedFor, TypeOK
<1>2. \A f \in Execs, t \in Sources :
        slot'[f][t] = IF f = e /\ t = s THEN "fetching" ELSE slot[f][t]
  BY OneMoves DEF ReserveGranted
<1>3. \A f \in Execs, t \in Sources :
        charged'[f][t] = IF f = e /\ t = s THEN k ELSE charged[f][t]
  <2>1. charged[e] \in [Sources -> Windows]
    BY DEF TypeOK
  <2> QED
    BY <2>1 DEF ReserveGranted, TypeOK
<1>4. \A t \in Sources, j \in Windows :
        count'[t][j] = IF t = s /\ j = k THEN count[t][j] + 1 ELSE count[t][j]
  <2>1. count' = [count EXCEPT ![s][k] = count[s][k] + 1] /\ count \in [Sources -> [Windows -> Nat]]
    BY DEF ReserveGranted, TypeOK
  <2> QED
    BY <1>1, <2>1, OneMore
<1>5. ASSUME NEW t \in Sources, NEW j \in Windows, t \in Capped
      PROVE  count'[t][j] <= served'[t][j] + leaked'[t][j] + Cardinality(Out(t, j)')
  <2>1. /\ Out(t, j) \in SUBSET Execs /\ e \notin Out(s, j)
        /\ Out(t, j)' = IF t = s /\ j = k THEN Out(t, j) \cup {e} ELSE Out(t, j)
    BY <1>1, <1>2, <1>3 DEF Out
  <2>2. /\ Cardinality(Out(t, j)) \in Nat
        /\ Cardinality(Out(t, j)') = IF t = s /\ j = k THEN Cardinality(Out(t, j)) + 1
                                                       ELSE Cardinality(Out(t, j))
    BY <2>1, ExecsCount
  <2>3. /\ count[t][j] <= served[t][j] + leaked[t][j] + Cardinality(Out(t, j))
        /\ count[t][j] \in Nat /\ served[t][j] \in Nat /\ leaked[t][j] \in Nat
        /\ served'[t][j] = served[t][j] /\ leaked'[t][j] = leaked[t][j]
    BY <1>5 DEF UnitsAccountedFor, TypeOK, ReserveGranted, histories
  <2> QED
    BY <1>4, <2>2, <2>3
<1> QED
  BY <1>1, <1>2, <1>4, <1>5 DEF UnitsAccountedFor

\* A unit that a goroutine brings back has become a served call, has left the
\* bucket it was taken from, or is on record as leaked.
LEMMA UnitComesBack ==
    ASSUME IInv, UnitsAccountedFor, NEW e \in Execs, NEW s \in Sources,
           FetchOk(e, s) \/ RefundApplied(e, s) \/ RefundFails(e, s)
    PROVE  UnitsAccountedFor'
<1> USE DEF IInv
<1> DEFINE k == key[e][s]
           c == charged[e][s]
<1>1. /\ k \in Windows /\ c \in Windows
      /\ slot[e][s] \in {"fetching", "refunding"}
      /\ UNCHANGED charged
  BY DEF FetchOk, RefundApplied, RefundFails, TypeOK
<1>2. PICK to \in {"ok", "err"} : \A f \in Execs, t \in Sources :
        slot'[f][t] = IF f = e /\ t = s THEN to ELSE slot[f][t]
  BY OneMoves DEF FetchOk, RefundApplied, RefundFails
\* What one bucket loses, and what is put on record for it.
<1> DEFINE Settled(t, j) ==
             /\ count'[t][j] \in Nat /\ served'[t][j] \in Nat /\ leaked'[t][j] \in Nat
             /\ count'[t][j] <= count[t][j]
             /\ served[t][j] <= served'[t][j] /\ leaked[t][j] <= leaked'[t][j]
             /\ (t = s /\ j = c /\ s \in Capped)
                   => \/ count'[t][j] = 0
                      \/ count'[t][j] = count[t][j] - 1
                      \/ served'[t][j] + leaked'[t][j] = served[t][j] + leaked[t][j] + 1
<1>3. ASSUME NEW t \in Sources, NEW j \in Windows PROVE Settled(t, j)
  <2>0. /\ count[t][j] \in Nat /\ served[t][j] \in Nat /\ leaked[t][j] \in Nat
        /\ count[s][k] \in Nat
    BY <1>1 DEF TypeOK
  <2>1. ASSUME FetchOk(e, s) PROVE Settled(t, j)
    <3>1. CASE s \in Capped
      <4>1. /\ served' = [served EXCEPT ![s][c] = served[s][c] + 1]
            /\ served \in [Sources -> [Windows -> Nat]]
            /\ UNCHANGED <<count, leaked>>
        BY <2>1, <3>1 DEF FetchOk, TypeOK
      <4>2. served'[t][j] = IF t = s /\ j = c THEN served[t][j] + 1 ELSE served[t][j]
        BY <1>1, <4>1, OneMore
      <4>3. count'[t][j] = count[t][j] /\ leaked'[t][j] = leaked[t][j]
        BY <4>1
      <4>4. CASE t = s /\ j = c
        BY <2>0, <4>2, <4>3, <4>4
      <4>5. CASE ~(t = s /\ j = c)
        BY <2>0, <4>2, <4>3, <4>5
      <4> QED
        BY <4>4, <4>5
    <3>2. CASE s \notin Capped
      BY <2>0, <2>1, <3>2 DEF FetchOk
    <3> QED
      BY <3>1, <3>2
  <2>2. ASSUME GiveBack(e, s), UNCHANGED served PROVE Settled(t, j)
    <3>1. /\ Refunded(e, s) \in Nat /\ Refunded(e, s) <= count[s][k]
          /\ Refunded(e, s) = 0 \/ Refunded(e, s) = count[s][k] - 1
      BY <2>0 DEF Refunded, Bucket
    <3>2. count'[t][j] = IF t = s /\ j = k THEN Refunded(e, s) ELSE count[t][j]
      BY <1>1, <2>2, <3>1 DEF GiveBack, TypeOK
    <3>3. CASE k = c
      BY <2>0, <2>2, <3>1, <3>2, <3>3 DEF GiveBack
    <3>4. CASE k # c
      <4>1. /\ leaked' = [leaked EXCEPT ![s][c] = leaked[s][c] + 1]
            /\ leaked \in [Sources -> [Windows -> Nat]]
        BY <2>2, <3>4 DEF GiveBack, TypeOK
      <4>2. leaked'[t][j] = IF t = s /\ j = c THEN leaked[t][j] + 1 ELSE leaked[t][j]
        BY <1>1, <4>1, OneMore
      <4> QED
        BY <2>0, <2>2, <3>1, <3>2, <3>4, <4>2
    <3> QED
      BY <3>3, <3>4
  <2>3. ASSUME leaked' = [leaked EXCEPT ![s][c] = leaked[s][c] + 1], UNCHANGED <<count, served>>
        PROVE  Settled(t, j)
    <3>1. leaked \in [Sources -> [Windows -> Nat]]
      BY DEF TypeOK
    <3>2. leaked'[t][j] = IF t = s /\ j = c THEN leaked[t][j] + 1 ELSE leaked[t][j]
      BY <1>1, <2>3, <3>1, OneMore
    <3> QED
      BY <2>0, <2>3, <3>2
  <2> QED
    BY <2>1, <2>2, <2>3 DEF RefundApplied, RefundFails
<1>4. ASSUME NEW t \in Sources, NEW j \in Windows, t \in Capped
      PROVE  count'[t][j] <= served'[t][j] + leaked'[t][j] + Cardinality(Out(t, j)')
  <2>1. /\ Out(t, j) \in SUBSET Execs /\ e \in Out(s, c)
        /\ Out(t, j)' = IF t = s /\ j = c THEN Out(t, j) \ {e} ELSE Out(t, j)
    BY <1>1, <1>2 DEF Out
  <2>2. /\ Cardinality(Out(t, j)) \in Nat /\ Cardinality(Out(t, j)') \in Nat
        /\ Cardinality(Out(t, j)') = IF t = s /\ j = c THEN Cardinality(Out(t, j)) - 1
                                                       ELSE Cardinality(Out(t, j))
    <3>1. Out(t, j)' \in SUBSET Execs
      BY <2>1
    <3> QED
      BY <2>1, <3>1, ExecsCount
  <2>3. /\ count[t][j] <= served[t][j] + leaked[t][j] + Cardinality(Out(t, j))
        /\ count[t][j] \in Nat /\ served[t][j] \in Nat /\ leaked[t][j] \in Nat
    BY <1>4 DEF UnitsAccountedFor, TypeOK
  <2> QED
    BY <1>3, <1>4, <2>2, <2>3
<1>5. ASSUME NEW t \in Sources, NEW j \in Windows, t \notin Capped PROVE count'[t][j] = 0
  <2>1. count[t][j] = 0
    BY <1>5 DEF UnitsAccountedFor
  <2> QED
    BY <1>3, <2>1
<1> QED
  BY <1>2, <1>4, <1>5 DEF UnitsAccountedFor

\* Joining, the clock and expiry move no unit.
LEMMA ClockMovesNoUnit ==
    ASSUME IInv, UnitsAccountedFor,
           \/ \E e \in Execs : Join(e)
           \/ Roll
           \/ \E s \in Sources, k \in Windows : Expire(s, k)
    PROVE  UnitsAccountedFor'
<1> USE DEF IInv, histories
<1>1. ASSUME NEW e \in Execs, Join(e) PROVE UnitsAccountedFor'
  <2>1. \A f \in Execs, s \in Sources : slot'[f][s] = IF f = e THEN "start" ELSE slot[f][s]
    BY <1>1 DEF Join, TypeOK
  <2>2. UNCHANGED <<count, charged, served, leaked>> /\ \A s \in Sources : slot[e][s] \in {"ok", "err"}
    BY <1>1 DEF Join, Joined
  <2>3. \A s \in Sources, k \in Windows : Out(s, k)' = Out(s, k)
    BY <2>1, <2>2 DEF Out
  <2> QED
    BY <2>1, <2>2, <2>3 DEF UnitsAccountedFor
<1>2. CASE Roll
  BY <1>2 DEF Roll, UnitsAccountedFor, Out
<1>3. ASSUME NEW s \in Sources, NEW k \in Windows, Expire(s, k) PROVE UnitsAccountedFor'
  <2>1. \A t \in Sources, j \in Windows :
          count'[t][j] = IF t = s /\ j = k THEN 0 ELSE count[t][j]
    BY <1>3 DEF Expire, TypeOK
  <2>2. UNCHANGED <<slot, charged, served, leaked>>
    BY <1>3 DEF Expire
  <2>3. \A t \in Sources, j \in Windows :
          /\ Out(t, j)' = Out(t, j) /\ Cardinality(Out(t, j)) \in Nat
          /\ served[t][j] \in Nat /\ leaked[t][j] \in Nat
    <3>1. \A t \in Sources, j \in Windows : Cardinality(Out(t, j)) \in Nat
      BY <1>3, ExecsCountNat
    <3> QED
      BY <2>2, <3>1 DEF Out, TypeOK
  <2> QED
    BY <2>1, <2>2, <2>3 DEF UnitsAccountedFor
<1> QED
  BY <1>1, <1>2, <1>3

\* Once every fan-out has joined, a bucket holds no more than the calls that
\* succeeded and the units that a lost answer of Redis or a refund made in
\* another window left behind, for any finite number of executions.
THEOREM LeaksBounded == Spec => []LeaksAreAccountedFor
<1>1. Init => UnitsAccountedFor
  <2> SUFFICES ASSUME Init PROVE UnitsAccountedFor
    OBVIOUS
  <2>1. \A s \in Sources, k \in Windows :
          /\ count[s][k] = 0 /\ served[s][k] = 0 /\ leaked[s][k] = 0
          /\ Cardinality(Out(s, k)) \in Nat
    BY ExecsCountNat DEF Init
  <2> QED
    BY <2>1 DEF Init, UnitsAccountedFor
<1>2. IInv /\ UnitsAccountedFor /\ [Next]_vars => UnitsAccountedFor'
  <2> SUFFICES ASSUME IInv, UnitsAccountedFor, [Next]_vars PROVE UnitsAccountedFor'
    OBVIOUS
  <2>1. ASSUME NEW e \in Execs, NEW s \in Sources, Goroutine(e, s) PROVE UnitsAccountedFor'
    BY <2>1, OutUnmoved, GrantedGoesOut, UnitComesBack DEF Goroutine
  <2>2. CASE UNCHANGED vars
    BY <2>2 DEF vars, UnitsAccountedFor, Out
  <2> QED
    BY <2>1, <2>2, ClockMovesNoUnit DEF Next
<1>3. IInv /\ UnitsAccountedFor => LeaksAreAccountedFor
  <2> SUFFICES ASSUME IInv, UnitsAccountedFor, \A e \in Execs : Joined(e),
                      NEW s \in Sources, NEW k \in Windows
               PROVE  count[s][k] <= served[s][k] + leaked[s][k]
    BY DEF LeaksAreAccountedFor
  <2>1. Out(s, k) = {}
    BY DEF Out, Joined
  <2>2. Cardinality(Out(s, k)) = 0
    BY <2>1, FS_EmptySet
  <2>3. count[s][k] \in Nat /\ served[s][k] \in Nat /\ leaked[s][k] \in Nat
    BY DEF IInv, TypeOK
  <2> QED
    BY <2>2, <2>3 DEF UnitsAccountedFor
<1> QED
  BY <1>1, <1>2, <1>3, InductiveInvariant, PTL DEF Spec
=============================================================================
