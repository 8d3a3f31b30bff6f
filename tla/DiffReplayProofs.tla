-------------------------- MODULE DiffReplayProofs --------------------------
(***************************************************************************)
(* Proofs about the source rows and the discrepancy records of DiffReplay, *)
(* for any set of source types, upstreams, values, update requests and     *)
(* replay requests.                                                        *)
(***************************************************************************)
EXTENDS DiffReplay, SequenceTheorems, TLAPS

-----------------------------------------------------------------------------
(* Credentials.                                                            *)

\* The ciphertext and the nonce of every row, and of every copy of a row that
\* an update is about to write back, come from one encryption, or both are NULL.
SecretsPaired ==
    /\ DOMAIN rows = Types
    /\ \A t \in Types : rows[t].ct = rows[t].nonce
    /\ DOMAIN puts = Admins
    /\ \A a \in Admins : puts[a].row.ct = puts[a].row.nonce

\* A merge keeps the pair of the row, draws both of a new one, or clears both.
LEMMA UpdateKeepsPair ==
    ASSUME NEW row, row.ct = row.nonce, NEW body, NEW n
    PROVE  ApplyUpdate(row, body, n).ct = ApplyUpdate(row, body, n).nonce
BY DEF ApplyUpdate

\* Every action on the sources table (POST, PUT, DELETE, seed) keeps each stored
\* ciphertext with the nonce it was made with.
LEMMA ConfigStepsKeepPairs ==
    ASSUME SecretsPaired, ConfigNext
    PROVE  SecretsPaired'
<1> USE DEF SecretsPaired
<1>1. ASSUME NEW t \in Types, NEW body, Create(t, body) PROVE SecretsPaired'
  <2> DEFINE row == [NoRow EXCEPT !.enabled = TRUE]
  <2>1. row.ct = row.nonce
    BY DEF NoRow
  <2> HIDE DEF row
  <2>2. ApplyUpdate(row, body, nonces + 1).ct = ApplyUpdate(row, body, nonces + 1).nonce
    BY <2>1, UpdateKeepsPair
  <2>3. rows' = [rows EXCEPT ![t] = ApplyUpdate(row, body, nonces + 1)] /\ UNCHANGED puts
    BY <1>1 DEF Create, row
  <2> QED
    BY <2>2, <2>3
<1>2. ASSUME NEW a \in Admins, NEW t \in Types, NEW body, PutLoad(a, t, body) PROVE SecretsPaired'
  BY <1>2 DEF PutLoad
<1>3. ASSUME NEW a \in Admins, PutSave(a) PROVE SecretsPaired'
  <2>1. ApplyUpdate(puts[a].row, puts[a].body, nonces + 1).ct
          = ApplyUpdate(puts[a].row, puts[a].body, nonces + 1).nonce
    BY UpdateKeepsPair
  <2>2. Idle.row.ct = Idle.row.nonce
    BY DEF Idle, NoRow
  <2> QED
    BY <1>3, <2>1, <2>2 DEF PutSave
<1>4. ASSUME NEW t \in Types, Delete(t) PROVE SecretsPaired'
  BY <1>4 DEF Delete, NoRow
<1>5. CASE SeedCheck
  BY <1>5 DEF SeedCheck
<1>6. CASE SeedRow
  BY <1>6 DEF SeedRow
<1> HIDE DEF SecretsPaired
<1> QED
  BY <1>1, <1>2, <1>3, <1>4, <1>5, <1>6 DEF ConfigNext

\* Every stored credential decrypts, however updates of a row race with each
\* other, with deletes and with the seed command.
THEOREM SecretsStayReadable == Spec => []StoredSecretsDecrypt
<1>1. Init => SecretsPaired
  BY DEF Init, ConfigInit, SecretsPaired, NoRow, Idle
<1>2. SecretsPaired /\ [Next]_vars => SecretsPaired'
  <2> SUFFICES ASSUME SecretsPaired, [Next]_vars PROVE SecretsPaired'
    OBVIOUS
  <2>1. CASE UNCHANGED <<rows, puts>>
    BY <2>1 DEF SecretsPaired
  <2>2. CASE ConfigNext
    BY <2>2, ConfigStepsKeepPairs
  <2>3. ASSUME NEW p \in Replayers, ReplayNext(p) PROVE UNCHANGED <<rows, puts>>
    BY <2>3 DEF ReplayNext, Load, Get, Fetch, TooFew, Resolve, SaveAgain, configVars
  <2>4. CASE \/ \E e \in Endpoints, raw \in Raws : Change(e, raw)
             \/ \E got \in SUBSET Types : Detect(got)
             \/ Prune \/ UNCHANGED vars
    BY <2>1, <2>4 DEF Change, Detect, Prune, vars, configVars
  <2> QED
    BY <2>1, <2>2, <2>3, <2>4 DEF Next
<1>3. SecretsPaired => StoredSecretsDecrypt
  BY DEF SecretsPaired, StoredSecretsDecrypt, Decrypts
<1> QED
  BY <1>1, <1>2, <1>3, PTL DEF Spec
-----------------------------------------------------------------------------
(* Records.                                                                *)

\* A sequence, of whatever elements.
ASequence(s) == \E S : s \in Seq(S)

\* The records and the histories of their resolution go together, and a
\* record's parent is a record.
Records ==
    /\ ASequence(diffs) /\ ASequence(witness)
    /\ Len(witness) = Len(diffs)
    /\ \A d \in 1..Len(diffs) :
         /\ DOMAIN diffs[d] = {"values", "resolved", "parent"}
         /\ diffs[d].parent \in 0..Len(diffs)

Sound == Records /\ RecordsNarrow /\ ResolvedOnTwoAnswers /\ SweptForGood

\* A replay asks, and has heard, only participants of the record it loaded,
\* unless the sweep has taken the record since.
Within(request, records) ==
    request # Free =>
      /\ request.id \in 1..Len(records)
      /\ records[request.id] # Gone =>
           (request.todo \cup DOMAIN request.built \cup DOMAIN request.snapshots)
             \subseteq DOMAIN records[request.id].values

ARequest(r) == DOMAIN r = {"id", "todo", "built", "snapshots"}

Requests ==
    /\ DOMAIN replay = Replayers
    /\ \A p \in Replayers : ARequest(replay[p]) /\ Within(replay[p], diffs)

\* The inductive invariant.  The properties alone are not inductive: a record a
\* replay inserts is about what the request has heard, so what the request may
\* have heard has to be carried from Load to the insert.
IInv == Sound /\ Requests

\* The length and the indices of a sequence over no particular set.
LEMMA SequenceShape ==
    ASSUME NEW s, ASequence(s)
    PROVE  Len(s) \in Nat /\ DOMAIN s = 1..Len(s)
<1>1. PICK S : s \in Seq(S)
  BY DEF ASequence
<1> QED
  BY <1>1, LenProperties

\* Append keeps every element in its place and adds one behind them.
LEMMA AppendShape ==
    ASSUME NEW s, ASequence(s), NEW x
    PROVE  /\ ASequence(Append(s, x)) /\ Len(Append(s, x)) = Len(s) + 1
           /\ \A i \in 1..Len(s) : Append(s, x)[i] = s[i]
           /\ Append(s, x)[Len(s) + 1] = x
<1>1. PICK S : s \in Seq(S)
  BY DEF ASequence
<1> DEFINE T == S \cup {x}
<1>2. s \in Seq(T)
  BY <1>1, SeqMonotonic
<1>3. x \in T
  OBVIOUS
<1> HIDE DEF T
<1>4. Append(s, x) \in Seq(T)
  BY <1>2, <1>3
<1>5. /\ Len(Append(s, x)) = Len(s) + 1
      /\ \A i \in 1..Len(s) : Append(s, x)[i] = s[i]
      /\ Append(s, x)[Len(s) + 1] = x
  BY <1>2, <1>3
<1> QED
  BY <1>4, <1>5 DEF ASequence

\* A function on a sequence's indices is a sequence of the same length.
LEMMA SameIndices ==
    ASSUME NEW s, ASequence(s), NEW t, t = [j \in DOMAIN s |-> t[j]]
    PROVE  ASequence(t) /\ Len(t) = Len(s)
<1> DEFINE n == Len(s)
           T == {t[j] : j \in 1..n}
<1>1. n \in Nat /\ t = [j \in 1..n |-> t[j]]
  BY SequenceShape
<1>2. t \in [1..n -> T]
  BY <1>1
<1> HIDE DEF n, T
<1>3. t \in Seq(T)
  BY <1>1, <1>2, SeqDef
<1>4. Len(t) \in Nat /\ 1..n = 1..Len(t)
  BY <1>1, <1>3, LenProperties
<1>5. Len(t) = n
  BY <1>1, <1>4
<1> QED
  BY <1>3, <1>5 DEF ASequence, n

\* From one state of the table to the next no record is lost, and a record that
\* is not swept keeps its participants and its values.
Keeps(s, t) ==
    /\ Len(s) <= Len(t)
    /\ \A d \in 1..Len(s) : t[d] # Gone => s[d] # Gone /\ t[d].values = s[d].values

\* What a request may ask survives such a step of the table.
LEMMA RequestSurvives ==
    ASSUME NEW s, ASequence(s), NEW t, ASequence(t), Keeps(s, t), NEW r, Within(r, s)
    PROVE  Within(r, t)
BY SequenceShape DEF Keeps, Within

\* A step of one request, with the table, leaves the requests in order.
LEMMA RequestsPreserved ==
    ASSUME Requests, ASequence(diffs), ASequence(diffs'), Keeps(diffs, diffs'),
           NEW p \in Replayers, NEW next, Moves(p, next), ARequest(next), Within(next, diffs')
    PROVE  Requests'
<1>1. /\ DOMAIN replay' = Replayers
      /\ \A q \in Replayers : replay'[q] = IF q = p THEN next ELSE replay[q]
  BY DEF Requests, Moves
<1>2. \A q \in Replayers : ARequest(replay[q]) /\ Within(replay[q], diffs')
  BY RequestSurvives DEF Requests
<1>3. \A q \in Replayers : ARequest(replay'[q]) /\ Within(replay'[q], diffs')
  BY <1>1, <1>2
<1> QED
  BY <1>1, <1>3 DEF Requests

\* A request that has ended asks nothing.
LEMMA EndedRequest == ARequest(Free) /\ \A s : Within(Free, s)
BY DEF ARequest, Within, Free

\* Inserting a record that shows a disagreement and, when a replay made it,
\* narrows an earlier record.
LEMMA InsertPreserves ==
    ASSUME Sound, NEW values, NEW parent \in 0..Len(diffs), Insert(values, parent),
           runKept, UNCHANGED runKept, ~Agree(values),
           parent # 0 /\ diffs[parent] # Gone => DOMAIN values \subseteq DOMAIN diffs[parent].values
    PROVE  Sound' /\ Keeps(diffs, diffs')
<1> DEFINE n == Len(diffs)
           rec == [values |-> values, resolved |-> FALSE, parent |-> parent]
<1>1. /\ n \in Nat /\ DOMAIN diffs = 1..n /\ ASequence(diffs')
      /\ Len(diffs') = n + 1 /\ DOMAIN diffs' = 1..(n + 1)
      /\ \A d \in 1..n : diffs'[d] = diffs[d]
      /\ diffs'[n + 1] = rec
  <2>1. ASequence(diffs) /\ diffs' = Append(diffs, rec)
    BY DEF Sound, Records, Insert
  <2>2. /\ ASequence(diffs') /\ Len(diffs') = n + 1
        /\ \A d \in 1..n : diffs'[d] = diffs[d]
        /\ diffs'[n + 1] = rec
    BY <2>1, AppendShape
  <2> QED
    BY <2>1, <2>2, SequenceShape
<1>2. /\ ASequence(witness') /\ Len(witness') = n + 1
      /\ \A d \in 1..n : witness'[d] = witness[d]
  BY AppendShape DEF Sound, Records, Insert
<1> HIDE DEF n
<1>3. Keeps(diffs, diffs')
  BY <1>1 DEF Keeps, n
<1>4. \A d \in 1..n : diffs[d].parent \in 0..n
  BY DEF Sound, Records, n
<1>5. Records'
  <2> SUFFICES ASSUME NEW d \in 1..(n + 1)
               PROVE  /\ DOMAIN diffs'[d] = {"values", "resolved", "parent"}
                      /\ diffs'[d].parent \in 0..(n + 1)
    BY <1>1, <1>2 DEF Records
  <2>1. CASE d = n + 1
    BY <1>1, <2>1 DEF n
  <2>2. CASE d \in 1..n
    <3>1. /\ DOMAIN diffs[d] = {"values", "resolved", "parent"}
          /\ diffs[d].parent \in 0..n
      BY <2>2 DEF Sound, Records, n
    <3>2. diffs'[d] = diffs[d]
      BY <1>1, <2>2
    <3>3. diffs[d].parent \in 0..(n + 1)
      BY <1>1, <3>1
    <3> QED
      BY <3>1, <3>2, <3>3
  <2> QED
    BY <1>1, <2>1, <2>2
<1>6. RecordsNarrow'
  <2> SUFFICES ASSUME NEW d \in 1..(n + 1), diffs'[d] # Gone
               PROVE  /\ ~Agree(diffs'[d].values)
                      /\ diffs'[d].parent # 0 =>
                           /\ diffs'[d].parent < d
                           /\ diffs'[diffs'[d].parent] # Gone =>
                                DOMAIN diffs'[d].values \subseteq DOMAIN diffs'[diffs'[d].parent].values
    BY <1>1 DEF RecordsNarrow, Agree
  <2>1. CASE d = n + 1
    BY <1>1, <2>1 DEF n
  <2>2. CASE d \in 1..n
    <3>1. /\ ~Agree(diffs[d].values)
          /\ diffs[d].parent # 0 =>
               /\ diffs[d].parent < d
               /\ diffs[diffs[d].parent] # Gone =>
                    DOMAIN diffs[d].values \subseteq DOMAIN diffs[diffs[d].parent].values
      BY <1>1, <2>2 DEF Sound, RecordsNarrow
    <3> QED
      BY <1>1, <1>4, <2>2, <3>1
  <2> QED
    BY <1>1, <2>1, <2>2
<1>7. ResolvedOnTwoAnswers'
  BY <1>1, <1>2 DEF Sound, ResolvedOnTwoAnswers
<1>8. SweptForGood'
  BY DEF SweptForGood
<1> QED
  BY <1>3, <1>5, <1>6, <1>7, <1>8 DEF Sound

\* The sweep empties every record.
LEMMA PrunePreserves ==
    ASSUME Sound, Prune
    PROVE  Sound' /\ Keeps(diffs, diffs')
<1> DEFINE n == Len(diffs)
<1>1. /\ n \in Nat /\ DOMAIN diffs = 1..n
      /\ diffs' = [d \in 1..n |-> Gone]
      /\ UNCHANGED witness
  BY SequenceShape DEF Sound, Records, Prune
<1>2. ASequence(diffs') /\ Len(diffs') = n
  <2>1. ASequence(diffs) /\ diffs' = [d \in DOMAIN diffs |-> diffs'[d]]
    BY <1>1 DEF Sound, Records
  <2> QED
    BY <2>1, SameIndices
<1>3. DOMAIN Gone = {"values", "resolved", "parent"}
      /\ Gone.parent = 0 /\ Gone.resolved = FALSE
  BY DEF Gone
<1>4. \A d \in 1..n : diffs'[d] = Gone
  BY <1>1
<1>5. Len(witness) = n /\ ASequence(witness)
  BY DEF Sound, Records
<1>6. DOMAIN diffs' = 1..n
  BY <1>1
<1> HIDE DEF n
<1>7. Records'
  BY <1>1, <1>2, <1>3, <1>4, <1>5 DEF Records
<1>8. RecordsNarrow' /\ ResolvedOnTwoAnswers' /\ SweptForGood'
  BY <1>3, <1>4, <1>6 DEF RecordsNarrow, ResolvedOnTwoAnswers, SweptForGood
<1>9. Keeps(diffs, diffs')
  BY <1>1, <1>2, <1>4 DEF Keeps, n
<1> QED
  BY <1>7, <1>8, <1>9 DEF Sound

\* What an update of a record's flag leaves of it.
LEMMA ResolvedRecord ==
    ASSUME NEW d, DOMAIN d = {"values", "resolved", "parent"},
           NEW e, e = [d EXCEPT !.resolved = TRUE]
    PROVE  /\ DOMAIN e = DOMAIN d
           /\ e.values = d.values /\ e.parent = d.parent /\ e.resolved = TRUE
OBVIOUS

\* Resolving a record on the word of two of its participants that agree.
LEMMA ResolvePreserves ==
    ASSUME Sound, NEW id \in 1..Len(diffs), diffs[id] # Gone, NEW answered,
           DOMAIN answered \subseteq DOMAIN diffs[id].values,
           Cardinality(DOMAIN answered) >= 2, Agree(answered),
           diffs' = [diffs EXCEPT ![id].resolved = TRUE],
           witness' = [witness EXCEPT ![id] = answered], UNCHANGED runKept
    PROVE  Sound' /\ Keeps(diffs, diffs')
<1> DEFINE n == Len(diffs)
           rec == [diffs[id] EXCEPT !.resolved = TRUE]
<1>1. ASequence(diffs) /\ n \in Nat /\ DOMAIN diffs = 1..n /\ ASequence(witness) /\ Len(witness) = n
  BY SequenceShape DEF Sound, Records
<1>2. /\ DOMAIN rec = {"values", "resolved", "parent"} /\ rec.resolved = TRUE
      /\ rec.values = diffs[id].values /\ rec.parent = diffs[id].parent
  <2>1. DOMAIN diffs[id] = {"values", "resolved", "parent"}
    BY DEF Sound, Records
  <2> QED
    BY <2>1, ResolvedRecord
<1>3. /\ ASequence(diffs') /\ Len(diffs') = n /\ DOMAIN diffs' = 1..n
      /\ \A d \in 1..n : diffs'[d] = IF d = id THEN rec ELSE diffs[d]
  <2>1. diffs' = [diffs EXCEPT ![id] = rec]
    OBVIOUS
  <2> HIDE DEF rec
  <2>2. /\ ASequence(diffs') /\ Len(diffs') = n
        /\ \A d \in 1..n : diffs'[d] = IF d = id THEN rec ELSE diffs[d]
    <3>1. diffs' = [d \in DOMAIN diffs |-> diffs'[d]]
      BY <2>1
    <3>2. ASequence(diffs') /\ Len(diffs') = n
      BY <1>1, <3>1, SameIndices
    <3> QED
      BY <1>1, <2>1, <3>2
  <2> QED
    BY <2>2, SequenceShape
<1>4. /\ ASequence(witness') /\ Len(witness') = n
      /\ \A d \in 1..n : witness'[d] = IF d = id THEN answered ELSE witness[d]
  <2>1. DOMAIN witness = 1..n
    BY <1>1, SequenceShape
  <2>2. witness' = [d \in DOMAIN witness |-> witness'[d]]
    OBVIOUS
  <2>3. ASequence(witness') /\ Len(witness') = n
    BY <1>1, <2>2, SameIndices
  <2>4. \A d \in 1..n : witness'[d] = IF d = id THEN answered ELSE witness[d]
    BY <2>1
  <2> QED
    BY <2>3, <2>4
<1>5. /\ rec # Gone
      /\ \A d \in 1..n : /\ diffs'[d].values = diffs[d].values
                         /\ diffs'[d].parent = diffs[d].parent
                         /\ diffs[d].parent \in 0..n
                         /\ diffs'[d] # Gone => diffs[d] # Gone
  <2> HIDE DEF rec
  <2>1. rec # Gone
    BY <1>2 DEF Gone
  <2> QED
    BY <1>1, <1>2, <1>3, <2>1 DEF Sound, Records
<1> HIDE DEF n, rec
<1>7. Records'
  BY <1>1, <1>2, <1>3, <1>4, <1>5 DEF Sound, Records, n
<1>8. RecordsNarrow'
  BY <1>1, <1>3, <1>5 DEF Sound, RecordsNarrow
<1>9. ResolvedOnTwoAnswers'
  BY <1>1, <1>3, <1>4, <1>5 DEF Sound, ResolvedOnTwoAnswers, Agree
<1>10. SweptForGood'
  BY <1>1 DEF Sound, SweptForGood, n
<1>11. Keeps(diffs, diffs')
  BY <1>1, <1>3, <1>5 DEF Keeps, n
<1> QED
  BY <1>7, <1>8, <1>9, <1>10, <1>11 DEF Sound

\* A step that leaves the records and the run alone.
LEMMA TableUntouched ==
    ASSUME Sound, UNCHANGED <<runKept, diffs, witness>>
    PROVE  Sound' /\ Keeps(diffs, diffs') /\ ASequence(diffs) /\ ASequence(diffs')
<1>1. ASequence(diffs) /\ ASequence(diffs')
  BY DEF Sound, Records
<1>2. Keeps(diffs, diffs')
  BY SequenceShape, <1>1 DEF Keeps
<1> QED
  BY <1>1, <1>2 DEF Sound, Records, RecordsNarrow, ResolvedOnTwoAnswers, SweptForGood

\* A request has heard every participant it built, and only participants of
\* the record it loaded.
LEMMA HeardParticipants ==
    ASSUME IInv, NEW p \in Replayers, Heard(p)
    PROVE  /\ replay[p].id \in 1..Len(diffs)
           /\ diffs[replay[p].id] # Gone =>
                DOMAIN replay[p].snapshots \subseteq DOMAIN diffs[replay[p].id].values
BY DEF IInv, Requests, Within, Heard

\* Every step of a replay request preserves the invariant.
LEMMA ReplayPreserves ==
    ASSUME IInv, NEW p \in Replayers, ReplayNext(p)
    PROVE  IInv'
<1> DEFINE r == replay[p]
<1>1. /\ Sound /\ Requests /\ ASequence(diffs) /\ ARequest(r) /\ Within(r, diffs)
  BY DEF IInv, Sound, Records, Requests
<1>2. ASSUME NEW next, Moves(p, next), UNCHANGED <<runKept, diffs, witness>>,
             ARequest(next), Within(next, diffs)
      PROVE  IInv'
  <2>1. Sound' /\ Keeps(diffs, diffs') /\ ASequence(diffs')
    BY <1>1, <1>2, TableUntouched
  <2>2. Within(next, diffs')
    BY <1>2
  <2>3. Requests'
    BY <1>1, <1>2, <2>1, <2>2, RequestsPreserved
  <2> QED
    BY <2>1, <2>3 DEF IInv
<1>3. ASSUME Moves(p, Free), Sound', Keeps(diffs, diffs')
      PROVE  IInv'
  <2>1. ASequence(diffs')
    BY <1>3 DEF Sound, Records
  <2>2. Requests'
    BY <1>1, <1>3, <2>1, EndedRequest, RequestsPreserved
  <2> QED
    BY <1>3, <2>2 DEF IInv
<1>4. ASSUME NEW d \in DOMAIN diffs, Load(p, d) PROVE IInv'
  <2> DEFINE next == [id |-> d, todo |-> DOMAIN diffs[d].values,
                      built |-> <<>>, snapshots |-> <<>>]
  <2>1. ARequest(next)
    BY DEF ARequest
  <2>2. Within(next, diffs)
    <3>1. d \in 1..Len(diffs)
      BY <1>1, SequenceShape
    <3>2. DOMAIN next.built = {} /\ DOMAIN next.snapshots = {} /\ next.id = d
            /\ next.todo = DOMAIN diffs[d].values
      OBVIOUS
    <3> QED
      BY <3>1, <3>2 DEF Within
  <2>3. Moves(p, next) /\ UNCHANGED <<runKept, diffs, witness>>
    BY <1>4 DEF Load
  <2> QED
    BY <1>2, <2>1, <2>2, <2>3
<1>5. ASSUME NEW t \in Types, Get(p, t) PROVE IInv'
  <2>1. UNCHANGED <<runKept, diffs, witness>>
    BY <1>5 DEF Get
  <2>2. CASE Moves(p, Free)
    BY <1>2, <2>1, <2>2, EndedRequest
  <2>3. CASE ~Moves(p, Free)
    <3> DEFINE next == [r EXCEPT !.todo = r.todo \ {t}, !.built = Put(r.built, t, Upstream(t))]
    <3>1. Moves(p, next) /\ t \in r.todo
      BY <1>5, <2>3 DEF Get
    <3>2. /\ ARequest(next) /\ next.id = r.id /\ next.todo = r.todo \ {t}
          /\ next.built = Put(r.built, t, Upstream(t)) /\ next.snapshots = r.snapshots
      BY <1>1 DEF ARequest
    <3>3. r # Free
      BY <3>1 DEF Free
    <3> HIDE DEF next
    <3>4. DOMAIN next.built = DOMAIN r.built \cup {t}
      BY <3>2 DEF Put
    <3>5. Within(next, diffs)
      BY <1>1, <3>1, <3>2, <3>3, <3>4 DEF Within
    <3> QED
      BY <1>2, <2>1, <3>1, <3>2, <3>5
  <2> QED
    BY <2>2, <2>3
<1>6. ASSUME NEW t \in Types, Fetch(p, t) PROVE IInv'
  <2>1. UNCHANGED <<runKept, diffs, witness>> /\ t \in DOMAIN r.built
    BY <1>6 DEF Fetch
  <2>2. PICK snapshots \in {r.snapshots, Put(r.snapshots, t, serves[r.built[t]])} :
          Moves(p, [r EXCEPT !.built = Drop(@, t), !.snapshots = snapshots])
    BY <1>6 DEF Fetch
  <2> DEFINE next == [r EXCEPT !.built = Drop(r.built, t), !.snapshots = snapshots]
  <2>3. /\ Moves(p, next)
        /\ ARequest(next) /\ next.id = r.id /\ next.todo = r.todo
        /\ next.built = Drop(r.built, t) /\ next.snapshots = snapshots
    BY <1>1, <2>2 DEF ARequest
  <2>4. r # Free
    BY <2>1 DEF Free
  <2> HIDE DEF next
  <2>5. DOMAIN next.built \subseteq DOMAIN r.built
    BY <2>3 DEF Drop
  <2>6. DOMAIN snapshots \subseteq DOMAIN r.snapshots \cup {t}
    BY DEF Put
  <2>7. Within(next, diffs)
    BY <1>1, <2>1, <2>3, <2>4, <2>5, <2>6 DEF Within
  <2> QED
    BY <1>2, <2>1, <2>3, <2>7
<1>7. CASE TooFew(p)
  BY <1>2, <1>7, EndedRequest DEF TooFew
<1>8. CASE Resolve(p)
  <2>1. /\ Moves(p, Free) /\ UNCHANGED runKept /\ Heard(p)
        /\ Cardinality(DOMAIN r.snapshots) >= 2 /\ Agree(r.snapshots)
    BY <1>8 DEF Resolve, Enough, Outcome
  <2>2. CASE diffs[r.id] = Gone
    BY <1>2, <1>8, <2>2, <2>1, EndedRequest DEF Resolve
  <2>3. CASE diffs[r.id] # Gone
    <3>1. /\ diffs' = [diffs EXCEPT ![r.id].resolved = TRUE]
          /\ witness' = [witness EXCEPT ![r.id] = r.snapshots]
      BY <1>8, <2>3 DEF Resolve
    <3>2. r.id \in 1..Len(diffs) /\ DOMAIN r.snapshots \subseteq DOMAIN diffs[r.id].values
      BY <2>1, <2>3, HeardParticipants
    <3>3. Sound' /\ Keeps(diffs, diffs')
      BY <1>1, <2>1, <2>3, <3>1, <3>2, ResolvePreserves
    <3> QED
      BY <1>3, <2>1, <3>3
  <2> QED
    BY <2>2, <2>3
<1>9. CASE SaveAgain(p)
  <2>1. Moves(p, Free) /\ UNCHANGED runKept /\ Heard(p) /\ ~Agree(r.snapshots)
    BY <1>9 DEF SaveAgain, Outcome
  <2>2. CASE ~runKept
    BY <1>2, <1>9, <2>1, <2>2, EndedRequest DEF SaveAgain, RunExists
  <2>3. CASE runKept
    <3>1. Insert(r.snapshots, r.id)
      BY <1>9, <2>3 DEF SaveAgain, RunExists, Snapshots
    <3>2. r.id \in 1..Len(diffs)
          /\ (diffs[r.id] # Gone => DOMAIN r.snapshots \subseteq DOMAIN diffs[r.id].values)
      BY <2>1, HeardParticipants
    <3>3. r.id \in 0..Len(diffs)
      BY <3>2, <1>1, SequenceShape
    <3>4. Sound' /\ Keeps(diffs, diffs')
      BY <1>1, <2>1, <2>3, <3>1, <3>2, <3>3, InsertPreserves
    <3> QED
      BY <1>3, <2>1, <3>4
  <2> QED
    BY <2>2, <2>3
<1> QED
  BY <1>4, <1>5, <1>6, <1>7, <1>8, <1>9 DEF ReplayNext

\* The invariant holds in every state.
LEMMA RecordsInductive == Spec => []IInv
<1>1. Init => IInv
  <2> SUFFICES ASSUME Init PROVE IInv
    OBVIOUS
  <2>1. /\ diffs = <<>> /\ witness = <<>> /\ runKept = TRUE
        /\ replay = [p \in Replayers |-> Free]
    BY DEF Init
  <2>2. ASequence(<<>>) /\ Len(<<>>) = 0
    <3>1. <<>> \in Seq({})
      OBVIOUS
    <3> QED
      BY <3>1 DEF ASequence
  <2>3. DOMAIN diffs = {} /\ 1..Len(diffs) = {}
    BY <2>1, <2>2
  <2>4. Sound
    BY <2>1, <2>2, <2>3 DEF Sound, Records, RecordsNarrow, ResolvedOnTwoAnswers, SweptForGood
  <2>5. Requests
    BY <2>1, EndedRequest DEF Requests
  <2> QED
    BY <2>4, <2>5 DEF IInv
<1>2. IInv /\ [Next]_vars => IInv'
  <2> SUFFICES ASSUME IInv, [Next]_vars PROVE IInv'
    OBVIOUS
  <2>1. Sound /\ Requests /\ ASequence(diffs)
    BY DEF IInv, Sound, Records
  <2>2. ASSUME Sound', Keeps(diffs, diffs'), UNCHANGED replay PROVE IInv'
    <3>1. ASequence(diffs')
      BY <2>2 DEF Sound, Records
    <3>2. \A p \in Replayers : Within(replay[p], diffs')
      BY <2>1, <2>2, <3>1, RequestSurvives DEF Requests
    <3>3. Requests'
      BY <2>1, <2>2, <3>2 DEF Requests
    <3> QED
      BY <2>2, <3>3 DEF IInv
  <2>3. CASE UNCHANGED replayVars
    <3>1. UNCHANGED <<runKept, diffs, witness>> /\ UNCHANGED replay
      BY <2>3 DEF replayVars
    <3> QED
      BY <2>1, <2>2, <3>1, TableUntouched
  <2>4. ASSUME NEW e \in Endpoints, NEW raw \in Raws, Change(e, raw) PROVE IInv'
    <3>1. UNCHANGED <<runKept, diffs, witness>> /\ UNCHANGED replay
      BY <2>4 DEF Change
    <3> QED
      BY <2>1, <2>2, <3>1, TableUntouched
  <2>5. ASSUME NEW got \in SUBSET Types, Detect(got) PROVE IInv'
    <3> DEFINE values == [t \in got |-> serves[Upstream(t)]]
    <3>1. ~Agree(values) /\ Insert(values, 0) /\ runKept /\ UNCHANGED runKept /\ UNCHANGED replay
      BY <2>5 DEF Detect
    <3>2. 0 \in 0..Len(diffs)
      BY <2>1, SequenceShape
    <3> HIDE DEF values
    <3>3. Sound' /\ Keeps(diffs, diffs')
      BY <2>1, <3>1, <3>2, InsertPreserves
    <3> QED
      BY <2>2, <3>1, <3>3
  <2>6. CASE Prune
    <3>1. UNCHANGED replay
      BY <2>6 DEF Prune
    <3> QED
      BY <2>1, <2>2, <2>6, <3>1, PrunePreserves
  <2>7. ASSUME NEW p \in Replayers, ReplayNext(p) PROVE IInv'
    BY <2>7, ReplayPreserves
  <2> QED
    BY <2>3, <2>4, <2>5, <2>6, <2>7 DEF Next, vars
<1> QED
  BY <1>1, <1>2, PTL DEF Spec

\* A record always shows a disagreement, and a record a replay left behind is
\* about sources of the record it replayed, for any number of racing replays.
THEOREM ReplaysNarrow == Spec => []RecordsNarrow
BY RecordsInductive, PTL DEF IInv, Sound

\* A record is resolved only after a replay in which at least two of its
\* participants answered, and all that answered gave one value.
THEOREM SilenceResolvesNothing == Spec => []ResolvedOnTwoAnswers
BY RecordsInductive, PTL DEF IInv, Sound

\* Once the sweep has taken the run no replay under way brings a record back.
THEOREM NoRecordReturns == Spec => []SweptForGood
BY RecordsInductive, PTL DEF IInv, Sound
=============================================================================
