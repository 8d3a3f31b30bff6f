------------------------ MODULE ExecutePassesProofs ------------------------
(***************************************************************************)
(* Proofs about ExecutePasses, for every set of jobs: any number of        *)
(* sources, plans, addresses, tokens and blocks, and block numbers of any  *)
(* width.                                                                  *)
(***************************************************************************)
EXTENDS ExecutePasses, FiniteSetTheorems, SequenceTheorems, TLAPS

-----------------------------------------------------------------------------
(* Sorted sets.                                                            *)

\* Different elements have different places, from the first to the last.
LEMMA PlacesDiffer ==
    ASSUME NEW S \in SUBSET Int, IsFiniteSet(S)
    PROVE  /\ \A x \in S : Place(S, x) \in 1..Cardinality(S)
           /\ \A x, y \in S : x < y => Place(S, x) < Place(S, y)
<1> DEFINE UpTo(x) == {y \in S : y <= x}
<1>1. \A x \in S : UpTo(x) \in SUBSET S /\ x \in UpTo(x)
  OBVIOUS
<1>2. ASSUME NEW x \in S, NEW y \in S, x < y
      PROVE  UpTo(x) \in SUBSET UpTo(y) /\ y \notin UpTo(x)
  <2>1. x \in Int /\ y \in Int /\ \A z \in S : z \in Int
    OBVIOUS
  <2>2. ~(y <= x) /\ \A z \in S : z <= x => z <= y
    BY <1>2, <2>1
  <2> QED
    BY <2>2
<1>3. \A x \in S : Place(S, x) = Cardinality(UpTo(x))
  BY DEF Place
<1> HIDE DEF UpTo
<1>4. Cardinality(S) \in Nat
  BY FS_CardinalityType
<1>5. \A x \in S : /\ IsFiniteSet(UpTo(x)) /\ Cardinality(UpTo(x)) \in Nat
                   /\ Cardinality(UpTo(x)) <= Cardinality(S) /\ Cardinality(UpTo(x)) # 0
  BY <1>1, FS_Subset, FS_CardinalityType, FS_EmptySet
<1>6. ASSUME NEW x \in S PROVE Place(S, x) \in 1..Cardinality(S)
  <2>1. /\ Cardinality(UpTo(x)) \in Nat /\ Cardinality(UpTo(x)) <= Cardinality(S)
        /\ Cardinality(UpTo(x)) # 0 /\ Place(S, x) = Cardinality(UpTo(x))
    BY <1>3, <1>5
  <2> QED
    BY <1>4, <2>1
<1>7. ASSUME NEW x \in S, NEW y \in S, x < y PROVE Place(S, x) < Place(S, y)
  <2>1. UpTo(x) \in SUBSET UpTo(y) /\ UpTo(x) # UpTo(y)
    BY <1>1, <1>2, <1>7
  <2>2. /\ Cardinality(UpTo(x)) <= Cardinality(UpTo(y))
        /\ Cardinality(UpTo(x)) # Cardinality(UpTo(y))
    BY <1>5, <2>1, FS_Subset
  <2>3. Cardinality(UpTo(x)) \in Nat /\ Cardinality(UpTo(y)) \in Nat
    BY <1>5
  <2> QED
    BY <1>3, <2>2, <2>3
<1> QED
  BY <1>6, <1>7

\* Sorting a finite set of integers lists each of them once, in order.
LEMMA AscendingSorts ==
    ASSUME NEW S \in SUBSET Int, IsFiniteSet(S)
    PROVE  /\ Cardinality(S) \in Nat
           /\ Ascending(S) \in Seq(S)
           /\ Len(Ascending(S)) = Cardinality(S)
           /\ DOMAIN Ascending(S) = 1..Cardinality(S)
           /\ ToSet(Ascending(S)) = S
           /\ \A p, q \in 1..Cardinality(S) : p < q => Ascending(S)[p] < Ascending(S)[q]
<1> DEFINE n == Cardinality(S)
           f == [x \in S |-> Place(S, x)]
<1>1. n \in Nat
  BY FS_CardinalityType
<1>2. \A x, y \in S : Place(S, x) = Place(S, y) => x = y
  <2> SUFFICES ASSUME NEW x \in S, NEW y \in S, Place(S, x) = Place(S, y), x # y PROVE FALSE
    OBVIOUS
  <2>1. x < y \/ y < x
    OBVIOUS
  <2>2. Place(S, x) \in Int /\ Place(S, y) \in Int
    BY <1>1, PlacesDiffer
  <2> QED
    BY <2>1, <2>2, PlacesDiffer
<1>3. f \in Injection(S, 1..n)
  BY <1>2, PlacesDiffer DEF Injection, IsInjective
<1>4. IsFiniteSet(1..n) /\ Cardinality(1..n) = n
  BY <1>1, FS_Interval
<1>5. f \in Surjection(S, 1..n)
  BY <1>3, <1>4, FS_Injection
<1>6. \A p \in 1..n : \E x \in S : Place(S, x) = p
  BY <1>5 DEF Surjection
<1>7. \A p \in 1..n : Ascending(S)[p] \in S /\ Place(S, Ascending(S)[p]) = p
  BY <1>6 DEF Ascending
<1>8. DOMAIN Ascending(S) = 1..n
  BY DEF Ascending
<1>9. Ascending(S) \in [1..n -> S]
  BY <1>7 DEF Ascending
<1>10. Ascending(S) \in Seq(S) /\ Len(Ascending(S)) = n
  BY <1>1, <1>9
<1>11. \A x \in S : Ascending(S)[Place(S, x)] = x /\ Place(S, x) \in 1..n
  BY <1>2, <1>7, PlacesDiffer
<1>12. ToSet(Ascending(S)) = S
  <2>1. ToSet(Ascending(S)) = {Ascending(S)[p] : p \in 1..n}
    BY <1>8 DEF ToSet
  <2> QED
    BY <1>7, <1>11, <2>1
<1>13. ASSUME NEW p \in 1..n, NEW q \in 1..n, p < q PROVE Ascending(S)[p] < Ascending(S)[q]
  <2> DEFINE x == Ascending(S)[p]
             y == Ascending(S)[q]
  <2>1. x \in S /\ y \in S /\ Place(S, x) = p /\ Place(S, y) = q
    BY <1>7
  <2> HIDE DEF x, y
  <2>2. x \in Int /\ y \in Int
    BY <2>1
  <2>3. ~(y < x) /\ x # y
    BY <1>13, <2>1, PlacesDiffer
  <2> QED
    BY <2>2, <2>3 DEF x, y
<1> QED
  BY <1>1, <1>8, <1>10, <1>12, <1>13

\* The step of an ascending sequence is enough to compare any two places.
LEMMA AscendingIsInjective ==
    ASSUME NEW S \in SUBSET Int, IsFiniteSet(S)
    PROVE  IsInjective(Ascending(S))
<1> SUFFICES ASSUME NEW p \in 1..Cardinality(S), NEW q \in 1..Cardinality(S), p # q
             PROVE  Ascending(S)[p] # Ascending(S)[q]
  BY AscendingSorts DEF IsInjective
<1>1. Cardinality(S) \in Nat
  BY AscendingSorts
<1>2. p < q \/ q < p
  BY <1>1
<1>3. Ascending(S)[p] \in Int /\ Ascending(S)[q] \in Int
  BY AscendingSorts, ElementOfSeq
<1> QED
  BY <1>2, <1>3, AscendingSorts
-----------------------------------------------------------------------------
(* The elements of sequences.                                              *)

\* What Append does to the set of a list.
LEMMA AppendAdds ==
    ASSUME NEW S, NEW s \in Seq(S), NEW e \in S
    PROVE  /\ Append(s, e) \in Seq(S)
           /\ ToSet(Append(s, e)) = ToSet(s) \cup {e}
           /\ (IsInjective(s) /\ e \notin ToSet(s)) => IsInjective(Append(s, e))
<1>1. /\ Append(s, e) \in Seq(S) /\ Len(Append(s, e)) = Len(s) + 1 /\ Len(s) \in Nat
      /\ \A i \in 1..Len(s) : Append(s, e)[i] = s[i]
      /\ Append(s, e)[Len(s) + 1] = e
  BY AppendProperties, LenProperties
<1>2. DOMAIN s = 1..Len(s) /\ DOMAIN Append(s, e) = 1..(Len(s) + 1)
  BY <1>1, LenProperties
<1>3. \A i \in 1..(Len(s) + 1) : i \in 1..Len(s) \/ i = Len(s) + 1
  BY <1>1
<1>4. \A i \in 1..Len(s) : i \in 1..(Len(s) + 1)
  BY <1>1
<1>5. Len(s) + 1 \in 1..(Len(s) + 1)
  BY <1>1
<1>6. ToSet(Append(s, e)) = ToSet(s) \cup {e}
  BY <1>1, <1>2, <1>3, <1>4, <1>5 DEF ToSet
<1>7. ASSUME IsInjective(s), e \notin ToSet(s) PROVE IsInjective(Append(s, e))
  <2>1. \A i \in 1..Len(s) : s[i] # e
    BY <1>2, <1>7 DEF ToSet
  <2> QED
    BY <1>1, <1>2, <1>3, <1>7, <2>1 DEF IsInjective
<1> QED
  BY <1>1, <1>6, <1>7

\* What Head and Tail make of it.
LEMMA TailLeaves ==
    ASSUME NEW S, NEW s \in Seq(S), s # <<>>
    PROVE  /\ Head(s) \in S /\ Tail(s) \in Seq(S)
           /\ ToSet(s) = {Head(s)} \cup ToSet(Tail(s))
           /\ IsInjective(s) => IsInjective(Tail(s)) /\ Head(s) \notin ToSet(Tail(s))
<1>1. /\ Head(s) \in S /\ Tail(s) \in Seq(S) /\ Len(Tail(s)) = Len(s) - 1
      /\ \A i \in 1..Len(Tail(s)) : Tail(s)[i] = s[i + 1]
  BY HeadTailProperties
<1>2. Len(s) \in Nat /\ Len(s) # 0
  BY EmptySeq, LenProperties
<1>3. DOMAIN s = 1..Len(s) /\ DOMAIN Tail(s) = 1..(Len(s) - 1)
  BY <1>1, LenProperties
<1>4. Head(s) = s[1]
  BY <1>2
<1>5. \A i \in 1..(Len(s) - 1) : i + 1 \in 1..Len(s) /\ i + 1 # 1 /\ Tail(s)[i] = s[i + 1]
  BY <1>1, <1>2
<1>6. \A i \in 1..Len(s) : i = 1 \/ (i - 1 \in 1..(Len(s) - 1) /\ s[i] = Tail(s)[i - 1])
  BY <1>1, <1>2
<1>7. 1 \in 1..Len(s)
  BY <1>2
<1>8. ToSet(s) = {Head(s)} \cup ToSet(Tail(s))
  <2>1. \A x \in ToSet(s) : x = Head(s) \/ x \in ToSet(Tail(s))
    BY <1>3, <1>4, <1>6, ZenonT(60) DEF ToSet
  <2>2. \A x \in ToSet(Tail(s)) : x \in ToSet(s)
    BY <1>3, <1>5 DEF ToSet
  <2>3. Head(s) \in ToSet(s)
    BY <1>3, <1>4, <1>7 DEF ToSet
  <2> QED
    BY <2>1, <2>2, <2>3
<1>9. ASSUME IsInjective(s) PROVE IsInjective(Tail(s)) /\ Head(s) \notin ToSet(Tail(s))
  <2>1. \A i, j \in 1..(Len(s) - 1) : Tail(s)[i] = Tail(s)[j] => i + 1 = j + 1
    BY <1>3, <1>5, <1>9 DEF IsInjective
  <2>2. \A i, j \in 1..(Len(s) - 1) : i + 1 = j + 1 => i = j
    BY <1>2
  <2>3. \A i \in 1..(Len(s) - 1) : Tail(s)[i] # Head(s)
    BY <1>3, <1>4, <1>5, <1>7, <1>9 DEF IsInjective
  <2> QED
    BY <1>3, <2>1, <2>2, <2>3 DEF IsInjective, ToSet
<1> QED
  BY <1>1, <1>8, <1>9
-----------------------------------------------------------------------------
(* Two nested loops as one list.                                           *)

\* Multiplication keeps the order.
LEMMA TimesMonotone ==
    ASSUME NEW b \in Nat, NEW x \in Int, NEW y \in Int, x <= y
    PROVE  x * b <= y * b
OBVIOUS

\* A number is a quotient and a remainder in one way only.
LEMMA DivisionIsUnique ==
    ASSUME NEW b \in Nat \ {0}, NEW x \in Int, NEW y \in 0..(b - 1),
           NEW u \in Int, NEW v \in 0..(b - 1), x * b + y = u * b + v
    PROVE  x = u /\ y = v
<1>1. ASSUME NEW p \in Int, NEW q \in Int, NEW r \in 0..(b - 1), NEW s \in 0..(b - 1), p < q
      PROVE  p * b + r < q * b + s
  <2>1. (p + 1) * b <= q * b
    BY <1>1, TimesMonotone
  <2>2. (p + 1) * b = p * b + b
    OBVIOUS
  <2>3. p * b \in Int /\ q * b \in Int
    OBVIOUS
  <2> QED
    BY <2>1, <2>2, <2>3
<1>2. x * b \in Int /\ u * b \in Int
  OBVIOUS
<1>3. ~(x < u) /\ ~(u < x)
  BY <1>1, <1>2
<1>4. x = u
  BY <1>3
<1> QED
  BY <1>2, <1>4

\* Quotient and remainder.
LEMMA Division ==
    ASSUME NEW b \in Nat \ {0}, NEW n \in Nat
    PROVE  /\ n \div b \in Nat /\ n % b \in 0..(b - 1)
           /\ n = (n \div b) * b + (n % b)
<1>1. n \div b \in Int /\ n % b \in 0..(b - 1)
  OBVIOUS
<1>2. n = b * (n \div b) + (n % b)
  OBVIOUS
<1>3. b * (n \div b) = (n \div b) * b
  BY <1>1
<1>4. ~(n \div b <= -1)
  <2>1. ASSUME n \div b <= -1 PROVE FALSE
    <3>1. (n \div b) * b <= (-1) * b
      BY <1>1, <2>1, TimesMonotone
    <3>2. (n \div b) * b \in Int
      BY <1>1
    <3> QED
      BY <1>1, <1>2, <1>3, <3>1, <3>2
  <2> QED
    BY <2>1
<1> QED
  BY <1>1, <1>2, <1>3, <1>4

\* The i-th of a times b iterations: the outer and the inner index.
LEMMA Iteration ==
    ASSUME NEW a \in Nat, NEW b \in Nat, NEW i \in 1..(a * b)
    PROVE  /\ b # 0
           /\ ((i - 1) \div b) + 1 \in 1..a
           /\ ((i - 1) % b) + 1 \in 1..b
           /\ i = ((i - 1) \div b) * b + ((i - 1) % b) + 1
<1>1. a * b \in Nat
  OBVIOUS
<1>2. b # 0
  <2>1. ASSUME b = 0 PROVE FALSE
    <3>1. a * b = 0
      BY <2>1
    <3> QED
      BY <3>1
  <2> QED
    BY <2>1
<1>3. i - 1 \in Nat /\ b \in Nat \ {0}
  BY <1>1, <1>2
<1> DEFINE n == i - 1
           q == n \div b
           r == n % b
<1>4. q \in Nat /\ r \in 0..(b - 1) /\ n = q * b + r
  BY <1>3, Division
<1>5. n < a * b
  BY <1>1
<1>6. n \in Nat
  BY <1>3
<1> HIDE DEF n, q, r
<1>7. q < a
  <2> SUFFICES ASSUME a <= q PROVE FALSE
    BY <1>4
  <2>1. a * b <= q * b
    BY <1>4, TimesMonotone
  <2>2. q * b \in Int
    BY <1>4
  <2> QED
    BY <1>1, <1>4, <1>5, <2>1, <2>2
<1>8. q + 1 \in 1..a /\ r + 1 \in 1..b
  BY <1>4, <1>7
<1>9. i = q * b + r + 1
  <2>1. i = n + 1 /\ q * b \in Int
    BY <1>4 DEF n
  <2> QED
    BY <1>4, <2>1
<1> QED
  BY <1>2, <1>8, <1>9 DEF n, q, r

\* Every pair of indices has its iteration.
LEMMA IterationOf ==
    ASSUME NEW a \in Nat, NEW b \in Nat, NEW x \in 1..a, NEW y \in 1..b
    PROVE  \E i \in 1..(a * b) : ((i - 1) \div b) + 1 = x /\ ((i - 1) % b) + 1 = y
<1> DEFINE n == (x - 1) * b + (y - 1)
<1>1. b \in Nat \ {0} /\ x - 1 \in Nat /\ y - 1 \in 0..(b - 1)
  OBVIOUS
<1>2. (x - 1) * b \in Nat /\ a * b \in Nat
  BY <1>1
<1>3. n \in Nat
  BY <1>1, <1>2
<1>4. x * b <= a * b
  BY TimesMonotone
<1>5. (x - 1) * b = x * b - b /\ x * b \in Int
  OBVIOUS
<1>6. n + 1 \in 1..(a * b)
  BY <1>1, <1>2, <1>3, <1>4, <1>5
<1>7. n \div b \in Nat /\ n % b \in 0..(b - 1) /\ n = (n \div b) * b + (n % b)
  BY <1>1, <1>3, Division
<1>8. n \div b = x - 1 /\ n % b = y - 1
  <2> DEFINE q == n \div b
             r == n % b
  <2>1. q \in Int /\ r \in 0..(b - 1) /\ (x - 1) * b + (y - 1) = q * b + r
    BY <1>7
  <2> HIDE DEF q, r
  <2>2. x - 1 = q /\ y - 1 = r
    BY <1>1, <2>1, DivisionIsUnique
  <2> QED
    BY <2>2 DEF q, r
<1>9. (n + 1) - 1 = n
  BY <1>3
<1> HIDE DEF n
<1> QED
  BY <1>6, <1>8, <1>9

\* The list of pairs has every pair of an outer and an inner element, and each
\* of them once if the two lists repeat nothing.
LEMMA PairsAreAll ==
    ASSUME NEW A, NEW B, NEW outer \in Seq(A), NEW inner \in Seq(B)
    PROVE  /\ Len(outer) * Len(inner) \in Nat
           /\ DOMAIN Pairs(outer, inner) = 1..(Len(outer) * Len(inner))
           /\ \A i \in DOMAIN Pairs(outer, inner) :
                /\ Pairs(outer, inner)[i][1] \in ToSet(outer)
                /\ Pairs(outer, inner)[i][2] \in ToSet(inner)
           /\ \A x \in ToSet(outer), y \in ToSet(inner) :
                \E i \in DOMAIN Pairs(outer, inner) :
                    Pairs(outer, inner)[i][1] = x /\ Pairs(outer, inner)[i][2] = y
           /\ IsInjective(outer) /\ IsInjective(inner) =>
                \A i, j \in DOMAIN Pairs(outer, inner) :
                    (/\ Pairs(outer, inner)[i][1] = Pairs(outer, inner)[j][1]
                     /\ Pairs(outer, inner)[i][2] = Pairs(outer, inner)[j][2])
                    => i = j
<1> DEFINE a == Len(outer)
           b == Len(inner)
           P == Pairs(outer, inner)
           Out(i) == ((i - 1) \div b) + 1
           In(i) == ((i - 1) % b) + 1
<1>1. /\ a \in Nat /\ b \in Nat /\ a * b \in Nat
      /\ DOMAIN outer = 1..a /\ DOMAIN inner = 1..b
  BY LenProperties
<1>2. DOMAIN P = 1..(a * b)
  BY DEF Pairs
<1>3. \A i \in 1..(a * b) : P[i][1] = outer[Out(i)] /\ P[i][2] = inner[In(i)]
  BY DEF Pairs
<1>4. \A i \in 1..(a * b) : Out(i) \in 1..a /\ In(i) \in 1..b
  BY <1>1, Iteration
<1>5. \A x \in 1..a, y \in 1..b : \E i \in 1..(a * b) : Out(i) = x /\ In(i) = y
  BY <1>1, IterationOf, ZenonT(60)
<1>6. ASSUME NEW i \in 1..(a * b), NEW j \in 1..(a * b), Out(i) = Out(j), In(i) = In(j)
      PROVE  i = j
  <2> DEFINE q == (i - 1) \div b
             r == (i - 1) % b
             s == (j - 1) \div b
             t == (j - 1) % b
  <2>1. q + 1 \in 1..a /\ r + 1 \in 1..b /\ i = q * b + r + 1
    BY <1>1, Iteration
  <2>2. s + 1 \in 1..a /\ t + 1 \in 1..b /\ j = s * b + t + 1
    BY <1>1, Iteration
  <2>3. q + 1 = s + 1 /\ r + 1 = t + 1
    BY <1>6
  <2>4. q \in Int /\ r \in Int /\ s \in Int /\ t \in Int
    <3>1. b \in Nat \ {0} /\ i - 1 \in Nat /\ j - 1 \in Nat
      BY <1>1, Iteration
    <3> QED
      BY <3>1, Division
  <2> HIDE DEF q, r, s, t
  <2>5. q = s /\ r = t
    BY <2>3, <2>4
  <2> QED
    BY <2>1, <2>2, <2>5
<1> HIDE DEF a, b, P, Out, In
<1>7. \A i \in 1..(a * b) : P[i][1] \in ToSet(outer) /\ P[i][2] \in ToSet(inner)
  BY <1>1, <1>3, <1>4 DEF ToSet
<1>8. \A x \in ToSet(outer), y \in ToSet(inner) : \E i \in 1..(a * b) : P[i][1] = x /\ P[i][2] = y
  <2> TAKE x \in ToSet(outer), y \in ToSet(inner)
  <2>1. PICK u \in 1..a, v \in 1..b : x = outer[u] /\ y = inner[v]
    BY <1>1 DEF ToSet
  <2>2. PICK i \in 1..(a * b) : Out(i) = u /\ In(i) = v
    BY <1>5
  <2> WITNESS i \in 1..(a * b)
  <2> QED
    BY <1>3, <2>1, <2>2
<1>9. ASSUME IsInjective(outer), IsInjective(inner),
             NEW i \in 1..(a * b), NEW j \in 1..(a * b), P[i][1] = P[j][1], P[i][2] = P[j][2]
      PROVE  i = j
  <2>1. outer[Out(i)] = outer[Out(j)] /\ inner[In(i)] = inner[In(j)]
    BY <1>3, <1>9
  <2>2. Out(i) \in DOMAIN outer /\ Out(j) \in DOMAIN outer
    BY <1>1, <1>4
  <2>3. In(i) \in DOMAIN inner /\ In(j) \in DOMAIN inner
    BY <1>1, <1>4
  <2>4. Out(i) = Out(j) /\ In(i) = In(j)
    BY <1>9, <2>1, <2>2, <2>3 DEF IsInjective
  <2> QED
    BY <1>6, <2>4
<1>10. IsInjective(outer) /\ IsInjective(inner) =>
         \A i, j \in 1..(a * b) : (P[i][1] = P[j][1] /\ P[i][2] = P[j][2]) => i = j
  BY <1>9
<1>11. \A i \in DOMAIN P : P[i][1] \in ToSet(outer) /\ P[i][2] \in ToSet(inner)
  BY <1>2, <1>7
<1>12. \A x \in ToSet(outer), y \in ToSet(inner) : \E i \in DOMAIN P : P[i][1] = x /\ P[i][2] = y
  BY <1>2, <1>8
<1>13. IsInjective(outer) /\ IsInjective(inner) =>
         \A i, j \in DOMAIN P : (P[i][1] = P[j][1] /\ P[i][2] = P[j][2]) => i = j
  BY <1>2, <1>10
<1> QED
  BY <1>1, <1>2, <1>11, <1>12, <1>13 DEF a, b, P
-----------------------------------------------------------------------------
(* The metrics of a pass.                                                  *)

\* The metrics at some positions of a list.
LEMMA AtKeeps ==
    ASSUME NEW ms \in Seq(Metrics), NEW positions \in SUBSET DOMAIN ms
    PROVE  /\ At(ms, positions) \in Seq(Metrics)
           /\ ToSet(At(ms, positions)) = {ms[i] : i \in positions}
<1> DEFINE order == Ascending(positions)
           n == Cardinality(positions)
<1>1. DOMAIN ms = 1..Len(ms) /\ Len(ms) \in Nat
  BY LenProperties
<1>2. positions \in SUBSET Int /\ IsFiniteSet(positions)
  <2>1. positions \in SUBSET (1..Len(ms)) /\ IsFiniteSet(1..Len(ms))
    BY <1>1, FS_Interval
  <2> QED
    BY <1>1, <2>1, FS_Subset
<1>3. /\ n \in Nat /\ DOMAIN order = 1..n /\ order \in Seq(positions) /\ Len(order) = n
      /\ ToSet(order) = positions
  BY <1>2, AscendingSorts
<1>4. \A i \in 1..n : order[i] \in positions
  BY <1>3, ElementOfSeq
<1>5. At(ms, positions) = [i \in 1..n |-> ms[order[i]]]
  BY <1>3 DEF At
<1> HIDE DEF order, n
<1>6. \A i \in 1..n : ms[order[i]] \in Metrics
  BY <1>1, <1>4, ElementOfSeq
<1>7. At(ms, positions) \in Seq(Metrics) /\ DOMAIN At(ms, positions) = 1..n
  BY <1>3, <1>5, <1>6
<1>8. ToSet(At(ms, positions)) = {ms[order[i]] : i \in 1..n}
  BY <1>5, <1>7 DEF ToSet
<1>9. positions = {order[i] : i \in 1..n}
  BY <1>3 DEF ToSet
<1> QED
  BY <1>7, <1>8, <1>9

PassNames == {"block", "address", "addressAtBlock", "holdings", "tokenBalance"}

\* The metrics a pass takes from the run's.
Serves(p, m) ==
    CASE p = "block"          -> Category[m] = "block_immutable"
      [] p = "address"        -> Category[m] = "address_latest"
      [] p = "addressAtBlock" -> Category[m] = "address_at_block"
      [] p = "holdings"       -> m = "holdings"
      [] p = "tokenBalance"   -> m = "tokenBalance"

\* PassMetrics keeps the metrics the pass serves.
LEMMA PassMetricsServed ==
    ASSUME NEW ms \in Seq(Metrics), NEW p \in PassNames
    PROVE  /\ PassMetrics(p, ms) \in Seq(Metrics)
           /\ ToSet(PassMetrics(p, ms)) = {m \in ToSet(ms) : Serves(p, m)}
<1>1. \A Q \in SUBSET DOMAIN ms : /\ At(ms, Q) \in Seq(Metrics)
                                 /\ ToSet(At(ms, Q)) = {ms[i] : i \in Q}
  BY AtKeeps
<1>2. ASSUME NEW c
      PROVE  /\ FilterByCategory(ms, c) \in Seq(Metrics)
             /\ ToSet(FilterByCategory(ms, c)) = {m \in ToSet(ms) : Category[m] = c}
  <2> DEFINE Q == {i \in DOMAIN ms : Category[ms[i]] = c}
  <2>1. {ms[i] : i \in Q} = {m \in ToSet(ms) : Category[m] = c}
    BY DEF ToSet
  <2> QED
    BY <1>1, <2>1 DEF FilterByCategory
<1>3. ASSUME NEW c
      PROVE  /\ FilterByCapability(ms, c) \in Seq(Metrics)
             /\ ToSet(FilterByCapability(ms, c)) = {m \in ToSet(ms) : m = c}
  <2> DEFINE Q == {i \in DOMAIN ms : ms[i] = c}
  <2>1. {ms[i] : i \in Q} = {m \in ToSet(ms) : m = c}
    BY DEF ToSet
  <2> QED
    BY <1>1, <2>1 DEF FilterByCapability
<1>4. CASE p = "block"
  BY <1>2, <1>4 DEF PassMetrics, Serves
<1>5. CASE p = "address"
  BY <1>2, <1>5 DEF PassMetrics, Serves
<1>6. CASE p = "addressAtBlock"
  BY <1>2, <1>6 DEF PassMetrics, Serves
<1>7. CASE p = "holdings"
  BY <1>3, <1>7 DEF PassMetrics, Serves
<1>8. CASE p = "tokenBalance"
  BY <1>3, <1>8 DEF PassMetrics, Serves
<1> QED
  BY <1>4, <1>5, <1>6, <1>7, <1>8 DEF PassNames

\* What a pass serves and extracts is what its fetch returns: the extractor
\* alone would accept more in the ERC-20 passes, the filter alone more in the
\* address and block passes.
LEMMA HomeIsServed ==
    ASSUME NEW m \in Metrics, NEW p \in PassNames
    PROVE  (Serves(p, m) /\ Extracts(p, m)) <=> Home(m) = p
<1>1. m \in {"hash", "trace", "balance", "holdings", "tokenBalance", "balanceAtBlock", "total"}
  BY DEF Metrics, Category
<1>2. /\ Category["hash"] = "block_immutable" /\ Category["trace"] = "block_immutable"
      /\ Category["balance"] = "address_latest" /\ Category["holdings"] = "address_latest"
      /\ Category["tokenBalance"] = "address_latest"
      /\ Category["balanceAtBlock"] = "address_at_block" /\ Category["total"] = "snapshot"
  BY DEF Category
<1> QED
  BY <1>1, <1>2 DEF PassNames, Serves, Extracts, Home
-----------------------------------------------------------------------------
(* The subjects of a pass.                                                 *)

\* The elements of a list.
LEMMA ToSetIsFinite ==
    ASSUME NEW S, NEW s \in Seq(S)
    PROVE  IsFiniteSet(ToSet(s)) /\ ToSet(s) \in SUBSET S
<1>1. s \in [1..Len(s) -> S] /\ Len(s) \in Nat /\ DOMAIN s = 1..Len(s)
  BY LenProperties
<1>2. s \in Surjection(1..Len(s), ToSet(s))
  BY <1>1 DEF Surjection, ToSet
<1>3. IsFiniteSet(1..Len(s))
  BY <1>1, FS_Interval
<1>4. IsFiniteSet(ToSet(s))
  BY <1>2, <1>3, FS_Surjection
<1> QED
  BY <1>1, <1>4 DEF ToSet

\* The plans name finitely many addresses.
LEMMA SampledIsFinite ==
    ASSUME NEW plans \in Seq(Seq(Nat))
    PROVE  IsFiniteSet(Sampled(plans)) /\ Sampled(plans) \in SUBSET Nat
<1> DEFINE Parts == {ToSet(plans[i]) : i \in DOMAIN plans}
           f == [i \in DOMAIN plans |-> ToSet(plans[i])]
<1>1. Len(plans) \in Nat /\ DOMAIN plans = 1..Len(plans)
  BY LenProperties
<1>2. \A i \in DOMAIN plans : plans[i] \in Seq(Nat)
  BY <1>1, ElementOfSeq
<1>3. f \in Surjection(DOMAIN plans, Parts)
  BY DEF Surjection
<1>4. IsFiniteSet(DOMAIN plans)
  BY <1>1, FS_Interval
<1>5. IsFiniteSet(Parts)
  BY <1>3, <1>4, FS_Surjection
<1>6. \A T \in Parts : IsFiniteSet(T) /\ T \in SUBSET Nat
  BY <1>2, ToSetIsFinite
<1>7. Sampled(plans) = UNION Parts
  BY DEF Sampled
<1> HIDE DEF Parts
<1>8. IsFiniteSet(UNION Parts)
  BY <1>5, <1>6, FS_UNION
<1> QED
  BY <1>6, <1>7, <1>8

AnySubject == [kind : PassNames, block : Nat, address : Nat, token : Nat]

\* A subject of a pass.
LEMMA SubjectType ==
    ASSUME NEW p \in PassNames, NEW b \in Nat, NEW a \in Nat, NEW t \in Nat
    PROVE  Subject(p, b, a, t) \in AnySubject
BY DEF Subject, AnySubject

\* The subjects of a pass as a set.
Due(p) ==
    LET addrs == Sampled(job.addressPlans)
        toks == Sampled(job.tokenPlans)
    IN  CASE p = "block"          -> {Subject(p, b, None, None) : b \in ToSet(blocks)}
          [] p \in {"address", "holdings"} -> {Subject(p, None, a, None) : a \in addrs}
          [] p = "addressAtBlock" -> {Subject(p, b, a, None) : b \in ToSet(blocks), a \in addrs}
          [] p = "tokenBalance"   -> {Subject(p, None, a, t) : a \in addrs, t \in toks}

\* The addresses of a sampled plan in order.
LEMMA CollectLists ==
    ASSUME NEW plans \in Seq(Seq(Nat))
    PROVE  /\ CollectSampled(plans) \in Seq(Nat)
           /\ ToSet(CollectSampled(plans)) = Sampled(plans)
           /\ IsInjective(CollectSampled(plans))
<1>1. Sampled(plans) \in SUBSET Nat /\ IsFiniteSet(Sampled(plans))
  BY SampledIsFinite
<1>2. Sampled(plans) \in SUBSET Int
  BY <1>1
<1>3. CollectSampled(plans) \in Seq(Sampled(plans))
  BY <1>1, <1>2, AscendingSorts DEF CollectSampled
<1> QED
  BY <1>1, <1>2, <1>3, AscendingSorts, AscendingIsInjective, SeqMonotonic DEF CollectSampled

\* A list of subjects made from another list.
LEMMA ListedSubjects ==
    ASSUME NEW n \in Nat, NEW w, w = [i \in 1..n |-> w[i]],
           \A i \in 1..n : w[i] \in AnySubject
    PROVE  /\ w \in Seq(AnySubject) /\ DOMAIN w = 1..n /\ Len(w) = n
           /\ ToSet(w) = {w[i] : i \in 1..n}
<1>1. w \in [1..n -> AnySubject] /\ DOMAIN w = 1..n
  OBVIOUS
<1> QED
  BY <1>1 DEF ToSet

\* The nested loops of a pass visit its subjects, each once if no block repeats.
LEMMA WorkIsDue ==
    ASSUME JobOK(job), blocks \in Seq(BlockNumber), NEW p \in PassNames
    PROVE  /\ Work(p) \in Seq(AnySubject)
           /\ ToSet(Work(p)) = Due(p)
           /\ IsInjective(blocks) => IsInjective(Work(p))
<1> DEFINE addrs == CollectSampled(job.addressPlans)
           toks == CollectSampled(job.tokenPlans)
           w == Work(p)
<1>1. /\ addrs \in Seq(Nat) /\ ToSet(addrs) = Sampled(job.addressPlans) /\ IsInjective(addrs)
      /\ toks \in Seq(Nat) /\ ToSet(toks) = Sampled(job.tokenPlans) /\ IsInjective(toks)
  BY CollectLists DEF JobOK
<1>2. /\ Len(addrs) \in Nat /\ DOMAIN addrs = 1..Len(addrs)
      /\ Len(blocks) \in Nat /\ DOMAIN blocks = 1..Len(blocks)
  BY <1>1, LenProperties
<1>3. /\ \A a \in ToSet(addrs) : a \in Nat
      /\ \A t \in ToSet(toks) : t \in Nat
      /\ \A b \in ToSet(blocks) : b \in Nat
  <2>1. BlockNumber \in SUBSET Nat
    BY SamplingAssumption DEF BlockNumber
  <2> QED
    BY <1>1, <2>1, ToSetIsFinite
<1>4. None = 0
  BY DEF None
<1>5. CASE p = "block"
  <2>1. w = [i \in 1..Len(blocks) |-> Subject(p, blocks[i], None, None)]
    BY <1>5 DEF Work
  <2>2. \A i \in 1..Len(blocks) : w[i] = Subject(p, blocks[i], None, None)
    BY <2>1
  <2>3. \A i \in 1..Len(blocks) : blocks[i] \in ToSet(blocks)
    BY <1>2 DEF ToSet
  <2>4. \A i \in 1..Len(blocks) : w[i] \in AnySubject
    BY <1>3, <1>4, <2>2, <2>3, SubjectType
  <2> HIDE DEF w
  <2>5. w \in Seq(AnySubject) /\ DOMAIN w = 1..Len(blocks) /\ ToSet(w) = {w[i] : i \in 1..Len(blocks)}
    BY <1>2, <2>1, <2>4, ListedSubjects
  <2>6. ToSet(w) = {Subject(p, b, None, None) : b \in ToSet(blocks)}
    BY <1>2, <2>2, <2>5 DEF ToSet
  <2>7. Due(p) = {Subject(p, b, None, None) : b \in ToSet(blocks)}
    BY <1>5 DEF Due
  <2>8. ASSUME IsInjective(blocks) PROVE IsInjective(w)
    BY <1>2, <2>2, <2>5, <2>8 DEF IsInjective, Subject
  <2>9. ToSet(w) = Due(p)
    BY <2>6, <2>7
  <2> QED
    BY <2>5, <2>8, <2>9 DEF w
<1>6. CASE p \in {"address", "holdings"}
  <2>1. w = [i \in 1..Len(addrs) |-> Subject(p, None, addrs[i], None)]
    BY <1>6 DEF Work
  <2>2. \A i \in 1..Len(addrs) : w[i] = Subject(p, None, addrs[i], None)
    BY <2>1
  <2>3. \A i \in 1..Len(addrs) : addrs[i] \in ToSet(addrs)
    BY <1>2 DEF ToSet
  <2> HIDE DEF w, addrs
  <2>4. \A i \in 1..Len(addrs) : w[i] \in AnySubject
    BY <1>3, <1>4, <2>2, <2>3, SubjectType
  <2>5. w \in Seq(AnySubject) /\ DOMAIN w = 1..Len(addrs) /\ ToSet(w) = {w[i] : i \in 1..Len(addrs)}
    BY <1>2, <2>1, <2>4, ListedSubjects
  <2>6. ToSet(w) = {Subject(p, None, a, None) : a \in ToSet(addrs)}
    BY <1>2, <2>2, <2>5 DEF ToSet
  <2>7. Due(p) = {Subject(p, None, a, None) : a \in ToSet(addrs)}
    BY <1>1, <1>6 DEF Due
  <2>8. IsInjective(w)
    BY <1>1, <1>2, <2>2, <2>5 DEF IsInjective, Subject
  <2>9. ToSet(w) = Due(p)
    BY <2>6, <2>7
  <2> QED
    BY <2>5, <2>8, <2>9 DEF w
<1>7. CASE p = "addressAtBlock"
  <2> DEFINE P == Pairs(addrs, blocks)
             n == Len(addrs) * Len(blocks)
  <2>1. w = [i \in DOMAIN P |-> Subject(p, P[i][2], P[i][1], None)]
    BY <1>7 DEF Work
  <2>2. /\ n \in Nat /\ DOMAIN P = 1..n
        /\ \A i \in DOMAIN P : P[i][1] \in ToSet(addrs) /\ P[i][2] \in ToSet(blocks)
        /\ \A x \in ToSet(addrs), y \in ToSet(blocks) :
             \E i \in DOMAIN P : P[i][1] = x /\ P[i][2] = y
        /\ IsInjective(blocks) =>
             \A i, j \in DOMAIN P : (P[i][1] = P[j][1] /\ P[i][2] = P[j][2]) => i = j
    BY <1>1, PairsAreAll
  <2> HIDE DEF w, addrs, P, n
  <2>3. \A i \in 1..n : w[i] = Subject(p, P[i][2], P[i][1], None)
    BY <2>1, <2>2
  <2>4. \A i \in 1..n : w[i] \in AnySubject
    BY <1>3, <1>4, <2>2, <2>3, SubjectType
  <2>5. w \in Seq(AnySubject) /\ DOMAIN w = 1..n /\ ToSet(w) = {w[i] : i \in 1..n}
    BY <2>1, <2>2, <2>4, ListedSubjects
  <2>6. ToSet(w) = {Subject(p, b, a, None) : b \in ToSet(blocks), a \in ToSet(addrs)}
    <3>1. ASSUME NEW s \in ToSet(w)
          PROVE  \E b \in ToSet(blocks), a \in ToSet(addrs) : s = Subject(p, b, a, None)
      BY <2>2, <2>3, <2>5
    <3>2. ASSUME NEW b \in ToSet(blocks), NEW a \in ToSet(addrs)
          PROVE  Subject(p, b, a, None) \in ToSet(w)
      BY <2>2, <2>3, <2>5
    <3> QED
      BY <3>1, <3>2
  <2>7. Due(p) = {Subject(p, b, a, None) : b \in ToSet(blocks), a \in ToSet(addrs)}
    BY <1>1, <1>7 DEF Due
  <2>8. ASSUME IsInjective(blocks) PROVE IsInjective(w)
    BY <2>2, <2>3, <2>5, <2>8 DEF IsInjective, Subject
  <2>9. ToSet(w) = Due(p)
    BY <2>6, <2>7
  <2> QED
    BY <2>5, <2>8, <2>9 DEF w
<1>8. CASE p = "tokenBalance"
  <2> DEFINE P == Pairs(addrs, toks)
             n == Len(addrs) * Len(toks)
  <2>1. w = [i \in DOMAIN P |-> Subject(p, None, P[i][1], P[i][2])]
    BY <1>8 DEF Work
  <2>2. /\ n \in Nat /\ DOMAIN P = 1..n
        /\ \A i \in DOMAIN P : P[i][1] \in ToSet(addrs) /\ P[i][2] \in ToSet(toks)
        /\ \A x \in ToSet(addrs), y \in ToSet(toks) :
             \E i \in DOMAIN P : P[i][1] = x /\ P[i][2] = y
        /\ \A i, j \in DOMAIN P : (P[i][1] = P[j][1] /\ P[i][2] = P[j][2]) => i = j
    BY <1>1, PairsAreAll
  <2> HIDE DEF w, addrs, toks, P, n
  <2>3. \A i \in 1..n : w[i] = Subject(p, None, P[i][1], P[i][2])
    BY <2>1, <2>2
  <2>4. \A i \in 1..n : w[i] \in AnySubject
    BY <1>3, <1>4, <2>2, <2>3, SubjectType
  <2>5. w \in Seq(AnySubject) /\ DOMAIN w = 1..n /\ ToSet(w) = {w[i] : i \in 1..n}
    BY <2>1, <2>2, <2>4, ListedSubjects
  <2>6. ToSet(w) = {Subject(p, None, a, t) : a \in ToSet(addrs), t \in ToSet(toks)}
    <3>1. ASSUME NEW s \in ToSet(w)
          PROVE  \E a \in ToSet(addrs), t \in ToSet(toks) : s = Subject(p, None, a, t)
      BY <2>2, <2>3, <2>5
    <3>2. ASSUME NEW a \in ToSet(addrs), NEW t \in ToSet(toks)
          PROVE  Subject(p, None, a, t) \in ToSet(w)
      BY <2>2, <2>3, <2>5
    <3> QED
      BY <3>1, <3>2
  <2>7. Due(p) = {Subject(p, None, a, t) : a \in ToSet(addrs), t \in ToSet(toks)}
    BY <1>1, <1>8 DEF Due
  <2>8. IsInjective(w)
    BY <2>2, <2>3, <2>5 DEF IsInjective, Subject
  <2>9. ToSet(w) = Due(p)
    BY <2>6, <2>7
  <2> QED
    BY <2>5, <2>8, <2>9 DEF w
<1> QED
  BY <1>5, <1>6, <1>7, <1>8 DEF PassNames
-----------------------------------------------------------------------------
(* The inductive invariant of the passes.                                  *)

Early == pc \in {"forChain", "finalized", "tip", "sample"}
Busy == pc \in {"loop", "compare", "save"}
Asked == pc \in {"compare", "save"}

\* What saveDiff stores of a discrepancy.
Record == [metric : Metrics, subject : AnySubject, block : Nat \cup {Anchor}, address : Nat]

Typed ==
    /\ job \in Jobs
    /\ Early \/ Busy \/ pc \in {"pass", "completed", "failed"}
    /\ blocks \in Seq(BlockNumber) /\ cursor \in BlockNumber
    /\ pass \in 1..6
    /\ work \in Seq(AnySubject) /\ subjects \in Seq(AnySubject)
    /\ saved \in Seq(Record)
    /\ k \in Nat /\ comparisons \in Nat

\* The answers being compared, as they were heard.
Current == [subject |-> Head(work), got |-> answers.got, stale |-> answers.stale]

\* Where the control is tells what was done.
Position ==
    /\ Early => /\ pass = 1 /\ subjects = <<>> /\ heard = {} /\ saved = <<>>
                /\ comparisons = 0
    /\ Busy => /\ pass <= 5 /\ PassApplies(Passes[pass])
               /\ ToSet(work) \subseteq Due(Passes[pass])
               /\ Due(Passes[pass]) \subseteq ToSet(subjects) \cup ToSet(work)
    /\ Asked => work # <<>> /\ Current \in heard /\ k \in 1..(Len(CurrentMetrics) + 1)
    /\ pc = "save" => k <= Len(CurrentMetrics) /\ Disagrees(CurrentMetrics[k])
    /\ pc = "completed" =>
         /\ pass = 6
         /\ summary = [subjects |-> subjects, sources |-> job.sources, comparisons |-> comparisons]

\* The passes left behind have visited all of their subjects ...
Covered ==
    \A q \in 1..5 : (q < pass /\ PassApplies(Passes[q])) => Due(Passes[q]) \subseteq ToSet(subjects)

\* ... and nothing else.
Justified ==
    \A s \in ToSet(subjects) :
        \E q \in 1..5 : /\ q < pass \/ (q = pass /\ Busy)
                        /\ PassApplies(Passes[q]) /\ s \in Due(Passes[q])

\* The sources were asked about the subjects counted and the current one.
AskedAbout == {h.subject : h \in heard} = ToSet(subjects) \cup (IF Asked THEN {Head(work)} ELSE {})

\* No subject is visited twice.
Once ==
    IsInjective(blocks) =>
        /\ IsInjective(subjects)
        /\ Busy => IsInjective(work) /\ ToSet(subjects) \cap ToSet(work) = {}

\* A metric of a subject is saved at most once.
Counted == Len(saved) <= comparisons + (IF Asked THEN k - 1 ELSE 0)

\* Two supporting sources answered with different views, and the tolerance of
\* the metric does not excuse it.
Dissent(h, m) ==
    /\ h.subject.kind = Home(m)
    /\ \E s, t \in h.got : m \in job.supports[s] \cap job.supports[t] /\ job.view[s] # job.view[t]
    /\ ~(Windowed(m) /\ h.stale)

\* Every dissent is saved, or the comparison that will find it is yet to come.
Noted ==
    \A h \in heard, m \in ToSet(job.metrics) :
        Dissent(h, m) =>
            \/ \E i \in DOMAIN saved : saved[i].metric = m /\ saved[i].subject = h.subject
            \/ Asked /\ h = Current /\ \E i \in k..Len(CurrentMetrics) : CurrentMetrics[i] = m

Walk == Position /\ Covered /\ Justified /\ AskedAbout /\ Once /\ Counted /\ Noted

IInv == Typed /\ ValuesComeFromTheirFetch /\ (pc # "failed" => Walk)

\* The order of the passes names each of them once.
LEMMA PassesListed ==
    /\ Len(Passes) = 5
    /\ \A q \in 1..5 : Passes[q] \in PassNames
    /\ \A p \in PassNames : \E q \in 1..5 : Passes[q] = p
    /\ \A q, r \in 1..5 : Passes[q] = Passes[r] => q = r
<1>1. /\ Passes[1] = "block" /\ Passes[2] = "address" /\ Passes[3] = "addressAtBlock"
      /\ Passes[4] = "holdings" /\ Passes[5] = "tokenBalance" /\ Len(Passes) = 5
  BY DEF Passes
<1>2. 1..5 = {1, 2, 3, 4, 5}
  OBVIOUS
<1> QED
  BY <1>1, <1>2 DEF PassNames

\* The preconditions and subjects of a pass depend on the job and the sample.
LEMMA SameJob ==
    ASSUME UNCHANGED <<job, blocks>>, NEW p
    PROVE  PassApplies(p)' = PassApplies(p) /\ Due(p)' = Due(p)
<1>1. PassApplies(p)' = PassApplies(p)
  BY DEF PassApplies
<1>2. Due(p)' = Due(p)
  BY DEF Due
<1> QED
  BY <1>1, <1>2

\* A pass visits subjects of its own kind.
LEMMA DueKind ==
    ASSUME NEW p \in PassNames, NEW s \in Due(p)
    PROVE  s.kind = p
BY DEF PassNames, Due, Subject

\* The metrics of the current pass.
LEMMA CurrentServed ==
    ASSUME Typed, pass <= 5
    PROVE  /\ CurrentMetrics \in Seq(Metrics)
           /\ Len(CurrentMetrics) \in Nat /\ DOMAIN CurrentMetrics = 1..Len(CurrentMetrics)
           /\ \A i \in 1..Len(CurrentMetrics) :
                /\ CurrentMetrics[i] \in Metrics /\ CurrentMetrics[i] \in ToSet(job.metrics)
                /\ Serves(Passes[pass], CurrentMetrics[i])
           /\ \A m \in ToSet(job.metrics) :
                Serves(Passes[pass], m) => \E i \in 1..Len(CurrentMetrics) : CurrentMetrics[i] = m
<1>1. job.metrics \in Seq(Metrics)
  BY JobsAssumption DEF Typed, JobOK
<1>2. Passes[pass] \in PassNames
  BY PassesListed DEF Typed
<1>3. /\ CurrentMetrics \in Seq(Metrics)
      /\ ToSet(CurrentMetrics) = {m \in ToSet(job.metrics) : Serves(Passes[pass], m)}
  BY <1>1, <1>2, PassMetricsServed DEF CurrentMetrics
<1>4. Len(CurrentMetrics) \in Nat /\ DOMAIN CurrentMetrics = 1..Len(CurrentMetrics)
  BY <1>3, LenProperties
<1>5. \A i \in 1..Len(CurrentMetrics) : CurrentMetrics[i] \in ToSet(CurrentMetrics)
  BY <1>4 DEF ToSet
<1>6. \A m \in ToSet(CurrentMetrics) : \E i \in 1..Len(CurrentMetrics) : CurrentMetrics[i] = m
  BY <1>4 DEF ToSet
<1>7. \A i \in 1..Len(CurrentMetrics) : CurrentMetrics[i] \in Metrics
  BY <1>3, ElementOfSeq
<1> HIDE DEF CurrentMetrics
<1> QED
  BY <1>3, <1>4, <1>5, <1>6, <1>7

\* compareAndSave judges a dissent as one: the pass that visits a subject asks
\* for the metric and its extractor finds the values.
LEMMA DissentDisagrees ==
    ASSUME Typed, Position, Asked, NEW m \in ToSet(job.metrics), Dissent(Current, m)
    PROVE  Disagrees(m) /\ Serves(Passes[pass], m)
<1>1. job.metrics \in Seq(Metrics)
  BY JobsAssumption DEF Typed, JobOK
<1>2. m \in Metrics
  BY <1>1, ToSetIsFinite
<1>3. pass <= 5 /\ pass \in 1..5 /\ Passes[pass] \in PassNames
  BY PassesListed DEF Typed, Position, Asked, Busy
<1>4. Head(work) \in Due(Passes[pass])
  <2>1. work \in Seq(AnySubject) /\ work # <<>> /\ ToSet(work) \subseteq Due(Passes[pass])
    BY DEF Typed, Position, Asked, Busy
  <2> QED
    BY <2>1, TailLeaves
<1>5. Head(work).kind = Passes[pass]
  BY <1>3, <1>4, DueKind
<1>6. Home(m) = Passes[pass]
  BY <1>5 DEF Dissent, Current
<1>7. Serves(Passes[pass], m) /\ Extracts(Passes[pass], m)
  BY <1>2, <1>3, <1>6, HomeIsServed
<1>8. \E s, t \in answers.got : m \in job.supports[s] \cap job.supports[t] /\ job.view[s] # job.view[t]
  BY DEF Dissent, Current
<1>9. \E s, t \in Snapshots(m) : job.view[s] # job.view[t]
  BY <1>7, <1>8 DEF Snapshots
<1>10. ~(Windowed(m) /\ answers.stale)
  BY DEF Dissent, Current
<1> QED
  BY <1>7, <1>9, <1>10 DEF Disagrees
-----------------------------------------------------------------------------
(* The types.                                                              *)

\* The strategy of a job, field by field.
LEMMA StrategyType ==
    ASSUME job \in Jobs
    PROVE  /\ WellFormed(job.strategy) /\ job.strategy.kind \in Kinds
           /\ job.strategy.numbers \in Seq(BlockNumber) /\ job.strategy.n \in Nat
           /\ job.strategy.start \in BlockNumber /\ job.strategy.end \in BlockNumber
           /\ job.tip \in BlockNumber
BY JobsAssumption DEF JobOK, WellFormed

\* Wrapping stays among the block numbers.
LEMMA WrapType ==
    ASSUME NEW n \in Int
    PROVE  Wrap(n) \in BlockNumber
BY SamplingAssumption DEF Wrap, BlockNumber

\* Block numbers are natural numbers.
LEMMA BlockIsNat == \A b \in BlockNumber : b \in Nat /\ b \in Int
BY SamplingAssumption DEF BlockNumber

\* What a strategy returns without a loop is a list of block numbers.
LEMMA AtOnceType ==
    ASSUME job \in Jobs, NEW b \in AtOnce(job.strategy), NoLoop(job.strategy)
    PROVE  b \in Seq(BlockNumber)
<1> DEFINE st == job.strategy
<1>1. /\ st.numbers \in Seq(BlockNumber) /\ st.start \in BlockNumber /\ st.end \in BlockNumber
  BY StrategyType
<1>2. CASE st.kind = "fixed_list"
  <2>1. AtOnce(st) = {st.numbers}
    BY <1>2 DEF AtOnce
  <2> QED
    BY <1>1, <2>1
<1>3. CASE b = <<>>
  BY <1>3
<1>4. CASE b \in Drawn(st)
  <2>1. PICK S \in SUBSET (st.start..st.end) : b = Ascending(S)
    BY <1>4 DEF Drawn
  <2>2. st.start..st.end \in SUBSET BlockNumber
    BY <1>1, SamplingAssumption DEF BlockNumber
  <2>3. st.start \in Int /\ st.end \in Int
    BY <1>1, SamplingAssumption DEF BlockNumber
  <2>4. IsFiniteSet(st.start..st.end)
    BY <2>3, FS_Interval
  <2>5. IsFiniteSet(S)
    BY <2>4, FS_Subset
  <2>6. S \in SUBSET Int
    BY <2>3
  <2>7. b \in Seq(S) /\ S \in SUBSET BlockNumber
    BY <2>1, <2>2, <2>5, <2>6, AscendingSorts
  <2> QED
    BY <2>7, SeqMonotonic
<1>5. st.kind = "fixed_list" \/ b = <<>> \/ b \in Drawn(st)
  BY DEF AtOnce
<1> QED
  BY <1>2, <1>3, <1>4, <1>5

\* The step of a loop stays among the block numbers.
LEMMA CursorType ==
    ASSUME job \in Jobs, cursor \in BlockNumber, NEW last
    PROVE  /\ LoopStart(job.strategy, job.tip) \in BlockNumber
           /\ LoopNext(job.strategy, cursor, last).block \in BlockNumber
<1>1. /\ job.strategy.n \in Int /\ job.tip \in Int /\ cursor \in Int
      /\ job.strategy.start \in BlockNumber
  BY StrategyType, BlockIsNat
<1>2. \A n \in Int : Wrap(n) \in BlockNumber /\ Wrap(n) \in Int
  BY WrapType, BlockIsNat
<1>3. LatestCount(job.strategy.n, job.tip) \in Int
  <2>1. job.tip + 1 \in Int
    BY <1>1
  <2>2. Wrap(job.tip + 1) \in Int
    BY <1>2, <2>1
  <2> QED
    BY <1>1, <2>2 DEF LatestCount
<1>4. LoopStart(job.strategy, job.tip) \in BlockNumber
  <2>1. job.tip - LatestCount(job.strategy.n, job.tip) + 1 \in Int
    BY <1>1, <1>3
  <2>2. Wrap(job.tip - LatestCount(job.strategy.n, job.tip) + 1) \in BlockNumber
    BY <1>2, <2>1
  <2> QED
    BY <1>1, <2>2 DEF LoopStart
<1>5. LoopNext(job.strategy, cursor, last).block \in BlockNumber
  BY <1>1, <1>2 DEF LoopNext
<1> QED
  BY <1>4, <1>5

\* Every step keeps the types.
LEMMA TypedStep ==
    ASSUME Typed, pc # "failed" => Position, Next
    PROVE  Typed'
<1> USE DEF Typed, Early, Busy
<1>1. ASSUME Expire PROVE Typed'
  BY <1>1 DEF Expire
<1>2. ASSUME Fail PROVE Typed'
  BY <1>2 DEF Fail
<1>3. ASSUME ForChain PROVE Typed'
  BY <1>3 DEF ForChain
<1>4. ASSUME Finalized PROVE Typed'
  BY <1>4 DEF Finalized
<1>5. ASSUME Tip PROVE Typed'
  BY <1>5, CursorType DEF Tip
<1>6. ASSUME SampleAtOnce PROVE Typed'
  BY <1>6, AtOnceType DEF SampleAtOnce
<1>7. ASSUME SampleNext PROVE Typed'
  <2>1. blocks' \in Seq(BlockNumber)
    BY <1>7, AppendAdds DEF SampleNext
  <2>2. cursor' \in BlockNumber
    BY <1>7, CursorType DEF SampleNext
  <2>3. pc' \in {"pass", "sample"}
    BY <1>7 DEF SampleNext
  <2> QED
    BY <1>7, <2>1, <2>2, <2>3 DEF SampleNext
<1>8. ASSUME EnterPass PROVE Typed'
  <2>1. CASE PassApplies(Passes[pass])
    <3>1. JobOK(job) /\ Passes[pass] \in PassNames
      BY <1>8, JobsAssumption, PassesListed DEF EnterPass
    <3>2. work' \in Seq(AnySubject) /\ pc' = "loop" /\ pass' = pass
      BY <1>8, <2>1, <3>1, WorkIsDue DEF EnterPass
    <3> QED
      BY <1>8, <3>2 DEF EnterPass
  <2>2. CASE ~PassApplies(Passes[pass])
    <3>1. pass' = pass + 1 /\ pass <= 5 /\ work' = work /\ pc' = pc
      BY <1>8, <2>2, PassesListed DEF EnterPass
    <3> QED
      BY <1>8, <3>1 DEF EnterPass
  <2> QED
    BY <2>1, <2>2
<1>9. ASSUME Fetch PROVE Typed'
  BY <1>9 DEF Fetch
<1>10. ASSUME Compare PROVE Typed'
  <2>1. pc' \in {"save", "compare"} /\ k' \in Nat
    BY <1>10 DEF Compare
  <2> QED
    BY <1>10, <2>1 DEF Compare
<1>11. ASSUME Save PROVE Typed'
  <2> DEFINE rec == [metric |-> CurrentMetrics[k], subject |-> Head(work),
                     block |-> RecordBlock(Head(work)), address |-> Head(work).address]
  <2>1. pass <= 5 /\ work # <<>> /\ k \in 1..Len(CurrentMetrics)
    <3>1. pass <= 5 /\ work # <<>> /\ k \in 1..(Len(CurrentMetrics) + 1) /\ k <= Len(CurrentMetrics)
      BY <1>11 DEF Save, Position, Asked
    <3>2. Len(CurrentMetrics) \in Nat
      BY <3>1, CurrentServed
    <3> QED
      BY <3>1, <3>2
  <2>2. CurrentMetrics[k] \in Metrics
    BY <2>1, CurrentServed
  <2>3. Head(work) \in AnySubject
    BY <2>1, TailLeaves
  <2>4. RecordBlock(Head(work)) \in Nat \cup {Anchor} /\ Head(work).address \in Nat
    BY <2>3 DEF RecordBlock, AnySubject
  <2>5. rec \in Record
    BY <2>2, <2>3, <2>4 DEF Record
  <2>6. saved' = Append(saved, rec) /\ k' = k + 1 /\ pc' = "compare"
    BY <1>11 DEF Save
  <2> HIDE DEF rec
  <2>7. saved' \in Seq(Record)
    BY <2>5, <2>6, AppendAdds
  <2> QED
    BY <1>11, <2>6, <2>7 DEF Save
<1>12. ASSUME EndSubject PROVE Typed'
  <2>1. pass <= 5 /\ work # <<>>
    BY <1>12 DEF EndSubject, Position, Asked
  <2>2. Head(work) \in AnySubject /\ Tail(work) \in Seq(AnySubject)
    BY <2>1, TailLeaves
  <2>3. subjects' \in Seq(AnySubject) /\ work' \in Seq(AnySubject)
    BY <1>12, <2>2, AppendAdds DEF EndSubject
  <2>4. comparisons' \in Nat
    <3>1. Len(CurrentMetrics) \in Nat
      BY <2>1, CurrentServed
    <3> QED
      BY <1>12, <3>1 DEF EndSubject
  <2> QED
    BY <1>12, <2>3, <2>4 DEF EndSubject
<1>13. ASSUME EndPass PROVE Typed'
  <2>1. pass <= 5
    BY <1>13 DEF EndPass, Position
  <2> QED
    BY <1>13, <2>1 DEF EndPass
<1>14. ASSUME RecordSummary PROVE Typed'
  BY <1>14 DEF RecordSummary
<1> QED
  BY <1>1, <1>2, <1>3, <1>4, <1>5, <1>6, <1>7, <1>8, <1>9, <1>10, <1>11, <1>12, <1>13, <1>14
     DEF Next, Step
-----------------------------------------------------------------------------
(* The values.                                                             *)

\* What the current pass finds to disagree is what its fetch returned.
LEMMA SavedAtHome ==
    ASSUME Typed, Position, pc = "save"
    PROVE  /\ work # <<>> /\ Head(work) \in AnySubject
           /\ pass \in 1..5 /\ Head(work).kind = Passes[pass]
           /\ k \in 1..Len(CurrentMetrics)
           /\ CurrentMetrics[k] \in Metrics
           /\ Home(CurrentMetrics[k]) = Head(work).kind
<1>1. /\ pass <= 5 /\ pass \in 1..5 /\ work # <<>> /\ ToSet(work) \subseteq Due(Passes[pass])
      /\ k \in 1..(Len(CurrentMetrics) + 1) /\ k <= Len(CurrentMetrics)
      /\ Disagrees(CurrentMetrics[k])
  BY DEF Typed, Position, Asked, Busy
<1>2. Len(CurrentMetrics) \in Nat
  BY <1>1, CurrentServed
<1>3. k \in 1..Len(CurrentMetrics)
  BY <1>1, <1>2
<1>4. CurrentMetrics[k] \in Metrics /\ Serves(Passes[pass], CurrentMetrics[k])
  BY <1>1, <1>3, CurrentServed
<1>5. Extracts(Passes[pass], CurrentMetrics[k])
  BY <1>1 DEF Disagrees, Snapshots
<1>6. Passes[pass] \in PassNames
  BY <1>1, PassesListed
<1>7. Home(CurrentMetrics[k]) = Passes[pass]
  BY <1>4, <1>5, <1>6, HomeIsServed
<1>8. Head(work) \in AnySubject /\ Head(work) \in Due(Passes[pass])
  BY <1>1, TailLeaves DEF Typed
<1>9. Head(work).kind = Passes[pass]
  BY <1>6, <1>8, DueKind
<1> QED
  BY <1>1, <1>3, <1>4, <1>7, <1>8, <1>9

\* Only Save adds a discrepancy.
LEMMA SavedFrame ==
    ASSUME Next, ~Save
    PROVE  saved' = saved
BY DEF Next, Step, Expire, Fail, ForChain, Finalized, Tip, SampleAtOnce, SampleNext, EnterPass,
       Fetch, Compare, EndSubject, EndPass, RecordSummary

\* What Save adds, as the last of the list.
LEMMA SaveAppends ==
    ASSUME Typed, Typed', Position, Save
    PROVE  /\ Len(saved) \in Nat /\ DOMAIN saved = 1..Len(saved)
           /\ DOMAIN saved' = 1..(Len(saved) + 1) /\ Len(saved') = Len(saved) + 1
           /\ \A i \in 1..Len(saved) : saved'[i] = saved[i]
           /\ saved'[Len(saved) + 1].metric = CurrentMetrics[k]
           /\ saved'[Len(saved) + 1].subject = Head(work)
<1> DEFINE rec == [metric |-> CurrentMetrics[k], subject |-> Head(work),
                   block |-> RecordBlock(Head(work)), address |-> Head(work).address]
<1>1. saved' = Append(saved, rec)
  BY DEF Save
<1>2. rec.metric = CurrentMetrics[k] /\ rec.subject = Head(work)
  OBVIOUS
<1> HIDE DEF rec
<1>3. saved \in Seq(Record) /\ saved' \in Seq(Record) /\ Len(saved) \in Nat
  BY LenProperties DEF Typed
<1>4. /\ Len(saved') = Len(saved) + 1
      /\ \A i \in 1..Len(saved) : saved'[i] = saved[i]
      /\ saved'[Len(saved) + 1] = rec
  <2>1. saved \in Seq(Record \cup {rec}) /\ rec \in Record \cup {rec}
    BY <1>3, SeqMonotonic
  <2> QED
    BY <1>1, <2>1, AppendProperties
<1>5. DOMAIN saved = 1..Len(saved) /\ DOMAIN saved' = 1..Len(saved')
  BY <1>3, LenProperties
<1> QED
  BY <1>2, <1>3, <1>4, <1>5

\* No step saves a value of another fetch.
LEMMA ValuesStep ==
    ASSUME Typed, Typed', pc # "failed" => Position, ValuesComeFromTheirFetch, Next
    PROVE  ValuesComeFromTheirFetch'
<1>1. CASE ~Save
  BY <1>1, SavedFrame DEF ValuesComeFromTheirFetch
<1>2. CASE Save
  <2>1. pc = "save" /\ Position
    BY <1>2 DEF Save
  <2>2. Home(CurrentMetrics[k]) = Head(work).kind
    BY <2>1, SavedAtHome
  <2>3. ASSUME NEW i \in DOMAIN saved'
        PROVE  saved'[i].subject.kind = Home(saved'[i].metric)
    <3>1. /\ Len(saved) \in Nat /\ DOMAIN saved = 1..Len(saved)
          /\ i \in 1..(Len(saved) + 1)
          /\ \A j \in 1..Len(saved) : saved'[j] = saved[j]
          /\ saved'[Len(saved) + 1].metric = CurrentMetrics[k]
          /\ saved'[Len(saved) + 1].subject = Head(work)
      BY <1>2, <2>1, <2>3, SaveAppends
    <3>2. CASE i = Len(saved) + 1
      BY <2>2, <3>1, <3>2
    <3>3. CASE i # Len(saved) + 1
      <4>1. i \in DOMAIN saved /\ saved'[i] = saved[i]
        BY <3>1, <3>3
      <4> QED
        BY <4>1 DEF ValuesComeFromTheirFetch
    <3> QED
      BY <3>2, <3>3
  <2> QED
    BY <2>3 DEF ValuesComeFromTheirFetch
<1> QED
  BY <1>1, <1>2
-----------------------------------------------------------------------------
(* The steps before the first pass, and those that only move the control.  *)

\* The empty list.
LEMMA EmptyList == ToSet(<<>>) = {} /\ IsInjective(<<>>)
BY DEF ToSet, IsInjective

\* Before the first pass nothing is counted, heard or saved.
LEMMA EarlyStep ==
    ASSUME Early, Position, pc' \in {"forChain", "finalized", "tip", "sample", "pass"},
           UNCHANGED <<pass, saved, subjects, comparisons, heard>>
    PROVE  Walk'
<1>1. /\ pass' = 1 /\ subjects' = <<>> /\ heard' = {} /\ saved' = <<>> /\ comparisons' = 0
  BY DEF Position
<1>2. ~Busy' /\ ~Asked' /\ pc' # "completed" /\ pc' # "save"
  BY DEF Busy, Asked
<1>3. Position'
  BY <1>1, <1>2 DEF Position
<1>4. Covered'
  BY <1>1 DEF Covered
<1>5. Justified' /\ AskedAbout' /\ Once'
  BY <1>1, <1>2, EmptyList DEF Justified, AskedAbout, Once
<1>6. Counted' /\ Noted'
  BY <1>1, <1>2 DEF Counted, Noted
<1> QED
  BY <1>3, <1>4, <1>5, <1>6 DEF Walk

\* The walk does not read the context.
LEMMA WalkFrame ==
    ASSUME Walk, UNCHANGED <<job, pc, blocks, pass, work, answers, k, saved, subjects,
                             comparisons, summary, heard>>
    PROVE  Walk'
<1> USE DEF Walk, Early, Busy, Asked, Current, CurrentMetrics
<1>1. \A p : PassApplies(p)' = PassApplies(p) /\ Due(p)' = Due(p)
  BY SameJob
<1>2. Position'
  BY <1>1 DEF Position, Disagrees, Snapshots
<1>3. Covered' /\ Justified'
  BY <1>1 DEF Covered, Justified
<1>4. AskedAbout' /\ Once' /\ Counted'
  BY DEF AskedAbout, Once, Counted
<1>5. Noted'
  BY DEF Noted, Dissent
<1> QED
  BY <1>2, <1>3, <1>4, <1>5
-----------------------------------------------------------------------------
(* Between the passes.                                                     *)

\* What is heard, counted and saved while the control is between the subjects.
LEMMA BetweenFrame ==
    ASSUME Walk, ~Asked, ~Asked', UNCHANGED <<job, saved, subjects, comparisons, heard>>
    PROVE  AskedAbout' /\ Counted' /\ Noted'
<1>1. AskedAbout'
  BY DEF Walk, AskedAbout
<1>2. Counted'
  BY DEF Walk, Counted
<1>3. Noted'
  BY DEF Walk, Noted, Dissent
<1> QED
  BY <1>1, <1>2, <1>3

\* A pass that does not apply is left behind with nothing to visit.
LEMMA SkipStep ==
    ASSUME Typed, Walk, EnterPass, ~PassApplies(Passes[pass])
    PROVE  Walk'
<1>1. /\ pc = "pass" /\ pc' = "pass" /\ pass \in 1..5 /\ pass' = pass + 1
      /\ UNCHANGED <<job, blocks, work, saved, subjects, comparisons, heard>>
  BY PassesListed DEF EnterPass, Typed
<1>2. ~Busy /\ ~Busy' /\ ~Asked /\ ~Asked' /\ ~Early'
  BY <1>1 DEF Busy, Asked, Early
<1>3. \A p : PassApplies(p)' = PassApplies(p) /\ Due(p)' = Due(p)
  BY <1>1, SameJob
<1>4. Position'
  BY <1>1, <1>2 DEF Position
<1>5. Covered'
  <2>1. \A q \in 1..5 : q < pass + 1 => q < pass \/ q = pass
    BY <1>1
  <2> QED
    BY <1>1, <1>3, <2>1 DEF Walk, Covered
<1>6. Justified'
  <2>1. \A q \in 1..5 : q < pass => q < pass'
    BY <1>1
  <2> QED
    BY <1>1, <1>2, <1>3, <2>1 DEF Walk, Justified
<1>7. Once'
  BY <1>1, <1>2 DEF Walk, Once
<1> QED
  BY <1>1, <1>2, <1>4, <1>5, <1>6, <1>7, BetweenFrame DEF Walk

\* A pass begins with all of its subjects, none of them visited before.
LEMMA EnterStep ==
    ASSUME Typed, Walk, EnterPass, PassApplies(Passes[pass])
    PROVE  Walk'
<1> DEFINE p == Passes[pass]
<1>1. /\ pc = "pass" /\ pc' = "loop" /\ pass \in 1..5 /\ pass' = pass /\ work' = Work(p)
      /\ UNCHANGED <<job, blocks, saved, subjects, comparisons, heard>>
  BY PassesListed DEF EnterPass, Typed
<1>2. ~Busy /\ Busy' /\ ~Asked /\ ~Asked' /\ ~Early'
  BY <1>1 DEF Busy, Asked, Early
<1>3. \A q : PassApplies(q)' = PassApplies(q) /\ Due(q)' = Due(q)
  BY <1>1, SameJob
<1>4. p \in PassNames
  BY <1>1, PassesListed
<1>5. /\ ToSet(work') = Due(p)
      /\ IsInjective(blocks) => IsInjective(work')
  BY <1>1, <1>4, JobsAssumption, WorkIsDue DEF Typed
<1>6. Position'
  BY <1>1, <1>2, <1>3, <1>5 DEF Position
<1>7. Covered'
  BY <1>1, <1>3 DEF Walk, Covered
<1>8. Justified'
  BY <1>1, <1>2, <1>3 DEF Walk, Justified
<1>9. ToSet(subjects) \cap ToSet(work') = {}
  <2>1. ASSUME NEW s \in ToSet(subjects), s \in Due(p) PROVE FALSE
    <3>1. PICK q \in 1..5 : q < pass /\ s \in Due(Passes[q])
      BY <1>2, <2>1 DEF Walk, Justified
    <3>2. s.kind = Passes[q] /\ s.kind = Passes[pass]
      BY <1>4, <2>1, <3>1, PassesListed, DueKind
    <3>3. q = pass
      BY <1>1, <3>2, PassesListed
    <3> QED
      BY <1>1, <3>1, <3>3
  <2> QED
    BY <1>5, <2>1
<1>10. Once'
  BY <1>1, <1>2, <1>5, <1>9 DEF Walk, Once
<1> QED
  BY <1>1, <1>2, <1>6, <1>7, <1>8, <1>10, BetweenFrame DEF Walk

\* A pass ends when it has visited all of its subjects.
LEMMA EndPassStep ==
    ASSUME Typed, Walk, EndPass
    PROVE  Walk'
<1>1. /\ pc = "loop" /\ pc' = "pass" /\ pass' = pass + 1 /\ work = <<>>
      /\ UNCHANGED <<job, blocks, work, saved, subjects, comparisons, heard>>
  BY DEF EndPass
<1>2. Busy /\ ~Busy' /\ ~Asked /\ ~Asked' /\ ~Early'
  BY <1>1 DEF Busy, Asked, Early
<1>3. /\ pass \in 1..5
      /\ Due(Passes[pass]) \subseteq ToSet(subjects)
  <2>1. pass <= 5 /\ Due(Passes[pass]) \subseteq ToSet(subjects) \cup ToSet(work)
    BY <1>2 DEF Walk, Position
  <2>2. ToSet(work) = {}
    BY <1>1, EmptyList
  <2> QED
    BY <2>1, <2>2 DEF Typed
<1>4. \A p : PassApplies(p)' = PassApplies(p) /\ Due(p)' = Due(p)
  BY <1>1, SameJob
<1>5. Position'
  BY <1>1, <1>2 DEF Position
<1>6. Covered'
  <2>1. \A q \in 1..5 : q < pass' => q < pass \/ q = pass
    BY <1>1, <1>3
  <2> QED
    BY <1>1, <1>3, <1>4, <2>1 DEF Walk, Covered
<1>7. Justified'
  <2>1. \A q \in 1..5 : q < pass \/ q = pass => q < pass'
    BY <1>1, <1>3
  <2> QED
    BY <1>1, <1>4, <2>1 DEF Walk, Justified
<1>8. Once'
  BY <1>1, <1>2 DEF Walk, Once
<1> QED
  BY <1>1, <1>2, <1>5, <1>6, <1>7, <1>8, BetweenFrame DEF Walk

\* The summary is sealed after the last pass.
LEMMA SummaryStep ==
    ASSUME Typed, Walk, RecordSummary
    PROVE  Walk'
<1>1. /\ pc = "pass" /\ pc' = "completed" /\ pass > 5
      /\ UNCHANGED <<job, blocks, pass, work, saved, subjects, comparisons, heard>>
      /\ summary' = [subjects |-> subjects, sources |-> job.sources, comparisons |-> comparisons]
  BY PassesListed DEF RecordSummary
<1>2. ~Busy /\ ~Busy' /\ ~Asked /\ ~Asked' /\ ~Early'
  BY <1>1 DEF Busy, Asked, Early
<1>3. \A p : PassApplies(p)' = PassApplies(p) /\ Due(p)' = Due(p)
  BY <1>1, SameJob
<1>4. pass = 6
  BY <1>1 DEF Typed
<1>5. Position'
  BY <1>1, <1>2, <1>4 DEF Position
<1>6. Covered' /\ Justified'
  BY <1>1, <1>2, <1>3 DEF Walk, Covered, Justified
<1>7. Once'
  BY <1>1, <1>2 DEF Walk, Once
<1> QED
  BY <1>1, <1>2, <1>5, <1>6, <1>7, BetweenFrame DEF Walk
-----------------------------------------------------------------------------
(* Within a pass.                                                          *)

\* Inside a pass, what was visited before and what is still to visit stay.
LEMMA VisitFrame ==
    ASSUME Walk, Busy, Busy', UNCHANGED <<job, blocks, pass, work, subjects>>
    PROVE  /\ Covered' /\ Justified' /\ Once'
           /\ pass' <= 5 /\ PassApplies(Passes[pass])'
           /\ (ToSet(work) \subseteq Due(Passes[pass]))'
           /\ (Due(Passes[pass]) \subseteq ToSet(subjects) \cup ToSet(work))'
<1>1. \A p : PassApplies(p)' = PassApplies(p) /\ Due(p)' = Due(p)
  BY SameJob
<1>2. Covered' /\ Justified'
  BY <1>1 DEF Walk, Covered, Justified
<1>3. Once'
  BY DEF Walk, Once
<1>4. /\ pass <= 5 /\ PassApplies(Passes[pass])
      /\ ToSet(work) \subseteq Due(Passes[pass])
      /\ Due(Passes[pass]) \subseteq ToSet(subjects) \cup ToSet(work)
  BY DEF Walk, Position
<1> QED
  BY <1>1, <1>2, <1>3, <1>4

\* The sources are asked about the next subject.
LEMMA FetchStep ==
    ASSUME Typed, Walk, Fetch
    PROVE  Walk'
<1>1. /\ pc = "loop" /\ pc' = "compare" /\ work # <<>> /\ k' = 1
      /\ UNCHANGED <<job, blocks, pass, work, saved, subjects, comparisons>>
  BY DEF Fetch
<1>2. Busy /\ Busy' /\ ~Asked /\ Asked' /\ ~Early' /\ pc' # "save" /\ pc' # "completed"
  BY <1>1 DEF Busy, Asked, Early
<1>3. heard' = heard \cup {Current'} /\ Current'.subject = Head(work)
  <2>1. PICK got \in SUBSET job.sources, stale \in BOOLEAN :
          /\ answers' = [got |-> got, stale |-> stale]
          /\ heard' = heard \cup {[subject |-> Head(work), got |-> got, stale |-> stale]}
    BY DEF Fetch
  <2>2. Current' = [subject |-> Head(work), got |-> got, stale |-> stale]
    BY <1>1, <2>1 DEF Current
  <2> QED
    BY <2>1, <2>2
<1>4. CurrentMetrics' = CurrentMetrics
  BY <1>1 DEF CurrentMetrics
<1>5. /\ Covered' /\ Justified' /\ Once'
      /\ pass' <= 5 /\ PassApplies(Passes[pass])'
      /\ (ToSet(work) \subseteq Due(Passes[pass]))'
      /\ (Due(Passes[pass]) \subseteq ToSet(subjects) \cup ToSet(work))'
  BY <1>1, <1>2, VisitFrame
<1>6. pass \in 1..5 /\ Passes[pass] \in PassNames /\ ToSet(work) \subseteq Due(Passes[pass])
  BY <1>2, PassesListed DEF Walk, Position, Typed
<1>7. Len(CurrentMetrics) \in Nat
  BY <1>6, CurrentServed
<1>8. Position'
  <2>1. Current' \in heard' /\ k' \in 1..(Len(CurrentMetrics') + 1)
    BY <1>1, <1>3, <1>4, <1>7
  <2> QED
    BY <1>1, <1>2, <1>5, <2>1 DEF Position
<1>9. AskedAbout'
  <2>1. {h.subject : h \in heard} = ToSet(subjects)
    BY <1>2 DEF Walk, AskedAbout
  <2>2. {h.subject : h \in heard'} = {h.subject : h \in heard} \cup {Head(work)}
    BY <1>3
  <2> QED
    BY <1>1, <1>2, <2>1, <2>2 DEF AskedAbout
<1>10. Counted'
  BY <1>1, <1>2 DEF Walk, Counted, Typed
<1>11. Noted'
  <2> SUFFICES ASSUME NEW h \in heard', NEW m \in ToSet(job.metrics), Dissent(h, m)
               PROVE  \/ \E i \in DOMAIN saved : saved[i].metric = m /\ saved[i].subject = h.subject
                      \/ h = Current' /\ \E i \in 1..Len(CurrentMetrics) : CurrentMetrics[i] = m
    BY <1>1, <1>2, <1>4 DEF Noted, Dissent
  <2>1. CASE h \in heard
    BY <1>2, <2>1 DEF Walk, Noted
  <2>2. CASE h = Current'
    <3>1. Head(work) \in Due(Passes[pass])
      BY <1>1, <1>6, TailLeaves DEF Typed
    <3>2. Home(m) = Passes[pass]
      BY <1>3, <1>6, <2>2, <3>1, DueKind DEF Dissent
    <3>3. m \in Metrics
      BY JobsAssumption, ToSetIsFinite DEF Typed, JobOK
    <3>4. Serves(Passes[pass], m)
      BY <1>6, <3>2, <3>3, HomeIsServed
    <3>5. \E i \in 1..Len(CurrentMetrics) : CurrentMetrics[i] = m
      BY <1>6, <3>4, CurrentServed
    <3> QED
      BY <2>2, <3>5
  <2> QED
    BY <1>3, <2>1, <2>2
<1> QED
  BY <1>5, <1>8, <1>9, <1>10, <1>11 DEF Walk

\* A metric on which nothing disagrees, or the disagreement to be saved.
LEMMA CompareStep ==
    ASSUME Typed, Walk, Compare
    PROVE  Walk'
<1>1. /\ pc = "compare" /\ k <= Len(CurrentMetrics)
      /\ UNCHANGED <<job, blocks, pass, work, answers, saved, subjects, comparisons, heard>>
      /\ \/ Disagrees(CurrentMetrics[k]) /\ pc' = "save" /\ k' = k
         \/ ~Disagrees(CurrentMetrics[k]) /\ pc' = "compare" /\ k' = k + 1
  BY DEF Compare
<1>2. Busy /\ Busy' /\ Asked /\ Asked' /\ ~Early' /\ pc' # "completed"
  BY <1>1 DEF Busy, Asked, Early
<1>3. /\ CurrentMetrics' = CurrentMetrics /\ Current' = Current
      /\ \A m : Disagrees(m)' = Disagrees(m)
  BY <1>1 DEF CurrentMetrics, Current, Disagrees, Snapshots
<1>4. /\ Covered' /\ Justified' /\ Once'
      /\ pass' <= 5 /\ PassApplies(Passes[pass])'
      /\ (ToSet(work) \subseteq Due(Passes[pass]))'
      /\ (Due(Passes[pass]) \subseteq ToSet(subjects) \cup ToSet(work))'
  BY <1>1, <1>2, VisitFrame
<1>5. /\ pass <= 5 /\ work # <<>> /\ Current \in heard
      /\ k \in 1..(Len(CurrentMetrics) + 1)
  BY <1>2 DEF Walk, Position
<1>6. Len(CurrentMetrics) \in Nat
  BY <1>5, CurrentServed
<1> HIDE DEF CurrentMetrics, Current
<1>7. k' \in k..(k + 1) /\ k' \in 1..(Len(CurrentMetrics) + 1)
  BY <1>1, <1>5, <1>6
<1>8. Position'
  <2>1. pc' = "save" => k' <= Len(CurrentMetrics') /\ Disagrees(CurrentMetrics[k])'
    <3>1. ASSUME pc' = "save" PROVE k' = k /\ Disagrees(CurrentMetrics[k])
      BY <1>1, <3>1
    <3> QED
      BY <1>1, <1>3, <3>1 DEF Disagrees, Snapshots
  <2>2. Asked' => work' # <<>> /\ Current' \in heard' /\ k' \in 1..(Len(CurrentMetrics') + 1)
    BY <1>1, <1>3, <1>5, <1>7
  <2> QED
    BY <1>2, <1>4, <2>1, <2>2 DEF Position
<1>9. AskedAbout'
  BY <1>1, <1>2 DEF Walk, AskedAbout
<1>10. Counted'
  <2>1. saved \in Seq(Record)
    BY DEF Typed
  <2>2. Len(saved) \in Nat /\ comparisons \in Nat
    BY <2>1, LenProperties DEF Typed
  <2>3. Len(saved) <= comparisons + (k - 1)
    BY <1>2 DEF Walk, Counted
  <2>4. Len(saved) <= comparisons + (k' - 1)
    BY <1>5, <1>6, <1>7, <2>2, <2>3
  <2> QED
    BY <1>1, <1>2, <2>4 DEF Counted
<1>11. Noted'
  <2> SUFFICES ASSUME NEW h \in heard, NEW m \in ToSet(job.metrics), Dissent(h, m)
               PROVE  \/ \E i \in DOMAIN saved : saved[i].metric = m /\ saved[i].subject = h.subject
                      \/ h = Current /\ \E i \in k'..Len(CurrentMetrics) : CurrentMetrics[i] = m
    BY <1>1, <1>2, <1>3 DEF Noted, Dissent
  <2>1. CASE \E i \in DOMAIN saved : saved[i].metric = m /\ saved[i].subject = h.subject
    BY <2>1
  <2>2. CASE h = Current /\ \E i \in k..Len(CurrentMetrics) : CurrentMetrics[i] = m
    <3>1. PICK i \in k..Len(CurrentMetrics) : CurrentMetrics[i] = m
      BY <2>2
    <3>2. CASE i \in k'..Len(CurrentMetrics)
      BY <2>2, <3>1, <3>2
    <3>3. CASE i \notin k'..Len(CurrentMetrics)
      <4>1. i = k /\ k' # k
        BY <1>5, <1>6, <1>7, <3>1, <3>3
      <4>2. ~Disagrees(m)
        BY <1>1, <3>1, <4>1
      <4>3. Disagrees(m)
        BY <1>2, <2>2, DissentDisagrees DEF Walk
      <4> QED
        BY <4>2, <4>3
    <3> QED
      BY <3>2, <3>3
  <2> QED
    BY <1>2, <2>1, <2>2 DEF Walk, Noted
<1> QED
  BY <1>4, <1>8, <1>9, <1>10, <1>11 DEF Walk

\* The disagreement is saved and the next metric follows.
LEMMA SaveStep ==
    ASSUME Typed, Typed', Walk, Save
    PROVE  Walk'
<1>1. /\ pc = "save" /\ pc' = "compare" /\ k' = k + 1
      /\ UNCHANGED <<job, blocks, pass, work, answers, subjects, comparisons, heard>>
  BY DEF Save
<1>2. Busy /\ Busy' /\ Asked /\ Asked' /\ ~Early' /\ pc' # "completed" /\ pc' # "save"
  BY <1>1 DEF Busy, Asked, Early
<1>3. CurrentMetrics' = CurrentMetrics /\ Current' = Current
  BY <1>1 DEF CurrentMetrics, Current
<1>4. /\ Covered' /\ Justified' /\ Once'
      /\ pass' <= 5 /\ PassApplies(Passes[pass])'
      /\ (ToSet(work) \subseteq Due(Passes[pass]))'
      /\ (Due(Passes[pass]) \subseteq ToSet(subjects) \cup ToSet(work))'
  BY <1>1, <1>2, VisitFrame
<1>5. /\ pass <= 5 /\ work # <<>> /\ Current \in heard /\ k \in 1..Len(CurrentMetrics)
  <2>1. pass <= 5 /\ Current \in heard
    BY <1>2 DEF Walk, Position
  <2> QED
    BY <1>1, <2>1, SavedAtHome DEF Walk
<1>6. Len(CurrentMetrics) \in Nat
  BY <1>5, CurrentServed
<1>7. Current.subject = Head(work)
  BY DEF Current
<1>8. /\ Len(saved) \in Nat /\ DOMAIN saved = 1..Len(saved)
      /\ DOMAIN saved' = 1..(Len(saved) + 1) /\ Len(saved') = Len(saved) + 1
      /\ \A i \in 1..Len(saved) : saved'[i] = saved[i]
      /\ saved'[Len(saved) + 1].metric = CurrentMetrics[k]
      /\ saved'[Len(saved) + 1].subject = Head(work)
  BY SaveAppends DEF Walk
<1> HIDE DEF CurrentMetrics, Current
<1>9. Position'
  <2>1. Asked' => work' # <<>> /\ Current' \in heard' /\ k' \in 1..(Len(CurrentMetrics') + 1)
    BY <1>1, <1>3, <1>5, <1>6
  <2> QED
    BY <1>2, <1>4, <2>1 DEF Position
<1>10. AskedAbout'
  BY <1>1, <1>2 DEF Walk, AskedAbout
<1>11. Counted'
  <2>1. Len(saved) <= comparisons + (k - 1) /\ comparisons \in Nat
    BY <1>2 DEF Walk, Counted, Typed
  <2>2. Len(saved') <= comparisons + (k' - 1)
    BY <1>1, <1>5, <1>6, <1>8, <2>1
  <2> QED
    BY <1>1, <1>2, <2>2 DEF Counted
<1>12. Noted'
  <2> SUFFICES ASSUME NEW h \in heard, NEW m \in ToSet(job.metrics), Dissent(h, m)
               PROVE  \/ \E i \in DOMAIN saved' : saved'[i].metric = m /\ saved'[i].subject = h.subject
                      \/ h = Current /\ \E i \in (k + 1)..Len(CurrentMetrics) : CurrentMetrics[i] = m
    BY <1>1, <1>2, <1>3 DEF Noted, Dissent
  <2>1. CASE \E i \in DOMAIN saved : saved[i].metric = m /\ saved[i].subject = h.subject
    <3>1. PICK i \in DOMAIN saved : saved[i].metric = m /\ saved[i].subject = h.subject
      BY <2>1
    <3>2. i \in DOMAIN saved' /\ saved'[i] = saved[i]
      BY <1>8
    <3> QED
      BY <3>1, <3>2
  <2>2. CASE h = Current /\ \E i \in k..Len(CurrentMetrics) : CurrentMetrics[i] = m
    <3>1. PICK i \in k..Len(CurrentMetrics) : CurrentMetrics[i] = m
      BY <2>2
    <3>2. CASE i \in (k + 1)..Len(CurrentMetrics)
      BY <2>2, <3>1, <3>2
    <3>3. CASE i \notin (k + 1)..Len(CurrentMetrics)
      <4>1. i = k
        BY <1>5, <1>6, <3>1, <3>3
      <4>2. Len(saved) + 1 \in DOMAIN saved'
        BY <1>8
      <4> QED
        BY <1>7, <1>8, <2>2, <3>1, <4>1, <4>2
    <3> QED
      BY <3>2, <3>3
  <2> QED
    BY <1>2, <2>1, <2>2 DEF Walk, Noted
<1> QED
  BY <1>4, <1>9, <1>10, <1>11, <1>12 DEF Walk

\* A subject is counted once all of its metrics were compared.
LEMMA EndSubjectStep ==
    ASSUME Typed, Walk, EndSubject
    PROVE  Walk'
<1>1. /\ pc = "compare" /\ pc' = "loop" /\ k > Len(CurrentMetrics)
      /\ subjects' = Append(subjects, Head(work)) /\ work' = Tail(work)
      /\ comparisons' = comparisons + Len(CurrentMetrics)
      /\ UNCHANGED <<job, blocks, pass, saved, heard>>
  BY DEF EndSubject
<1>2. Busy /\ Busy' /\ Asked /\ ~Asked' /\ ~Early' /\ pc' # "completed" /\ pc' # "save"
  BY <1>1 DEF Busy, Asked, Early
<1>3. /\ pass <= 5 /\ pass \in 1..5 /\ work # <<>> /\ k \in 1..(Len(CurrentMetrics) + 1)
      /\ PassApplies(Passes[pass])
      /\ ToSet(work) \subseteq Due(Passes[pass])
      /\ Due(Passes[pass]) \subseteq ToSet(subjects) \cup ToSet(work)
  BY <1>2 DEF Walk, Position, Typed
<1>4. Len(CurrentMetrics) \in Nat
  BY <1>3, CurrentServed
<1>5. k = Len(CurrentMetrics) + 1
  BY <1>1, <1>3, <1>4
<1>6. /\ Head(work) \in AnySubject
      /\ ToSet(work) = {Head(work)} \cup ToSet(work')
      /\ IsInjective(work) => IsInjective(work') /\ Head(work) \notin ToSet(work')
  BY <1>1, <1>3, TailLeaves DEF Typed
<1>7. /\ ToSet(subjects') = ToSet(subjects) \cup {Head(work)}
      /\ (IsInjective(subjects) /\ Head(work) \notin ToSet(subjects)) => IsInjective(subjects')
  BY <1>1, <1>6, AppendAdds DEF Typed
<1>8. \A p : PassApplies(p)' = PassApplies(p) /\ Due(p)' = Due(p)
  BY <1>1, SameJob
<1> HIDE DEF CurrentMetrics, Current
<1>9. Position'
  <2>1. /\ ToSet(work') \subseteq Due(Passes[pass])
        /\ Due(Passes[pass]) \subseteq ToSet(subjects') \cup ToSet(work')
    BY <1>3, <1>6, <1>7
  <2> QED
    BY <1>1, <1>2, <1>3, <1>8, <2>1 DEF Position
<1>10. Covered'
  BY <1>1, <1>7, <1>8 DEF Walk, Covered
<1>11. Justified'
  <2> SUFFICES ASSUME NEW s \in ToSet(subjects')
               PROVE  \E q \in 1..5 : /\ q < pass \/ q = pass
                                      /\ PassApplies(Passes[q]) /\ s \in Due(Passes[q])
    BY <1>1, <1>2, <1>8 DEF Justified
  <2>1. CASE s \in ToSet(subjects)
    BY <2>1 DEF Walk, Justified
  <2>2. CASE s = Head(work)
    BY <1>3, <1>6, <2>2
  <2> QED
    BY <1>7, <2>1, <2>2
<1>12. AskedAbout'
  BY <1>1, <1>2, <1>7 DEF Walk, AskedAbout
<1>13. Once'
  <2>1. ASSUME IsInjective(blocks)
        PROVE  /\ IsInjective(subjects') /\ IsInjective(work')
               /\ ToSet(subjects') \cap ToSet(work') = {}
    <3>1. /\ IsInjective(subjects) /\ IsInjective(work)
          /\ ToSet(subjects) \cap ToSet(work) = {}
      BY <1>2, <2>1 DEF Walk, Once
    <3> QED
      BY <1>6, <1>7, <3>1
  <2> QED
    BY <1>1, <2>1 DEF Once
<1>14. Counted'
  <2>1. Len(saved) <= comparisons + (k - 1) /\ comparisons \in Nat
    BY <1>2 DEF Walk, Counted, Typed
  <2>2. Len(saved) <= comparisons + Len(CurrentMetrics)
    BY <1>4, <1>5, <2>1
  <2>3. Len(saved) <= comparisons + Len(CurrentMetrics) + 0
    BY <1>4, <2>1, <2>2
  <2> QED
    BY <1>1, <1>2, <2>3 DEF Counted
<1>15. Noted'
  <2> SUFFICES ASSUME NEW h \in heard, NEW m \in ToSet(job.metrics), Dissent(h, m)
               PROVE  \E i \in DOMAIN saved : saved[i].metric = m /\ saved[i].subject = h.subject
    BY <1>1 DEF Noted, Dissent
  <2>1. ~\E i \in k..Len(CurrentMetrics) : CurrentMetrics[i] = m
    BY <1>4, <1>5
  <2> QED
    BY <2>1 DEF Walk, Noted
<1> QED
  BY <1>9, <1>10, <1>11, <1>12, <1>13, <1>14, <1>15 DEF Walk
-----------------------------------------------------------------------------
(* The invariant and what follows from it.                                 *)

\* executeInner begins in the invariant ...
LEMMA InitIInv == Init => IInv
<1> SUFFICES ASSUME Init PROVE IInv
  OBVIOUS
<1> USE DEF Init
<1>1. Typed
  <2>1. 0 \in BlockNumber
    BY SamplingAssumption DEF BlockNumber
  <2> QED
    BY <2>1 DEF Typed, Early
<1>2. Position /\ Covered /\ Justified /\ AskedAbout /\ Once /\ Counted /\ Noted
  <2>1. Early /\ ~Busy /\ ~Asked
    BY DEF Early, Busy, Asked
  <2>2. Position
    BY <2>1 DEF Position
  <2>3. Covered /\ Justified /\ Noted /\ Counted
    BY <2>1, EmptyList DEF Covered, Justified, Noted, Counted
  <2>4. AskedAbout /\ Once
    BY <2>1, EmptyList DEF AskedAbout, Once
  <2> QED
    BY <2>2, <2>3, <2>4
<1>3. ValuesComeFromTheirFetch
  BY DEF ValuesComeFromTheirFetch
<1> QED
  BY <1>1, <1>2, <1>3 DEF IInv, Walk

\* ... and every step of it, of its failures and of the context keeps it.
LEMMA NextIInv == IInv /\ [Next]_vars => IInv'
<1> SUFFICES ASSUME IInv, [Next]_vars PROVE IInv'
  OBVIOUS
<1>1. Typed /\ ValuesComeFromTheirFetch /\ (pc # "failed" => Walk)
  BY DEF IInv
<1>2. CASE UNCHANGED vars
  <2>1. Typed' /\ ValuesComeFromTheirFetch'
    BY <1>1, <1>2 DEF vars, Typed, Early, Busy, ValuesComeFromTheirFetch
  <2>2. pc' # "failed" => Walk'
    BY <1>1, <1>2, WalkFrame DEF vars
  <2> QED
    BY <2>1, <2>2 DEF IInv
<1>3. CASE Next
  <2>1. Typed'
    BY <1>1, <1>3, TypedStep DEF Walk
  <2>2. ValuesComeFromTheirFetch'
    BY <1>1, <1>3, <2>1, ValuesStep DEF Walk
  <2>3. ASSUME pc' # "failed" PROVE Walk'
    <3>1. CASE Expire
      <4>1. Walk
        BY <1>1, <3>1 DEF Expire, Ended
      <4> QED
        BY <3>1, <4>1, WalkFrame DEF Expire
    <3>2. CASE Fail
      BY <2>3, <3>2 DEF Fail
    <3>3. CASE ForChain \/ Finalized \/ Tip \/ SampleAtOnce \/ SampleNext
      <4>1. /\ Early /\ pc # "failed"
            /\ UNCHANGED <<pass, saved, subjects, comparisons, heard>>
            /\ pc' \in {"forChain", "finalized", "tip", "sample", "pass"}
        BY <3>3 DEF ForChain, Finalized, Tip, SampleAtOnce, SampleNext, Early
      <4> QED
        BY <1>1, <4>1, EarlyStep DEF Walk
    <3>4. CASE EnterPass
      <4>1. Walk
        BY <1>1, <3>4 DEF EnterPass
      <4> QED
        BY <1>1, <3>4, <4>1, SkipStep, EnterStep
    <3>5. CASE Fetch
      BY <1>1, <3>5, FetchStep DEF Fetch
    <3>6. CASE Compare
      BY <1>1, <3>6, CompareStep DEF Compare
    <3>7. CASE Save
      BY <1>1, <2>1, <3>7, SaveStep DEF Save
    <3>8. CASE EndSubject
      BY <1>1, <3>8, EndSubjectStep DEF EndSubject
    <3>9. CASE EndPass
      BY <1>1, <3>9, EndPassStep DEF EndPass
    <3>10. CASE RecordSummary
      BY <1>1, <3>10, SummaryStep DEF RecordSummary
    <3> QED
      BY <1>3, <3>1, <3>2, <3>3, <3>4, <3>5, <3>6, <3>7, <3>8, <3>9, <3>10 DEF Next, Step
  <2> QED
    BY <2>1, <2>2, <2>3 DEF IInv
<1> QED
  BY <1>2, <1>3

\* A pass has metrics exactly when the run has one it serves.
LEMMA PassHasMetrics ==
    ASSUME NEW ms \in Seq(Metrics), NEW p \in PassNames
    PROVE  PassMetrics(p, ms) # <<>> <=> \E m \in ToSet(ms) : Serves(p, m)
<1>1. /\ PassMetrics(p, ms) \in Seq(Metrics)
      /\ ToSet(PassMetrics(p, ms)) = {m \in ToSet(ms) : Serves(p, m)}
  BY PassMetricsServed
<1> DEFINE pm == PassMetrics(p, ms)
<1> HIDE DEF pm
<1>2. ASSUME pm # <<>> PROVE \E m \in ToSet(ms) : Serves(p, m)
  <2>1. Head(pm) \in ToSet(pm)
    BY <1>1, <1>2, TailLeaves DEF pm
  <2> QED
    BY <1>1, <2>1 DEF pm
<1>3. ASSUME pm = <<>>, NEW m \in ToSet(ms), Serves(p, m) PROVE FALSE
  <2>1. m \in ToSet(pm)
    BY <1>1, <1>3 DEF pm
  <2> QED
    BY <1>3, <2>1, EmptyList
<1> QED
  BY <1>2, <1>3 DEF pm

\* The metrics of each category.
LEMMA WhatPassesServe ==
    ASSUME NEW m \in Metrics
    PROVE  /\ Serves("block", m) <=> m \in {"hash", "trace"}
           /\ Serves("address", m) <=> m \in {"balance", "holdings", "tokenBalance"}
           /\ Serves("addressAtBlock", m) <=> m = "balanceAtBlock"
           /\ Serves("holdings", m) <=> m = "holdings"
           /\ Serves("tokenBalance", m) <=> m = "tokenBalance"
<1>1. m \in {"hash", "trace", "balance", "holdings", "tokenBalance", "balanceAtBlock", "total"}
  BY DEF Metrics, Category
<1>2. /\ Category["hash"] = "block_immutable" /\ Category["trace"] = "block_immutable"
      /\ Category["balance"] = "address_latest" /\ Category["holdings"] = "address_latest"
      /\ Category["tokenBalance"] = "address_latest"
      /\ Category["balanceAtBlock"] = "address_at_block" /\ Category["total"] = "snapshot"
  BY DEF Category
<1>3. Serves("block", m) <=> m \in {"hash", "trace"}
  BY <1>1, <1>2 DEF Serves
<1>4. Serves("address", m) <=> m \in {"balance", "holdings", "tokenBalance"}
  BY <1>1, <1>2 DEF Serves
<1>5. Serves("addressAtBlock", m) <=> m = "balanceAtBlock"
  BY <1>1, <1>2 DEF Serves
<1>6. Serves("holdings", m) <=> m = "holdings"
  BY DEF Serves
<1>7. Serves("tokenBalance", m) <=> m = "tokenBalance"
  BY DEF Serves
<1> QED
  BY <1>3, <1>4, <1>5, <1>6, <1>7

\* The plans name something only if there are some.
LEMMA SampledNeedsPlans ==
    ASSUME NEW plans, NEW a \in Sampled(plans)
    PROVE  plans # <<>>
BY DEF Sampled

\* What the run's metrics call for is due in a pass that applies ...
LEMMA WantedIsDue ==
    ASSUME job \in Jobs, NEW s \in Wanted
    PROVE  \E p \in PassNames : PassApplies(p) /\ s \in Due(p)
<1>1. PICK i \in DOMAIN job.metrics : s \in Required(job.metrics[i])
  BY DEF Wanted
<1> DEFINE m == job.metrics[i]
<1>2. job.metrics \in Seq(Metrics)
  BY JobsAssumption DEF JobOK
<1>3. m \in ToSet(job.metrics) /\ m \in Metrics
  BY <1>2, ToSetIsFinite DEF ToSet
<1>4. \A p \in PassNames : Serves(p, m) => PassMetrics(p, job.metrics) # <<>>
  BY <1>2, <1>3, PassHasMetrics
<1>5. m \in {"hash", "trace", "balance", "holdings", "tokenBalance", "balanceAtBlock", "total"}
  BY <1>3 DEF Metrics, Category
<1>6. s \in Required(m)
  BY <1>1
<1> HIDE DEF m
<1>7. CASE m \in {"hash", "trace"}
  <2>1. Required(m) = {Subject("block", b, None, None) : b \in ToSet(blocks)}
    BY <1>7 DEF Required
  <2>2. s \in Due("block")
    BY <1>6, <2>1 DEF Due
  <2>3. PassApplies("block")
    BY <1>3, <1>4, <1>7, WhatPassesServe DEF PassApplies, PassNames
  <2> QED
    BY <2>2, <2>3 DEF PassNames
<1>8. CASE m = "balance"
  <2>1. PICK a \in Sampled(job.addressPlans) :
           job.addressSampler /\ s = Subject("address", None, a, None)
    BY <1>6, <1>8 DEF Required
  <2>2. s \in Due("address")
    BY <2>1 DEF Due
  <2>3. PassApplies("address")
    BY <1>3, <1>4, <1>8, <2>1, WhatPassesServe, SampledNeedsPlans DEF PassApplies, PassNames
  <2> QED
    BY <2>2, <2>3 DEF PassNames
<1>9. CASE m = "balanceAtBlock"
  <2>1. PICK b \in ToSet(blocks), a \in Sampled(job.addressPlans) :
           job.addressSampler /\ s = Subject("addressAtBlock", b, a, None)
    BY <1>6, <1>9 DEF Required
  <2>2. s \in Due("addressAtBlock")
    BY <2>1 DEF Due
  <2>3. blocks # <<>>
    BY <2>1, EmptyList
  <2>4. PassApplies("addressAtBlock")
    BY <1>3, <1>4, <1>9, <2>1, <2>3, WhatPassesServe, SampledNeedsPlans DEF PassApplies, PassNames
  <2> QED
    BY <2>2, <2>4 DEF PassNames
<1>10. CASE m = "holdings"
  <2>1. PICK a \in Sampled(job.addressPlans) :
           job.addressSampler /\ s = Subject("holdings", None, a, None)
    BY <1>6, <1>10 DEF Required
  <2>2. s \in Due("holdings")
    BY <2>1 DEF Due
  <2>3. PassApplies("holdings")
    BY <1>3, <1>4, <1>10, <2>1, WhatPassesServe, SampledNeedsPlans DEF PassApplies, PassNames
  <2> QED
    BY <2>2, <2>3 DEF PassNames
<1>11. CASE m = "tokenBalance"
  <2>1. PICK a \in Sampled(job.addressPlans), t \in Sampled(job.tokenPlans) :
           /\ job.addressSampler /\ job.tokenSampler
           /\ s = Subject("tokenBalance", None, a, t)
    BY <1>6, <1>11 DEF Required
  <2>2. s \in Due("tokenBalance")
    BY <2>1 DEF Due
  <2>3. PassApplies("tokenBalance")
    BY <1>3, <1>4, <1>11, <2>1, WhatPassesServe, SampledNeedsPlans DEF PassApplies, PassNames
  <2> QED
    BY <2>2, <2>3 DEF PassNames
<1>12. CASE m = "total"
  BY <1>6, <1>12 DEF Required
<1> QED
  BY <1>5, <1>7, <1>8, <1>9, <1>10, <1>11, <1>12

\* ... and what is due in a pass that applies is called for, the addresses
\* apart.
LEMMA DueIsWanted ==
    ASSUME job \in Jobs, NEW p \in PassNames, PassApplies(p), NEW s \in Due(p)
    PROVE  s \in Wanted \/ s.kind = "address"
<1>1. job.metrics \in Seq(Metrics)
  BY JobsAssumption DEF JobOK
<1>2. PICK m \in ToSet(job.metrics) : Serves(p, m)
  BY <1>1, PassHasMetrics DEF PassApplies
<1>3. m \in Metrics
  BY <1>1, ToSetIsFinite
<1>4. Required(m) \subseteq Wanted
  <2>1. PICK i \in DOMAIN job.metrics : m = job.metrics[i]
    BY DEF ToSet
  <2> QED
    BY <2>1 DEF Wanted
<1>5. CASE p = "block"
  <2>1. m \in {"hash", "trace"}
    BY <1>2, <1>3, <1>5, WhatPassesServe
  <2>2. Required(m) = {Subject("block", b, None, None) : b \in ToSet(blocks)}
    BY <2>1 DEF Required
  <2> QED
    BY <1>4, <1>5, <2>2 DEF Due
<1>6. CASE p = "address"
  BY <1>6, DueKind
<1>7. CASE p = "addressAtBlock"
  <2>1. m = "balanceAtBlock" /\ job.addressSampler
    BY <1>2, <1>3, <1>7, WhatPassesServe DEF PassApplies
  <2>2. Required(m) = {Subject("addressAtBlock", b, a, None) :
                         b \in ToSet(blocks), a \in Sampled(job.addressPlans)}
    BY <2>1 DEF Required
  <2> QED
    BY <1>4, <1>7, <2>2 DEF Due
<1>8. CASE p = "holdings"
  <2>1. m = "holdings" /\ job.addressSampler
    BY <1>2, <1>3, <1>8, WhatPassesServe DEF PassApplies
  <2>2. Required(m) = {Subject("holdings", None, a, None) : a \in Sampled(job.addressPlans)}
    BY <2>1 DEF Required
  <2> QED
    BY <1>4, <1>8, <2>2 DEF Due
<1>9. CASE p = "tokenBalance"
  <2>1. m = "tokenBalance" /\ job.addressSampler /\ job.tokenSampler
    BY <1>2, <1>3, <1>9, WhatPassesServe DEF PassApplies
  <2>2. Required(m) = {Subject("tokenBalance", None, a, t) :
                         a \in Sampled(job.addressPlans), t \in Sampled(job.tokenPlans)}
    BY <2>1 DEF Required
  <2> QED
    BY <1>4, <1>9, <2>2 DEF Due
<1> QED
  BY <1>5, <1>6, <1>7, <1>8, <1>9 DEF PassNames

\* What the walk says of a run that completed.
LEMMA WalkCoversTheRun == IInv => SummaryCoversTheRun
<1> SUFFICES ASSUME IInv, pc = "completed"
             PROVE  /\ Wanted \subseteq ToSet(summary.subjects)
                    /\ \A s \in ToSet(summary.subjects) : s \in Wanted \/ s.kind = "address"
                    /\ {h.subject : h \in heard} = ToSet(summary.subjects)
                    /\ IsInjective(blocks) => IsInjective(summary.subjects)
                    /\ Len(saved) <= summary.comparisons
  BY DEF SummaryCoversTheRun
<1>1. Typed /\ Walk /\ job \in Jobs
  BY DEF IInv, Typed
<1>2. ~Busy /\ ~Asked
  BY DEF Busy, Asked
<1>3. pass = 6 /\ summary.subjects = subjects /\ summary.comparisons = comparisons
  BY <1>1 DEF Walk, Position
<1>4. ASSUME NEW s \in Wanted PROVE s \in ToSet(subjects)
  <2>1. PICK p \in PassNames : PassApplies(p) /\ s \in Due(p)
    BY <1>1, <1>4, WantedIsDue
  <2>2. PICK q \in 1..5 : Passes[q] = p
    BY PassesListed
  <2>3. q < pass
    BY <1>3
  <2> QED
    BY <1>1, <2>1, <2>2, <2>3 DEF Walk, Covered
<1>5. ASSUME NEW s \in ToSet(subjects) PROVE s \in Wanted \/ s.kind = "address"
  <2>1. PICK q \in 1..5 : PassApplies(Passes[q]) /\ s \in Due(Passes[q])
    BY <1>1 DEF Walk, Justified
  <2> QED
    BY <1>1, <2>1, PassesListed, DueIsWanted
<1>6. {h.subject : h \in heard} = ToSet(subjects)
  BY <1>1, <1>2 DEF Walk, AskedAbout
<1>7. IsInjective(blocks) => IsInjective(subjects)
  BY <1>1 DEF Walk, Once
<1>8. Len(saved) <= comparisons
  BY <1>1, <1>2 DEF Walk, Counted, Typed
<1> QED
  BY <1>3, <1>4, <1>5, <1>6, <1>7, <1>8

\* What it says of the disagreements.
LEMMA WalkKeepsDisagreements == IInv => DisagreementsAreSaved
<1> SUFFICES ASSUME IInv, pc = "completed", NEW h \in heard, NEW m \in ToSet(job.metrics),
                    Dissent(h, m)
             PROVE  \E i \in DOMAIN saved : saved[i].metric = m /\ saved[i].subject = h.subject
  BY DEF DisagreementsAreSaved, Dissent
<1>1. Walk /\ ~Asked
  BY DEF IInv, Asked
<1> QED
  BY <1>1 DEF Walk, Noted

\* Every step of executeInner keeps the invariant of the passes.
LEMMA PassesInductive == Spec => []IInv
BY InitIInv, NextIInv, PTL DEF Spec

\* For every job: a discrepancy is only ever saved for a metric whose value the
\* fetch of the saved subject returns, although the metrics of one category come
\* from three calls and the ERC-20 extractors accept any metric.
THEOREM EveryValueFromItsFetch == Spec => []ValuesComeFromTheirFetch
<1>1. IInv => ValuesComeFromTheirFetch
  BY DEF IInv
<1> QED
  BY <1>1, PassesInductive, PTL

\* For every job: a run that completes has saved every disagreement between two
\* supporting sources that answered, whatever answers were lost in between.
THEOREM NoDisagreementIsLost == Spec => []DisagreementsAreSaved
BY WalkKeepsDisagreements, PassesInductive, PTL

\* For every job: a run that completes has asked its sources about exactly the
\* subjects its metrics, plans and sample call for (and the addresses of the
\* category's other metrics), each one once unless the sample repeats a block,
\* and its summary lists them.
THEOREM SummaryIsTheRun == Spec => []SummaryCoversTheRun
BY WalkCoversTheRun, PassesInductive, PTL
-----------------------------------------------------------------------------
(* The loops of the sampling strategies.                                   *)

\* A block number is its own remainder ...
LEMMA WrapSmall ==
    ASSUME NEW n \in BlockNumber
    PROVE  Wrap(n) = n
<1>1. Modulus \in Nat \ {0} /\ n \in Nat /\ n \in 0..(Modulus - 1)
  BY SamplingAssumption DEF BlockNumber
<1>2. n \div Modulus \in Int /\ n % Modulus \in 0..(Modulus - 1)
      /\ n = (n \div Modulus) * Modulus + (n % Modulus)
  BY <1>1, Division
<1>3. 0 * Modulus + n = n
  BY <1>1
<1>4. n % Modulus = n
  BY <1>1, <1>2, <1>3, DivisionIsUnique
<1> QED
  BY <1>4 DEF Wrap

\* ... and a number of twice the width wraps once.
LEMMA WrapOnce ==
    ASSUME NEW n \in Nat, n - Modulus \in BlockNumber
    PROVE  Wrap(n) = n - Modulus
<1>1. Modulus \in Nat \ {0} /\ n - Modulus \in 0..(Modulus - 1)
  BY SamplingAssumption DEF BlockNumber
<1>2. n \div Modulus \in Int /\ n % Modulus \in 0..(Modulus - 1)
      /\ n = (n \div Modulus) * Modulus + (n % Modulus)
  BY <1>1, Division
<1>3. 1 * Modulus + (n - Modulus) = n
  BY <1>1
<1>4. n % Modulus = n - Modulus
  BY <1>1, <1>2, <1>3, DivisionIsUnique
<1> QED
  BY <1>4 DEF Wrap

\* The j-th block of a walk from lo by steps of d.
Nth(lo, d, j) == lo + (j - 1) * d

\* The walk in steps: it increases, and visits the multiples of the step.
LEMMA NthProperties ==
    ASSUME NEW lo \in Nat, NEW d \in Nat \ {0}
    PROVE  /\ Nth(lo, d, 1) = lo
           /\ \A j \in Nat : /\ Nth(lo, d, j) \in Int
                             /\ Nth(lo, d, j + 1) = Nth(lo, d, j) + d
           /\ \A i, j \in Nat : i < j => Nth(lo, d, i) < Nth(lo, d, j)
           /\ \A j \in Nat \ {0} : Nth(lo, d, j) >= lo /\ (Nth(lo, d, j) - lo) % d = 0
           /\ \A b \in Nat : (b >= lo /\ (b - lo) % d = 0) =>
                               \E j \in Nat \ {0} : b = Nth(lo, d, j)
<1>1. Nth(lo, d, 1) = lo
  BY DEF Nth
<1>2. ASSUME NEW j \in Nat
      PROVE  Nth(lo, d, j) \in Int /\ Nth(lo, d, j + 1) = Nth(lo, d, j) + d
  <2>1. (j - 1) * d \in Int
    OBVIOUS
  <2>2. j + 1 - 1 = j /\ j * d = (j - 1) * d + d
    OBVIOUS
  <2> QED
    BY <2>1, <2>2 DEF Nth
<1>3. ASSUME NEW i \in Nat, NEW j \in Nat, i < j
      PROVE  Nth(lo, d, i) < Nth(lo, d, j)
  <2>1. i * d <= (j - 1) * d
    BY <1>3, TimesMonotone
  <2>2. i * d = (i - 1) * d + d
    OBVIOUS
  <2>3. (i - 1) * d \in Int /\ (j - 1) * d \in Int /\ i * d \in Int
    OBVIOUS
  <2> QED
    BY <2>1, <2>2, <2>3 DEF Nth
<1>4. ASSUME NEW j \in Nat \ {0}
      PROVE  Nth(lo, d, j) >= lo /\ (Nth(lo, d, j) - lo) % d = 0
  <2> DEFINE x == (j - 1) * d
  <2>1. 0 * d <= x
    BY TimesMonotone
  <2>2. x \in Nat
    BY <2>1
  <2>3. x \div d \in Int /\ x % d \in 0..(d - 1) /\ x = (x \div d) * d + (x % d)
    BY <2>2, Division
  <2>4. (j - 1) * d + 0 = x
    BY <2>2
  <2>5. x % d = 0
    <3> DEFINE q == x \div d
               r == x % d
               c == j - 1
    <3>1. c * d + 0 = q * d + r
      BY <2>3, <2>4
    <3>2. c \in Int /\ 0 \in 0..(d - 1) /\ q \in Int /\ r \in 0..(d - 1)
      BY <2>3
    <3> HIDE DEF q, r, c
    <3>3. c = q /\ 0 = r
      BY <3>1, <3>2, DivisionIsUnique
    <3> QED
      BY <3>3 DEF r
  <2>6. Nth(lo, d, j) = lo + x
    BY DEF Nth
  <2> HIDE DEF x
  <2>7. Nth(lo, d, j) - lo = x /\ Nth(lo, d, j) >= lo
    BY <2>2, <2>6
  <2> QED
    BY <2>5, <2>7
<1>5. ASSUME NEW b \in Nat, b >= lo, (b - lo) % d = 0
      PROVE  \E j \in Nat \ {0} : b = Nth(lo, d, j)
  <2> DEFINE q == (b - lo) \div d
  <2>1. b - lo \in Nat
    BY <1>5
  <2>2. q \in Nat /\ b - lo = q * d + ((b - lo) % d)
    BY <2>1, Division
  <2>3. q * d \in Int
    BY <2>2
  <2> HIDE DEF q
  <2>4. b - lo = q * d
    BY <1>5, <2>2, <2>3
  <2>5. b = lo + q * d
    BY <2>3, <2>4
  <2>6. q + 1 \in Nat \ {0} /\ (q + 1) - 1 = q
    BY <2>2
  <2>7. b = Nth(lo, d, q + 1)
    BY <2>5, <2>6 DEF Nth
  <2> QED
    BY <2>6, <2>7
<1> QED
  BY <1>1, <1>2, <1>3, <1>4, <1>5

\* bs lists the first blocks of the walk, none of them beyond the last.
Walked(lo, d, last, bs) == \A j \in 1..Len(bs) : bs[j] = Nth(lo, d, j) /\ bs[j] <= last

\* A walk that has passed its last block has visited, in order, every step up
\* to it.
LEMMA WalkedBlocks ==
    ASSUME NEW lo \in Nat, NEW last \in Nat, NEW d \in Nat \ {0}, NEW bs \in Seq(Nat),
           Walked(lo, d, last, bs), Nth(lo, d, Len(bs) + 1) > last
    PROVE  /\ \A i \in 1..(Len(bs) - 1) : bs[i] < bs[i + 1]
           /\ ToSet(bs) = {b \in lo..last : (b - lo) % d = 0}
<1> USE DEF Walked
<1>1. Len(bs) \in Nat /\ DOMAIN bs = 1..Len(bs)
  BY LenProperties
<1>2. \A j \in 1..Len(bs) : bs[j] \in Nat
  BY ElementOfSeq
<1>3. ASSUME NEW i \in 1..(Len(bs) - 1) PROVE bs[i] < bs[i + 1]
  <2>1. i \in Nat /\ i + 1 \in Nat /\ i < i + 1 /\ i \in 1..Len(bs) /\ i + 1 \in 1..Len(bs)
    BY <1>1
  <2>2. bs[i] = Nth(lo, d, i) /\ bs[i + 1] = Nth(lo, d, i + 1)
    BY <2>1
  <2>3. Nth(lo, d, i) < Nth(lo, d, i + 1)
    BY <2>1, NthProperties
  <2> QED
    BY <2>2, <2>3
<1>4. ASSUME NEW b \in ToSet(bs) PROVE b \in lo..last /\ (b - lo) % d = 0
  <2>1. PICK j \in 1..Len(bs) : b = bs[j]
    BY <1>1 DEF ToSet
  <2>2. b = Nth(lo, d, j) /\ b <= last /\ b \in Nat /\ j \in Nat \ {0}
    BY <1>1, <1>2, <2>1
  <2>3. b >= lo /\ (b - lo) % d = 0
    BY <2>2, NthProperties
  <2> QED
    BY <2>2, <2>3
<1>5. ASSUME NEW b \in lo..last, (b - lo) % d = 0 PROVE b \in ToSet(bs)
  <2>1. b \in Nat /\ b >= lo /\ b <= last
    OBVIOUS
  <2>2. PICK j \in Nat \ {0} : b = Nth(lo, d, j)
    BY <1>5, <2>1, NthProperties
  <2>3. ~(Len(bs) + 1 < j) /\ j # Len(bs) + 1
    <3>1. ASSUME Len(bs) + 1 < j PROVE FALSE
      <4>1. Nth(lo, d, Len(bs) + 1) < Nth(lo, d, j) /\ Nth(lo, d, Len(bs) + 1) \in Int
        BY <1>1, <3>1, NthProperties
      <4> QED
        BY <2>1, <2>2, <4>1
    <3>2. ASSUME j = Len(bs) + 1 PROVE FALSE
      BY <2>1, <2>2, <3>2
    <3> QED
      BY <3>1, <3>2
  <2>4. j \in 1..Len(bs)
    BY <1>1, <2>3
  <2>5. b = bs[j]
    BY <2>2, <2>4
  <2> QED
    BY <1>1, <2>4, <2>5 DEF ToSet
<1> QED
  BY <1>3, <1>4, <1>5

Stride(st) == IF st.kind = "sparse_steps" THEN st.n ELSE 1

\* The loop can stop: it does not have to pass the largest block number, or it
\* notices that it wrapped.
Stops(st, last) == st.kind = "sparse_steps" \/ last # MaxBlock

\* The end of an iteration, in plain integers.
LEMMA LoopNextPlain ==
    ASSUME job \in Jobs, ~NoLoop(job.strategy), cursor \in BlockNumber,
           NEW last \in BlockNumber, cursor <= last
    PROVE  LET next == LoopNext(job.strategy, cursor, last)
               d == Stride(job.strategy)
           IN  /\ d \in Nat \ {0}
               /\ Stops(job.strategy, last) =>
                    /\ next.done <=> cursor + d > last
                    /\ ~next.done => next.block = cursor + d
               /\ ~Stops(job.strategy, last) => ~next.done
<1> DEFINE st == job.strategy
           d == Stride(st)
           next == LoopNext(st, cursor, last)
<1>1. /\ Modulus \in Nat \ {0} /\ cursor \in 0..(Modulus - 1) /\ last \in 0..(Modulus - 1)
      /\ MaxBlock = Modulus - 1
  BY SamplingAssumption DEF BlockNumber, MaxBlock
<1>2. st.n \in Nat \ {0} /\ (st.kind = "sparse_steps" => st.n \in BlockNumber)
  BY StrategyType DEF NoLoop, WellFormed
<1>3. d \in Nat \ {0}
  BY <1>2 DEF Stride
<1>4. CASE st.kind = "sparse_steps"
  <2> DEFINE w == Wrap(cursor + st.n)
  <2>1. next = [block |-> w, done |-> w < cursor \/ w > last] /\ d = st.n /\ Stops(st, last)
    BY <1>4 DEF LoopNext, Stride, Stops
  <2>2. next.block = w /\ (next.done <=> (w < cursor \/ w > last))
    <3> HIDE DEF w, next
    <3> QED
      BY <2>1, Zenon
  <2>3. st.n \in 1..(Modulus - 1)
    BY <1>1, <1>2, <1>4 DEF BlockNumber
  <2>4. CASE cursor + st.n < Modulus
    <3>1. w = cursor + st.n
      <4>1. cursor + st.n \in BlockNumber
        BY <1>1, <2>3, <2>4 DEF BlockNumber
      <4> QED
        BY <4>1, WrapSmall
    <3> HIDE DEF w, next
    <3>2. next.done <=> cursor + st.n > last
      BY <1>1, <2>2, <2>3, <3>1
    <3> QED
      BY <1>3, <2>1, <2>2, <3>1, <3>2 DEF next
  <2>5. CASE ~(cursor + st.n < Modulus)
    <3>1. w = (cursor + st.n) - Modulus
      <4> DEFINE x == cursor + st.n
      <4>1. x \in Nat /\ x - Modulus \in BlockNumber
        BY <1>1, <2>3, <2>5 DEF BlockNumber
      <4> HIDE DEF x
      <4>2. Wrap(x) = x - Modulus
        BY <4>1, WrapOnce
      <4> QED
        BY <4>2 DEF x
    <3> HIDE DEF w, next
    <3>2. next.done /\ cursor + st.n > last
      BY <1>1, <2>2, <2>3, <2>5, <3>1
    <3> QED
      BY <1>3, <2>1, <2>2, <3>2 DEF next
  <2> QED
    BY <2>4, <2>5
<1>5. CASE st.kind # "sparse_steps"
  <2> DEFINE w == Wrap(cursor + 1)
  <2>1. next = [block |-> w, done |-> w > last] /\ d = 1 /\ (Stops(st, last) <=> last # MaxBlock)
    BY <1>5 DEF LoopNext, Stride, Stops
  <2>2. next.block = w /\ (next.done <=> w > last)
    <3> HIDE DEF w, next
    <3> QED
      BY <2>1, Zenon
  <2>3. CASE last # MaxBlock
    <3>1. w = cursor + 1
      <4>1. cursor + 1 \in BlockNumber
        BY <1>1, <2>3 DEF BlockNumber
      <4> QED
        BY <4>1, WrapSmall
    <3> QED
      BY <1>3, <2>1, <2>2, <2>3, <3>1
  <2>4. CASE last = MaxBlock
    <3>1. w \in BlockNumber
      <4>1. cursor + 1 \in Int
        BY <1>1
      <4> QED
        BY <4>1, WrapType
    <3>2. ~(w > last)
      BY <1>1, <2>4, <3>1 DEF BlockNumber
    <3> QED
      BY <1>3, <2>1, <2>2, <2>4, <3>2
  <2> QED
    BY <2>3, <2>4
<1> QED
  BY <1>4, <1>5

\* Where a loop that can stop begins and ends, in plain integers.
LEMMA LoopLimits ==
    ASSUME job \in Jobs, ~NoLoop(job.strategy)
    PROVE  LET st == job.strategy
               lo == LoopStart(st, job.tip)
               last == LoopLast(st, job.tip)
           IN  /\ lo \in Nat /\ last \in BlockNumber
               /\ Stops(st, last) => lo <= last
               /\ (Stops(st, last) /\ st.kind = "latest_n") =>
                    lo..last = {b \in 0..job.tip : b > job.tip - st.n}
<1> DEFINE st == job.strategy
           lo == LoopStart(st, job.tip)
           last == LoopLast(st, job.tip)
           top == job.tip
<1>1. /\ Modulus \in Nat \ {0} /\ MaxBlock = Modulus - 1 /\ top \in 0..(Modulus - 1)
      /\ st.start \in 0..(Modulus - 1) /\ st.end \in 0..(Modulus - 1) /\ st.start <= st.end
      /\ st.n \in Nat \ {0}
  BY SamplingAssumption, StrategyType DEF BlockNumber, MaxBlock, NoLoop, WellFormed
<1>2. lo \in Nat /\ last \in BlockNumber
  <2>1. 0 \in BlockNumber
    BY <1>1 DEF BlockNumber
  <2>2. lo \in BlockNumber
    <3>2. \A n \in Int : Wrap(n) \in BlockNumber /\ Wrap(n) \in Int
      BY WrapType, BlockIsNat
    <3>3. top + 1 \in Int
      BY <1>1
    <3>4. LatestCount(st.n, top) \in Int
      BY <1>1, <3>2, <3>3 DEF LatestCount
    <3>5. top - LatestCount(st.n, top) + 1 \in Int
      BY <1>1, <3>4
    <3>6. Wrap(top - LatestCount(st.n, top) + 1) \in BlockNumber
      BY <3>2, <3>5
    <3>7. st.start \in BlockNumber
      BY StrategyType
    <3> QED
      BY <3>6, <3>7 DEF LoopStart
  <2>3. last \in BlockNumber
    BY StrategyType DEF LoopLast
  <2> QED
    BY <2>2, <2>3, BlockIsNat
<1>3. CASE st.kind # "latest_n"
  <2>1. lo = st.start /\ last = st.end
    BY <1>3 DEF LoopStart, LoopLast
  <2> QED
    BY <1>1, <1>2, <1>3, <2>1
<1>4. CASE st.kind = "latest_n"
  <2>1. last = top
    BY <1>4 DEF LoopLast
  <2>2. ASSUME Stops(st, last)
        PROVE  lo <= last /\ lo..last = {b \in 0..top : b > top - st.n}
    <3>1. top # MaxBlock
      BY <1>4, <2>1, <2>2 DEF Stops
    <3>2. top + 1 \in BlockNumber
      BY <1>1, <3>1 DEF BlockNumber
    <3>3. Wrap(top + 1) = top + 1
      BY <3>2, WrapSmall
    <3> DEFINE n == LatestCount(st.n, top)
    <3>4. n = IF st.n > top + 1 THEN top + 1 ELSE st.n
      BY <3>3 DEF LatestCount
    <3> HIDE DEF n
    <3>5. n \in 1..(top + 1)
      BY <1>1, <3>4
    <3>6. top - n + 1 \in BlockNumber
      BY <1>1, <3>5 DEF BlockNumber
    <3>7. lo = top - n + 1
      BY <1>4, <3>6, WrapSmall DEF LoopStart, n
    <3> HIDE DEF lo, last
    <3>8. lo <= last
      BY <1>1, <2>1, <3>5, <3>7
    <3>9. ASSUME NEW b \in Int PROVE (b \in lo..last) <=> (b \in 0..top /\ b > top - st.n)
      BY <1>1, <2>1, <3>4, <3>5, <3>7
    <3>10. lo \in Int /\ last \in Int
      BY <1>1, <2>1, <3>5, <3>7
    <3>11. \A b \in lo..last : b \in Int
      BY <3>10
    <3>12. \A b \in 0..top : b \in Int
      BY <1>1
    <3>13. lo..last = {b \in 0..top : b > top - st.n}
      BY <3>9, <3>11, <3>12
    <3> QED
      BY <3>8, <3>13
  <2> QED
    BY <1>2, <2>2
<1> QED
  BY <1>3, <1>4

\* The length of a range that BlockRange.Len can represent.
LEMMA RangeLenPlain ==
    ASSUME job \in Jobs, RangeLen(job.strategy) # 0
    PROVE  LET all == job.strategy.start..job.strategy.end
           IN  Cardinality(all) = RangeLen(job.strategy) /\ Cardinality(all) \in Nat \ {0}
<1> DEFINE a == job.strategy.start
           z == job.strategy.end
<1>1. Modulus \in Nat \ {0} /\ a \in 0..(Modulus - 1) /\ z \in 0..(Modulus - 1) /\ a <= z
  BY SamplingAssumption, StrategyType DEF BlockNumber, WellFormed
<1>2. RangeLen(job.strategy) = Wrap(z - a + 1)
  BY DEF RangeLen
<1> HIDE DEF a, z
<1>3. Cardinality(a..z) = z - a + 1
  BY <1>1, FS_Interval
<1> DEFINE n == z - a + 1
<1>4. n \in 1..Modulus
  BY <1>1
<1> HIDE DEF n
<1>5. n # Modulus
  <2> SUFFICES ASSUME n = Modulus PROVE FALSE
    OBVIOUS
  <2>1. n \in Nat /\ n - Modulus \in BlockNumber
    BY <1>1, <1>4 DEF BlockNumber
  <2>2. Wrap(n) = 0
    BY <1>1, <2>1, WrapOnce
  <2> QED
    BY <1>2, <2>2 DEF n
<1>6. n \in BlockNumber
  BY <1>1, <1>4, <1>5 DEF BlockNumber
<1>7. Wrap(n) = n
  BY <1>6, WrapSmall
<1>8. Cardinality(a..z) = n /\ RangeLen(job.strategy) = n /\ n \in Nat \ {0}
  BY <1>1, <1>2, <1>3, <1>4, <1>7 DEF n
<1> QED
  BY <1>8 DEF a, z

\* A loop that has passed its last block has sampled what the strategy says.
LEMMA LoopIsSample ==
    ASSUME job \in Jobs, ~NoLoop(job.strategy),
           Stops(job.strategy, LoopLast(job.strategy, job.tip)),
           NEW bs \in Seq(BlockNumber),
           Walked(LoopStart(job.strategy, job.tip), Stride(job.strategy),
                  LoopLast(job.strategy, job.tip), bs),
           Nth(LoopStart(job.strategy, job.tip), Stride(job.strategy), Len(bs) + 1)
               > LoopLast(job.strategy, job.tip)
    PROVE  IsSample(job.strategy, job.tip, bs)
<1> DEFINE st == job.strategy
           lo == LoopStart(st, job.tip)
           last == LoopLast(st, job.tip)
           d == Stride(st)
<1>1. /\ lo \in Nat /\ last \in BlockNumber /\ lo <= last
      /\ st.kind = "latest_n" => lo..last = {b \in 0..job.tip : b > job.tip - st.n}
  BY LoopLimits
<1>2. last \in Nat
  BY <1>1, BlockIsNat
<1>3. st.kind \in Kinds /\ st.n \in Nat \ {0} /\ st.kind # "fixed_list"
  BY StrategyType DEF NoLoop
<1>4. d \in Nat \ {0}
  BY <1>3 DEF Stride
<1>5. bs \in Seq(Nat)
  <2>1. BlockNumber \in SUBSET Nat
    BY BlockIsNat
  <2> QED
    BY <2>1, SeqMonotonic
<1>6. /\ \A i \in 1..(Len(bs) - 1) : bs[i] < bs[i + 1]
      /\ ToSet(bs) = {b \in lo..last : (b - lo) % d = 0}
  <2>1. Walked(lo, d, last, bs) /\ Nth(lo, d, Len(bs) + 1) > last
    OBVIOUS
  <2> HIDE DEF lo, last, d
  <2> QED
    BY <1>1, <1>2, <1>4, <1>5, <2>1, WalkedBlocks
<1>7. CASE st.kind = "sparse_steps"
  <2>1. lo = st.start /\ last = st.end /\ d = st.n
    BY <1>7 DEF LoopStart, LoopLast, Stride
  <2> QED
    BY <1>3, <1>6, <1>7, <2>1 DEF IsSample
<1>8. ASSUME st.kind # "sparse_steps" PROVE ToSet(bs) = lo..last
  <2>1. d = 1
    BY <1>8 DEF Stride
  <2> HIDE DEF d, lo, last
  <2>2. \A b \in lo..last : (b - lo) % 1 = 0
    BY <1>1, <1>2
  <2> QED
    BY <1>6, <2>1, <2>2
<1>9. CASE st.kind = "latest_n"
  <2>1. ToSet(bs) = {b \in 0..job.tip : b > job.tip - st.n}
    BY <1>1, <1>8, <1>9
  <2> QED
    BY <1>6, <1>9, <2>1 DEF IsSample
<1>10. CASE st.kind = "random"
  <2>1. lo = st.start /\ last = st.end
    BY <1>10 DEF LoopStart, LoopLast
  <2>2. RangeLen(st) # 0 /\ ~(st.n < RangeLen(st))
    BY <1>10 DEF NoLoop
  <2>3. ~(st.n < Cardinality(st.start..st.end))
    BY <2>2, RangeLenPlain
  <2>4. ToSet(bs) = st.start..st.end
    BY <1>8, <1>10, <2>1
  <2> QED
    BY <1>6, <1>10, <2>3, <2>4 DEF IsSample
<1> QED
  BY <1>3, <1>7, <1>9, <1>10 DEF Kinds

\* What is sampled at once is what the strategy says.
LEMMA AtOnceIsSample ==
    ASSUME job \in Jobs, NoLoop(job.strategy), ~WholeRange(job.strategy),
           NEW bs \in AtOnce(job.strategy)
    PROVE  IsSample(job.strategy, job.tip, bs)
<1> DEFINE st == job.strategy
           all == st.start..st.end
<1>1. st.kind \in Kinds /\ st.n \in Nat /\ job.tip \in Nat
  BY StrategyType, BlockIsNat
<1>2. CASE st.kind = "fixed_list"
  BY <1>2 DEF AtOnce, IsSample
<1>3. CASE st.kind # "fixed_list" /\ st.n = 0
  <2>1. bs = <<>>
    BY <1>3 DEF AtOnce
  <2>2. /\ ToSet(bs) = {} /\ Cardinality(ToSet(bs)) = 0
        /\ \A i \in 1..(Len(bs) - 1) : bs[i] < bs[i + 1]
    <3>1. ToSet(bs) = {} /\ Len(bs) = 0
      BY <2>1, EmptyList
    <3>2. Cardinality({}) = 0
      BY FS_EmptySet
    <3> QED
      BY <3>1, <3>2
  <2>3. CASE st.kind = "latest_n"
    <3>1. {b \in 0..job.tip : b > job.tip - st.n} = {}
      BY <1>1, <1>3
    <3> QED
      BY <2>2, <2>3, <3>1 DEF IsSample
  <2>4. CASE st.kind = "random"
    <3>1. RangeLen(st) # 0
      BY <2>4 DEF WholeRange
    <3>2. Cardinality(all) \in Nat \ {0}
      BY <3>1, RangeLenPlain
    <3>3. 0 = IF st.n < Cardinality(all) THEN st.n ELSE Cardinality(all)
      BY <1>3, <3>2
    <3> QED
      BY <2>2, <2>4, <3>3 DEF IsSample
  <2>5. CASE st.kind = "sparse_steps"
    BY <1>3, <2>2, <2>5 DEF IsSample
  <2> QED
    BY <1>1, <1>3, <2>3, <2>4, <2>5 DEF Kinds
<1>4. CASE st.kind # "fixed_list" /\ st.n # 0
  <2>1. st.kind = "random" /\ RangeLen(st) # 0 /\ st.n < RangeLen(st)
    BY <1>4 DEF NoLoop, WholeRange
  <2>2. PICK S \in SUBSET all : Cardinality(S) = st.n /\ bs = Ascending(S)
    BY <1>4, <2>1 DEF AtOnce, Drawn
  <2>3. st.start \in Int /\ st.end \in Int
    BY StrategyType, BlockIsNat
  <2>4. IsFiniteSet(all)
    BY <2>3, FS_Interval
  <2>5. IsFiniteSet(S)
    BY <2>4, FS_Subset
  <2>6. S \in SUBSET Int
    BY <2>3
  <2>7. /\ Len(bs) = st.n /\ ToSet(bs) = S
        /\ \A p, q \in 1..st.n : p < q => bs[p] < bs[q]
    BY <2>2, <2>5, <2>6, AscendingSorts
  <2>8. \A i \in 1..(Len(bs) - 1) : bs[i] < bs[i + 1]
    <3> SUFFICES ASSUME NEW i \in 1..(Len(bs) - 1) PROVE bs[i] < bs[i + 1]
      OBVIOUS
    <3>1. i \in 1..st.n /\ i + 1 \in 1..st.n /\ i < i + 1
      BY <1>1, <2>7
    <3> QED
      BY <2>7, <3>1
  <2>9. st.n < Cardinality(all)
    BY <2>1, RangeLenPlain
  <2> QED
    BY <2>1, <2>2, <2>7, <2>8, <2>9 DEF IsSample
<1> QED
  BY <1>2, <1>3, <1>4

\* The sample is complete.
Settled == Busy \/ pc \in {"pass", "completed"}

\* The loop of the strategy, while it can stop, is on its way.
Progress ==
    LET lo == LoopStart(job.strategy, job.tip)
        last == LoopLast(job.strategy, job.tip)
        d == Stride(job.strategy)
    IN  /\ Walked(lo, d, last, blocks)
        /\ cursor = Nth(lo, d, Len(blocks) + 1) /\ cursor <= last

SInv ==
    /\ pc \in {"forChain", "finalized", "tip"} => blocks = <<>>
    /\ (pc = "sample" \/ Settled) => tip = job.tip
    /\ (/\ pc = "sample" /\ ~NoLoop(job.strategy)
        /\ Stops(job.strategy, LoopLast(job.strategy, job.tip))) => Progress
    /\ (Settled /\ ~WholeRange(job.strategy)) => IsSample(job.strategy, tip, blocks)

\* The loop begins.
LEMMA TipSInv ==
    ASSUME Typed, SInv, Tip
    PROVE  SInv'
<1>1. /\ pc = "tip" /\ pc' = "sample" /\ tip' = job.tip /\ job' = job /\ job \in Jobs
      /\ cursor' = LoopStart(job.strategy, job.tip) /\ blocks' = blocks /\ blocks = <<>>
  BY DEF Tip, Typed, SInv
<1>2. ~Settled'
  BY <1>1 DEF Settled, Busy
<1> DEFINE lo == LoopStart(job.strategy, job.tip)
           last == LoopLast(job.strategy, job.tip)
           d == Stride(job.strategy)
<1>3. ASSUME ~NoLoop(job.strategy), Stops(job.strategy, last)
      PROVE  Walked(lo, d, last, blocks') /\ cursor' = Nth(lo, d, Len(blocks') + 1) /\ cursor' <= last
  <2>1. lo \in Nat /\ lo <= last
    BY <1>1, <1>3, LoopLimits
  <2>2. d \in Nat \ {0}
    BY <1>1, <1>3, StrategyType DEF Stride, NoLoop
  <2>3. Len(blocks') = 0
    BY <1>1
  <2>4. Nth(lo, d, 1) = lo
    <3> HIDE DEF lo, d
    <3> QED
      BY <2>1, <2>2, NthProperties
  <2> HIDE DEF lo, d, last
  <2>5. Walked(lo, d, last, blocks')
    BY <2>3 DEF Walked
  <2>6. cursor' = lo
    BY <1>1 DEF lo
  <2> QED
    BY <2>1, <2>3, <2>4, <2>5, <2>6
<1>4. (~NoLoop(job.strategy) /\ Stops(job.strategy, last)) => Progress'
  BY <1>1, <1>3 DEF Progress
<1> QED
  BY <1>1, <1>2, <1>4 DEF SInv

\* One iteration of the loop.
LEMMA LoopSInv ==
    ASSUME Typed, Typed', SInv, SampleNext
    PROVE  SInv'
<1> DEFINE st == job.strategy
           lo == LoopStart(job.strategy, job.tip)
           last == LoopLast(job.strategy, job.tip)
           d == Stride(job.strategy)
           next == LoopNext(job.strategy, cursor, last)
<1>1. /\ pc = "sample" /\ ~NoLoop(st) /\ tip = job.tip /\ UNCHANGED <<job, tip>>
      /\ job \in Jobs /\ cursor \in BlockNumber /\ blocks \in Seq(BlockNumber)
      /\ blocks' = Append(blocks, cursor) /\ blocks' \in Seq(BlockNumber)
  BY DEF SampleNext, Typed, SInv
<1>2. cursor' = next.block /\ (pc' = IF next.done THEN "pass" ELSE "sample")
  BY <1>1 DEF SampleNext
<1>3. lo \in Nat /\ last \in BlockNumber
  BY <1>1, LoopLimits
<1>4. /\ Len(blocks) \in Nat /\ Len(blocks') = Len(blocks) + 1
      /\ \A j \in 1..Len(blocks) : blocks'[j] = blocks[j]
      /\ blocks'[Len(blocks) + 1] = cursor
  BY <1>1, AppendProperties, LenProperties
<1>5. CASE Stops(st, last)
  <2>1. Walked(lo, d, last, blocks) /\ cursor = Nth(lo, d, Len(blocks) + 1) /\ cursor <= last
    BY <1>1, <1>5 DEF SInv, Progress
  <2>2. /\ d \in Nat \ {0}
        /\ next.done <=> cursor + d > last
        /\ ~next.done => next.block = cursor + d
    BY <1>1, <1>3, <1>5, <2>1, LoopNextPlain
  <2> HIDE DEF lo, last, d, next
  <2>3. Walked(lo, d, last, blocks')
    <3> SUFFICES ASSUME NEW j \in 1..Len(blocks')
                 PROVE  blocks'[j] = Nth(lo, d, j) /\ blocks'[j] <= last
      BY DEF Walked
    <3>1. CASE j \in 1..Len(blocks)
      BY <1>4, <2>1, <3>1 DEF Walked
    <3>2. CASE j = Len(blocks) + 1
      BY <1>4, <2>1, <3>2
    <3> QED
      BY <1>4, <3>1, <3>2
  <2>4. Nth(lo, d, Len(blocks') + 1) = cursor + d
    <3>1. Len(blocks) + 1 \in Nat
      BY <1>4
    <3>2. Nth(lo, d, (Len(blocks) + 1) + 1) = Nth(lo, d, Len(blocks) + 1) + d
      BY <1>3, <2>2, <3>1, NthProperties
    <3> QED
      BY <1>4, <2>1, <3>2
  <2>5. CASE next.done
    <3>1. pc' = "pass"
      BY <1>2, <2>5
    <3>2. Nth(lo, d, Len(blocks') + 1) > last
      BY <2>2, <2>4, <2>5
    <3>3. IsSample(st, job.tip, blocks')
      BY <1>1, <1>5, <2>3, <3>2, LoopIsSample DEF lo, last, d
    <3> QED
      BY <1>1, <3>1, <3>3 DEF SInv
  <2>6. CASE ~next.done
    <3>1. pc' = "sample" /\ cursor' = cursor + d
      BY <1>2, <2>2, <2>6
    <3>2. cursor' <= last
      <4>1. cursor \in Int /\ last \in Int /\ d \in Int
        BY <1>1, <1>3, <2>2, BlockIsNat
      <4> QED
        BY <2>2, <2>6, <3>1, <4>1
    <3>3. Progress'
      BY <1>1, <2>3, <2>4, <3>1, <3>2 DEF Progress, lo, last, d
    <3>4. ~Settled'
      BY <3>1 DEF Settled, Busy
    <3> QED
      BY <1>1, <3>1, <3>3, <3>4 DEF SInv
  <2> QED
    BY <2>5, <2>6
<1>6. CASE ~Stops(st, last)
  <2>1. cursor <= last
    BY <1>1, <1>6, SamplingAssumption DEF Stops, MaxBlock, BlockNumber
  <2>2. ~next.done
    BY <1>1, <1>3, <1>6, <2>1, LoopNextPlain
  <2>3. pc' = "sample"
    BY <1>2, <2>2
  <2>4. ~Settled'
    BY <2>3 DEF Settled, Busy
  <2> QED
    BY <1>1, <1>6, <2>3, <2>4 DEF SInv
<1> QED
  BY <1>5, <1>6

\* After the sample is drawn no step touches it.
LEMMA SettledFrame ==
    ASSUME SInv, pc' = "failed" \/ (Settled /\ Settled'), UNCHANGED <<job, tip, blocks>>
    PROVE  SInv'
<1>1. CASE pc' = "failed"
  BY <1>1 DEF SInv, Settled, Busy
<1>2. CASE Settled /\ Settled'
  <2>1. pc' \notin {"forChain", "finalized", "tip", "sample"}
    BY <1>2 DEF Settled, Busy
  <2> QED
    BY <1>2, <2>1 DEF SInv
<1> QED
  BY <1>1, <1>2

\* Every step keeps what is known of the sample.
LEMMA NextSInv ==
    ASSUME Typed, Typed', SInv, [Next]_vars
    PROVE  SInv'
<1>1. CASE UNCHANGED vars
  BY <1>1 DEF vars, SInv, Progress, Settled, Busy
<1>2. CASE Expire
  BY <1>2 DEF Expire, SInv, Progress, Settled, Busy
<1>3. CASE Fail
  BY <1>3, SettledFrame DEF Fail
<1>4. CASE ForChain \/ Finalized
  <2>1. /\ pc \in {"forChain", "finalized"} /\ pc' \in {"finalized", "tip"}
        /\ UNCHANGED <<job, blocks>>
    BY <1>4 DEF ForChain, Finalized
  <2> QED
    BY <2>1 DEF SInv, Settled, Busy
<1>5. CASE Tip
  BY <1>5, TipSInv
<1>6. CASE SampleAtOnce
  <2>1. /\ pc = "sample" /\ NoLoop(job.strategy) /\ blocks' \in AtOnce(job.strategy)
        /\ pc' = "pass" /\ UNCHANGED <<job, tip>> /\ tip = job.tip /\ job \in Jobs
    BY <1>6 DEF SampleAtOnce, SInv, Typed
  <2>2. ~WholeRange(job.strategy) => IsSample(job.strategy, job.tip, blocks')
    BY <2>1, AtOnceIsSample
  <2> QED
    BY <2>1, <2>2 DEF SInv
<1>7. CASE SampleNext
  BY <1>7, LoopSInv
<1>8. CASE EnterPass \/ Fetch \/ Compare \/ Save \/ EndSubject \/ EndPass \/ RecordSummary
  <2>1. /\ pc \in {"pass", "loop", "compare", "save"}
        /\ pc' \in {"pass", "loop", "compare", "save", "completed"}
        /\ UNCHANGED <<job, tip, blocks>>
    BY <1>8 DEF EnterPass, Fetch, Compare, Save, EndSubject, EndPass, RecordSummary
  <2>2. Settled /\ Settled'
    BY <2>1 DEF Settled, Busy
  <2> QED
    BY <2>1, <2>2, SettledFrame
<1> QED
  BY <1>1, <1>2, <1>3, <1>4, <1>5, <1>6, <1>7, <1>8 DEF Next, Step

\* For every strategy, range, step and height of the chain: the blocks handed to
\* the passes are the ones the strategy documents, in order and without a gap,
\* with the arithmetic wrapping at the width of a block number; a loop that
\* would have to stop at the largest block number never hands them over.
THEOREM SamplesAreAsDocumented == Spec => []SampleIsAsDocumented
<1>1. Init => SInv
  BY DEF Init, SInv, Settled, Busy
<1>2. IInv /\ IInv' /\ SInv /\ [Next]_vars => SInv'
  BY NextSInv DEF IInv
<1>3. SInv => SampleIsAsDocumented
  BY DEF SInv, SampleIsAsDocumented, Settled
<1> QED
  BY <1>1, <1>2, <1>3, PassesInductive, PTL DEF Spec
=============================================================================
