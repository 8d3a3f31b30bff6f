--------------------------- MODULE ComparisonProofs ---------------------------
(***************************************************************************)
(* Proofs about Comparison, for every number of sources, width of block    *)
(* numbers, set of raw strings and set of pinned tolerances.               *)
(*                                                                         *)
(* The verdict on a sample is reached pair by pair; the loop invariant     *)
(* says what the pairs judged so far have shown (Reducing), and lemmas on  *)
(* the tolerances say what all the pairs say about the sample.  The best   *)
(* cluster is found cluster by cluster; Visiting says of which clusters it *)
(* is the best.                                                            *)
(***************************************************************************)
EXTENDS Comparison, FiniteSetTheorems, NaturalsInduction, TLAPS

-----------------------------------------------------------------------------
(* Least and greatest elements.                                            *)

\* Every set of naturals that is not empty has a least element.
LEMMA Least ==
    ASSUME NEW S \in SUBSET Nat, S # {}
    PROVE  \E n \in S : \A m \in S : n <= m
<1>1. PICK n \in S : \A m \in S : ~(<<m, n>> \in OpToRel(<, Nat))
  BY NatLessThanWellFounded, WFMin
<1>2. \A m \in S : ~(m < n)
  BY <1>1 DEF OpToRel
<1> QED
  BY <1>2

\* A least and a greatest element of a set of integers.
Lowest(S, v) == v \in S /\ \A w \in S : v <= w
Highest(S, v) == v \in S /\ \A w \in S : v >= w

\* A finite set of integers that is not empty has both: take the smallest set
\* that has not, without one of its elements.
LEMMA Extremes ==
    ASSUME NEW S \in SUBSET Int, IsFiniteSet(S), S # {}
    PROVE  (\E v : Lowest(S, v)) /\ (\E v : Highest(S, v))
<1> DEFINE Bad(T) == /\ T \in SUBSET Int /\ IsFiniteSet(T) /\ T # {}
                     /\ ~((\E v : Lowest(T, v)) /\ (\E v : Highest(T, v)))
           Sizes == {n \in Nat : \E T \in SUBSET Int : Bad(T) /\ Cardinality(T) = n}
<1> SUFFICES ASSUME Bad(S) PROVE FALSE
  OBVIOUS
<1>1. Cardinality(S) \in Sizes
  BY FS_CardinalityType
<1>2. PICK n \in Sizes : \A m \in Sizes : n <= m
  BY <1>1, Least
<1>3. PICK T \in SUBSET Int : Bad(T) /\ Cardinality(T) = n
  BY <1>2
<1>4. PICK x \in T : TRUE
  BY <1>3
<1>5. IsFiniteSet(T \ {x}) /\ Cardinality(T \ {x}) = n - 1 /\ n - 1 \in Nat
  <2>1. IsFiniteSet(T \ {x}) /\ Cardinality(T \ {x}) = Cardinality(T) - 1
    BY <1>3, <1>4, FS_RemoveElement
  <2>2. Cardinality(T \ {x}) \in Nat
    BY <2>1, FS_CardinalityType
  <2> QED
    BY <1>3, <2>1, <2>2
<1>6. ~Bad(T \ {x})
  BY <1>2, <1>5
<1>7. CASE T \ {x} = {}
  <2>1. Lowest(T, x) /\ Highest(T, x)
    BY <1>4, <1>7 DEF Lowest, Highest
  <2> QED
    BY <1>3, <2>1
<1>8. CASE T \ {x} # {}
  <2>1. PICK lo, hi : Lowest(T \ {x}, lo) /\ Highest(T \ {x}, hi)
    BY <1>3, <1>5, <1>6, <1>8
  <2>2. Lowest(T, IF x < lo THEN x ELSE lo)
    BY <1>3, <1>4, <2>1 DEF Lowest
  <2>3. Highest(T, IF x > hi THEN x ELSE hi)
    BY <1>3, <1>4, <2>1 DEF Highest
  <2> QED
    BY <1>3, <2>2, <2>3
<1> QED
  BY <1>7, <1>8
-----------------------------------------------------------------------------
(* The anchor window.                                                      *)

\* The unsigned bounds of AnchorWindowed admit exactly the blocks between the
\* integer bounds: the clamp at zero and the overflow guard lose nothing.
LEMMA WindowIsExact ==
    ASSUME NEW rb \in Block \cup {Nil}, NEW a \in Block, NEW back \in Block, NEW fwd \in Block
    PROVE  OutOfWindow(rb, a, back, fwd) <=> (rb # Nil /\ (rb < a - back \/ rb > a + fwd))
<1>1. Modulus \in Nat \ {0} /\ a \in 0..(Modulus - 1) /\ fwd \in 0..(Modulus - 1) /\ back \in Nat
  BY TolerancesAssumption DEF Block
<1>2. /\ a + fwd < Modulus => (a + fwd) % Modulus = a + fwd
      /\ a + fwd >= Modulus => (a + fwd) % Modulus = a + fwd - Modulus
  BY <1>1
<1>3. rb # Nil => rb \in 0..(Modulus - 1)
  BY DEF Block
<1>4. CASE a + fwd < Modulus
  <2>1. WindowHi(a, fwd) = a + fwd
    BY <1>1, <1>2, <1>4 DEF WindowHi
  <2> QED
    BY <1>1, <1>3, <2>1 DEF OutOfWindow, WindowLo
<1>5. CASE a + fwd >= Modulus
  <2>1. WindowHi(a, fwd) = Modulus - 1
    BY <1>1, <1>2, <1>5 DEF WindowHi
  <2> QED
    BY <1>1, <1>3, <1>5, <2>1 DEF OutOfWindow, WindowLo
<1> QED
  BY <1>1, <1>4, <1>5
-----------------------------------------------------------------------------
(* Numeric slack.                                                          *)

\* A relative slack of at most the whole, or no negative values.
Sensible(t) ==
    \/ t.relativePPM <= 1000000
    \/ \A r \in Raws : RawValue[r] = NotANumber \/ RawValue[r] >= 0

\* Multiplication by a natural keeps the order.
LEMMA ScaleKeepsOrder ==
    ASSUME NEW c \in Nat, NEW x \in Int, NEW y \in Int, x <= y
    PROVE  c * x <= c * y
OBVIOUS

\* What is relatively close at the ends of a range of naturals is so within it.
LEMMA RelativeWithin ==
    ASSUME NEW lo \in Nat, NEW hi \in Nat, NEW x \in Nat, NEW y \in Nat, NEW ppm \in Nat,
           lo <= x, x <= y, y <= hi, (hi - lo) * 1000000 <= hi * ppm
    PROVE  (y - x) * 1000000 <= y * ppm
<1>1. CASE ppm >= 1000000
  <2>1. y * 1000000 <= y * ppm
    BY <1>1, ScaleKeepsOrder
  <2> QED
    BY <2>1
<1>2. CASE ppm < 1000000
  <2> DEFINE c == 1000000 - ppm
  <2>1. c \in Nat
    BY <1>2
  <2>2. c * y <= c * hi
    BY <2>1, ScaleKeepsOrder
  <2>3. c * y = 1000000 * y - ppm * y /\ c * hi = 1000000 * hi - ppm * hi
    OBVIOUS
  <2>4. y * ppm \in Int /\ hi * ppm \in Int /\ y * ppm = ppm * y /\ hi * ppm = ppm * hi
    OBVIOUS
  <2> HIDE DEF c
  <2> QED
    BY <2>2, <2>3, <2>4
<1> QED
  BY <1>1, <1>2

\* The relative slack does not care for the order of two values, nor for the
\* sign both have.
Relative(x, y, ppm) == Abs(x - y) * 1000000 <= Larger(Abs(x), Abs(y)) * ppm

\* What the relative slack accepts at the ends of a range it accepts within it,
\* unless values of both signs meet a slack of more than the whole.
LEMMA RelativeBetween ==
    ASSUME NEW lo \in Int, NEW hi \in Int, NEW x \in lo..hi, NEW y \in lo..hi, NEW ppm \in Nat,
           ppm <= 1000000 \/ lo >= 0, Relative(lo, hi, ppm), x <= y
    PROVE  Relative(x, y, ppm) /\ Relative(y, x, ppm)
<1>1. CASE lo >= 0
  <2>1. (hi - lo) * 1000000 <= hi * ppm
    BY <1>1 DEF Relative, Abs, Larger
  <2>2. (y - x) * 1000000 <= y * ppm
    BY <1>1, <2>1, RelativeWithin
  <2>3. /\ Abs(x - y) = y - x /\ Abs(y - x) = y - x
        /\ Larger(Abs(x), Abs(y)) = y /\ Larger(Abs(y), Abs(x)) = y
    BY <1>1 DEF Abs, Larger
  <2> QED
    BY <2>2, <2>3 DEF Relative
<1>2. CASE hi <= 0
  <2>1. ((-lo) - (-hi)) * 1000000 <= (-lo) * ppm
    <3>1. Abs(lo - hi) = (-lo) - (-hi) /\ Larger(Abs(lo), Abs(hi)) = -lo
      BY <1>2 DEF Abs, Larger
    <3> QED
      BY <3>1 DEF Relative
  <2>2. ((-x) - (-y)) * 1000000 <= (-x) * ppm
    <3>1. /\ -lo \in Nat /\ -hi \in Nat /\ -x \in Nat /\ -y \in Nat
          /\ -hi <= -y /\ -y <= -x /\ -x <= -lo
      BY <1>2
    <3> QED
      BY <2>1, <3>1, RelativeWithin
  <2>3. /\ Abs(x - y) = (-x) - (-y) /\ Abs(y - x) = (-x) - (-y)
        /\ Larger(Abs(x), Abs(y)) = -x /\ Larger(Abs(y), Abs(x)) = -x
    BY <1>2 DEF Abs, Larger
  <2> QED
    BY <2>2, <2>3 DEF Relative
<1>3. CASE lo < 0 /\ hi > 0
  <2> DEFINE m == Larger(Abs(lo), Abs(hi))
  <2>1. m \in Nat /\ Abs(lo - hi) > m /\ Abs(lo - hi) \in Nat
    BY <1>3 DEF Abs, Larger
  <2>2. m * ppm <= m * 1000000
    BY <1>3, <2>1, ScaleKeepsOrder
  <2>3. Abs(lo - hi) * 1000000 <= m * ppm
    BY DEF Relative
  <2>4. m * ppm \in Int
    BY <2>1
  <2> HIDE DEF m
  <2> QED
    BY <2>1, <2>2, <2>3, <2>4
<1> QED
  BY <1>1, <1>2, <1>3

\* NumericTolerance, likewise: the extremes of a sample speak for it.
LEMMA WithinBetween ==
    ASSUME NEW lo \in Int, NEW hi \in Int, NEW x \in lo..hi, NEW y \in lo..hi,
           NEW am \in Int \cup {Nil}, NEW ppm \in Nat, ppm <= 1000000 \/ lo >= 0,
           NumericWithin(lo, hi, am, ppm)
    PROVE  NumericWithin(x, y, am, ppm)
<1>1. Abs(x - y) <= Abs(lo - hi) /\ Abs(x - y) \in Nat /\ Abs(lo - hi) \in Nat
  BY DEF Abs
<1>2. CASE am = Nil /\ ppm = 0
  BY <1>1, <1>2 DEF NumericWithin
<1>3. CASE am # Nil /\ Abs(lo - hi) <= am
  BY <1>1, <1>3 DEF NumericWithin
<1>4. CASE ppm > 0 /\ Relative(lo, hi, ppm)
  <2>1. Relative(x, y, ppm)
    <3>1. x <= y \/ y <= x
      OBVIOUS
    <3> QED
      BY <1>4, <3>1, RelativeBetween
  <2> QED
    BY <1>4, <2>1 DEF NumericWithin, Relative
<1> QED
  BY <1>2, <1>3, <1>4 DEF NumericWithin, Relative

\* The order of a pair does not matter to it.
LEMMA WithinSymmetric ==
    ASSUME NEW x \in Int, NEW y \in Int, NEW am \in Int \cup {Nil}, NEW ppm \in Nat
    PROVE  NumericWithin(x, y, am, ppm) <=> NumericWithin(y, x, am, ppm)
<1>1. Abs(x - y) = Abs(y - x) /\ Larger(Abs(x), Abs(y)) = Larger(Abs(y), Abs(x))
  BY DEF Abs, Larger
<1> QED
  BY <1>1 DEF NumericWithin
-----------------------------------------------------------------------------
(* The sample and its entries.                                             *)

Shown == DOMAIN snapshots
Count == Cardinality(DOMAIN snapshots)

\* What a comparison is given.
Inputs ==
    /\ Shown \in SUBSET Sources
    /\ \A s \in Shown : snapshots[s].raw \in Raws /\ snapshots[s].reflected \in Block \cup {Nil}
    /\ tol \in {DefaultTolerance(c, LatestFwd) : c \in Categories} \cup Overrides
    /\ anchor \in Block
    /\ rank \in Ranks

\* The resolver returns a tolerance, whether by default or pinned.
LEMMA TolIsTolerance ==
    ASSUME Inputs
    PROVE  tol \in Tolerance
<1>1. ASSUME NEW c \in MetricCategories PROVE DefaultTolerance(c, LatestFwd) \in Tolerance
  <2>1. 0 \in Block /\ LatestFwd \in Block
    BY ComparisonAssumption, TolerancesAssumption DEF Block
  <2> QED
    BY <2>1 DEF MetricCategories, DefaultTolerance, Plain, Tolerance
<1> QED
  BY <1>1, ComparisonAssumption DEF Inputs

\* The sources that were heard are finitely many.
LEMMA ShownIsFinite ==
    ASSUME Inputs
    PROVE  IsFiniteSet(Shown) /\ Count \in Nat
<1>1. IsFiniteSet(Sources)
  BY ComparisonAssumption, FS_Interval DEF Sources
<1> QED
  BY <1>1, FS_Subset, FS_CardinalityType DEF Inputs, Shown, Count

\* Different sources have different places, from the first to the last.
LEMMA PlacesDiffer ==
    ASSUME Inputs
    PROVE  /\ \A s \in Shown : Place(s) \in 1..Count
           /\ \A s, t \in Shown : Place(s) = Place(t) => s = t
<1> DEFINE UpTo(s) == {t \in Shown : t <= s}
<1>1. \A s \in Shown : s \in Int
  BY ComparisonAssumption DEF Inputs, Sources
<1>2. \A s \in Shown : Place(s) = Cardinality(UpTo(s))
  BY DEF Shown, Place
<1>3. \A s \in Shown : /\ UpTo(s) \in SUBSET Shown /\ s \in UpTo(s)
  BY <1>1
<1>4. \A s, t \in Shown : s < t => UpTo(s) \in SUBSET UpTo(t) /\ t \notin UpTo(s)
  BY <1>1
<1> HIDE DEF UpTo
<1>5. \A s \in Shown : /\ IsFiniteSet(UpTo(s)) /\ Cardinality(UpTo(s)) \in Nat
                       /\ Cardinality(UpTo(s)) <= Count /\ Cardinality(UpTo(s)) # 0
  BY <1>3, ShownIsFinite, FS_Subset, FS_CardinalityType, FS_EmptySet DEF Count, Shown
<1>6. \A s \in Shown : Place(s) \in 1..Count
  <2> SUFFICES ASSUME NEW s \in Shown PROVE Place(s) \in 1..Count
    OBVIOUS
  <2>1. Cardinality(UpTo(s)) \in Nat /\ Cardinality(UpTo(s)) <= Count /\ Cardinality(UpTo(s)) # 0
    BY <1>5
  <2>2. Place(s) = Cardinality(UpTo(s))
    BY <1>2
  <2> QED
    BY <2>1, <2>2, ShownIsFinite
<1>7. ASSUME NEW s \in Shown, NEW t \in Shown, s < t PROVE Place(s) # Place(t)
  <2>1. UpTo(s) \in SUBSET UpTo(t) /\ UpTo(s) # UpTo(t)
    BY <1>3, <1>4, <1>7
  <2> QED
    BY <1>2, <1>5, <2>1, FS_Subset
<1>8. ASSUME NEW s \in Shown, NEW t \in Shown, Place(s) = Place(t) PROVE s = t
  <2>1. s \in Int /\ t \in Int
    BY <1>1
  <2> QED
    BY <1>7, <1>8, <2>1
<1> QED
  BY <1>6, <1>8

\* The sorted entries hold the sources that were heard, each of them once.
LEMMA EntriesAreShown ==
    ASSUME Inputs
    PROVE  /\ Len(Entries) = Count /\ DOMAIN Entries = 1..Count
           /\ \A p \in 1..Count : Entries[p] \in Shown
           /\ \A p, q \in 1..Count : Entries[p] = Entries[q] => p = q
           /\ \A s \in Shown : \E p \in 1..Count : Entries[p] = s
<1> DEFINE f == [s \in Shown |-> Place(s)]
<1>1. f \in Injection(Shown, 1..Count)
  BY PlacesDiffer DEF Injection, IsInjective
<1>2. IsFiniteSet(1..Count) /\ Cardinality(1..Count) = Count
  BY ShownIsFinite, FS_Interval
<1>3. f \in Surjection(Shown, 1..Count)
  BY <1>1, <1>2, FS_Injection DEF Count, Shown
<1>4. \A p \in 1..Count : \E s \in Shown : Place(s) = p
  BY <1>3 DEF Surjection
<1>5. \A p \in 1..Count : Entries[p] \in Shown /\ Place(Entries[p]) = p
  BY <1>4 DEF Entries, Count, Shown
<1>6. DOMAIN Entries = 1..Count /\ Len(Entries) = Count
  <2>1. Entries \in Seq(Shown) /\ DOMAIN Entries = 1..Count
    BY <1>5, ShownIsFinite DEF Entries, Count
  <2> QED
    BY <2>1, ShownIsFinite
<1>7. \A s \in Shown : Entries[Place(s)] = s
  BY <1>5, PlacesDiffer
<1> QED
  BY <1>5, <1>6, <1>7, PlacesDiffer
-----------------------------------------------------------------------------
(* What a pair says, and what all pairs say of the sample.                 *)

\* The verdict on the pair at two places of the entries.
VerdictAt(a, b) == Judge(tol, snapshots[Entries[a]], snapshots[Entries[b]], anchor)

\* A source taints every pair it is in.
Taints(s) == tol.windowed /\ Stale(s)

\* The inner comparison of two sources.
Close(s, t) == Inner(tol, snapshots[s], snapshots[t]).ok

\* The verdict on a pair in terms of its two sources.
LEMMA VerdictOnPair ==
    ASSUME Inputs, NEW a \in 1..Count, NEW b \in 1..Count
    PROVE  /\ VerdictAt(a, b).discard <=> (Taints(Entries[a]) \/ Taints(Entries[b]))
           /\ ~VerdictAt(a, b).discard => (VerdictAt(a, b).ok <=> Close(Entries[a], Entries[b]))
<1> DEFINE s == Entries[a]
           t == Entries[b]
<1>1. s \in Shown /\ t \in Shown
  BY EntriesAreShown
<1>2. /\ snapshots[s].reflected \in Block \cup {Nil} /\ snapshots[t].reflected \in Block \cup {Nil}
      /\ anchor \in Block /\ tol.tolBack \in Block /\ tol.tolFwd \in Block /\ tol.windowed \in BOOLEAN
  BY <1>1, TolIsTolerance DEF Inputs, Tolerance
<1>3. /\ OutOfWindow(snapshots[s].reflected, anchor, tol.tolBack, tol.tolFwd) <=> Stale(s)
      /\ OutOfWindow(snapshots[t].reflected, anchor, tol.tolBack, tol.tolFwd) <=> Stale(t)
  BY <1>2, WindowIsExact DEF Stale
<1>4. Inner(tol, snapshots[s], snapshots[t]).discard = FALSE
  BY TolIsTolerance DEF Tolerance, Inner, ExactMatch, NumericTolerance, Observational, Verdict
<1> HIDE DEF s, t
<1>5. Judge(tol, snapshots[s], snapshots[t], anchor)
        = IF Taints(s) \/ Taints(t) THEN Verdict(FALSE, TRUE) ELSE Inner(tol, snapshots[s], snapshots[t])
  BY <1>3 DEF Judge, Taints
<1>6. CASE Taints(s) \/ Taints(t)
  BY <1>5, <1>6 DEF VerdictAt, Verdict, s, t
<1>7. CASE ~(Taints(s) \/ Taints(t))
  BY <1>4, <1>5, <1>7 DEF VerdictAt, Close, s, t
<1> QED
  BY <1>6, <1>7

\* Two values that are close are so in either order.
LEMMA CloseIsSymmetric ==
    ASSUME Inputs, NEW s \in Shown, NEW t \in Shown, Close(s, t)
    PROVE  Close(t, s)
<1>1. CASE tol.kind = "exact"
  BY <1>1 DEF Close, Inner, ExactMatch, Verdict
<1>2. CASE tol.kind = "observational"
  BY <1>2 DEF Close, Inner, Observational, Verdict
<1>3. CASE tol.kind = "numeric"
  <2> DEFINE x == RawValue[snapshots[s].raw]
             y == RawValue[snapshots[t].raw]
  <2>1. x \in Int \cup {NotANumber} /\ y \in Int \cup {NotANumber}
    BY TolerancesAssumption DEF Inputs
  <2>2. x # NotANumber /\ y # NotANumber /\ NumericWithin(x, y, tol.absoluteMax, tol.relativePPM)
    BY <1>3 DEF Close, Inner, NumericTolerance, Verdict
  <2>3. NumericWithin(y, x, tol.absoluteMax, tol.relativePPM)
    BY <2>1, <2>2, WithinSymmetric, TolIsTolerance DEF Tolerance
  <2> QED
    BY <1>3, <2>2, <2>3 DEF Close, Inner, NumericTolerance, Verdict
<1> QED
  BY <1>1, <1>2, <1>3, TolIsTolerance DEF Tolerance

\* Some pair discards, every pair is close.
SomeDiscards == \E a, b \in 1..Count : a < b /\ VerdictAt(a, b).discard
AllOk == \A a, b \in 1..Count : a < b => VerdictAt(a, b).ok

\* A pair discards exactly when a source is stale: with two sources or more
\* every source is in a pair.
LEMMA DiscardMeansStale ==
    ASSUME Inputs, Count >= 2
    PROVE  SomeDiscards <=> \E s \in Shown : Taints(s)
<1>1. ASSUME SomeDiscards PROVE \E s \in Shown : Taints(s)
  <2>1. PICK a, b \in 1..Count : a < b /\ VerdictAt(a, b).discard
    BY <1>1 DEF SomeDiscards
  <2> QED
    BY <2>1, VerdictOnPair, EntriesAreShown
<1>2. ASSUME NEW s \in Shown, Taints(s) PROVE SomeDiscards
  <2>1. PICK p \in 1..Count : Entries[p] = s
    BY EntriesAreShown
  <2>2. CASE p = 1
    <3>1. 2 \in 1..Count /\ 1 < 2
      BY ShownIsFinite
    <3> QED
      BY <1>2, <2>1, <2>2, <3>1, VerdictOnPair DEF SomeDiscards
  <2>3. CASE p # 1
    <3>1. 1 \in 1..Count /\ 1 < p
      BY <2>3, ShownIsFinite
    <3> QED
      BY <1>2, <2>1, <3>1, VerdictOnPair DEF SomeDiscards
  <2> QED
    BY <2>2, <2>3
<1> QED
  BY <1>1, <1>2

\* The values of any two sources are close.
PairwiseClose == \A s, t \in Shown : s # t => Close(s, t)

\* When none discards, all pairs are ok exactly when any two sources are close.
LEMMA OkMeansClose ==
    ASSUME Inputs, ~SomeDiscards
    PROVE  AllOk <=> PairwiseClose
<1>1. \A a, b \in 1..Count : a < b => (VerdictAt(a, b).ok <=> Close(Entries[a], Entries[b]))
  BY VerdictOnPair DEF SomeDiscards
<1>2. ASSUME AllOk, NEW s \in Shown, NEW t \in Shown, s # t PROVE Close(s, t)
  <2>1. PICK p, q \in 1..Count : Entries[p] = s /\ Entries[q] = t
    BY EntriesAreShown
  <2>2. p < q \/ q < p
    BY <1>2, <2>1, ShownIsFinite
  <2> QED
    BY <1>1, <1>2, <2>1, <2>2, CloseIsSymmetric DEF AllOk
<1>3. ASSUME PairwiseClose, NEW a \in 1..Count, NEW b \in 1..Count, a < b PROVE VerdictAt(a, b).ok
  <2>1. Entries[a] \in Shown /\ Entries[b] \in Shown /\ Entries[a] # Entries[b]
    BY <1>3, EntriesAreShown
  <2> QED
    BY <1>1, <1>3, <2>1 DEF PairwiseClose
<1> QED
  BY <1>2, <1>3 DEF AllOk, PairwiseClose

\* Beside every source there is another one.
LEMMA Another ==
    ASSUME Inputs, Count >= 2, NEW s \in Shown
    PROVE  \E t \in Shown : t # s
<1>1. Cardinality(Shown) # 1
  BY ShownIsFinite DEF Count, Shown
<1>2. Shown # {s}
  BY <1>1, FS_Singleton
<1> QED
  BY <1>2

\* The strings shown are finitely many, and so are their values.
LEMMA ValuesAreFinite ==
    ASSUME Inputs
    PROVE  IsFiniteSet(RawsShown) /\ IsFiniteSet(ValuesShown)
<1>1. [s \in Shown |-> snapshots[s].raw] \in Surjection(Shown, RawsShown)
  BY DEF Surjection, RawsShown, Shown
<1>2. IsFiniteSet(RawsShown)
  BY <1>1, ShownIsFinite, FS_Surjection
<1>3. [r \in RawsShown |-> RawValue[r]] \in Surjection(RawsShown, ValuesShown)
  BY DEF Surjection, ValuesShown
<1>4. IsFiniteSet(ValuesShown)
  BY <1>2, <1>3, FS_Surjection
<1> QED
  BY <1>2, <1>4

\* Exact comparison: all pairs are equal when there is one string.
LEMMA ExactOnSample ==
    ASSUME Inputs, Count >= 2, tol.kind = "exact"
    PROVE  PairwiseClose <=> AllClose
<1>1. \A s, t \in Shown : Close(s, t) <=> snapshots[s].raw = snapshots[t].raw
  BY DEF Close, Inner, ExactMatch, Verdict
<1>2. AllClose <=> Cardinality(RawsShown) = 1
  BY DEF AllClose
<1>3. (Cardinality(RawsShown) = 1) <=> \E r : RawsShown = {r}
  BY ValuesAreFinite, FS_Singleton
<1>4. PICK s0 \in Shown : TRUE
  <2>1. Shown # {}
    BY ShownIsFinite, FS_EmptySet DEF Count, Shown
  <2> QED
    BY <2>1
<1>5. ASSUME PairwiseClose PROVE RawsShown = {snapshots[s0].raw}
  BY <1>1, <1>4, <1>5 DEF PairwiseClose, RawsShown, Shown
<1>6. ASSUME NEW r, RawsShown = {r} PROVE PairwiseClose
  BY <1>1, <1>6 DEF PairwiseClose, RawsShown, Shown
<1> QED
  BY <1>2, <1>3, <1>5, <1>6

\* Numeric comparison: all pairs are close when the extremes are.
LEMMA NumericOnSample ==
    ASSUME Inputs, Sensible(tol), Count >= 2, tol.kind = "numeric"
    PROVE  PairwiseClose <=> AllClose
<1> DEFINE x(s) == RawValue[snapshots[s].raw]
           Within(v, w) == NumericWithin(v, w, tol.absoluteMax, tol.relativePPM)
           lo == CHOOSE v \in ValuesShown : \A w \in ValuesShown : v <= w
           hi == CHOOSE v \in ValuesShown : \A w \in ValuesShown : v >= w
<1>1. tol.absoluteMax \in Int \cup {Nil} /\ tol.relativePPM \in Nat
  BY TolIsTolerance DEF Tolerance
<1>2. \A s \in Shown : x(s) \in Int \cup {NotANumber} /\ x(s) \in ValuesShown
  BY TolerancesAssumption DEF Inputs, ValuesShown, RawsShown, Shown
<1>3. \A v \in ValuesShown : \E s \in Shown : v = x(s)
  BY DEF ValuesShown, RawsShown, Shown
<1>4. \A s, t \in Shown : Close(s, t) <=> x(s) # NotANumber /\ x(t) # NotANumber /\ Within(x(s), x(t))
  <2>1. \A a, b : Inner(tol, a, b) = NumericTolerance(a, b, tol.absoluteMax, tol.relativePPM)
    BY DEF Inner
  <2> QED
    BY <2>1 DEF Close, NumericTolerance, Verdict
<1>5. AllClose <=> NotANumber \notin ValuesShown /\ Within(lo, hi)
  <2>1. AllClose <=> NumbersClose
    BY DEF AllClose
  <2> QED
    BY <2>1, Zenon DEF NumbersClose
<1>6. ASSUME NotANumber \notin ValuesShown
      PROVE  Lowest(ValuesShown, lo) /\ Highest(ValuesShown, hi) /\ ValuesShown \subseteq Int
  <2>1. ValuesShown \subseteq Int
    BY <1>2, <1>3, <1>6
  <2>2. ValuesShown # {}
    BY <1>2, ShownIsFinite, FS_EmptySet DEF Count, Shown
  <2>3. (\E v : Lowest(ValuesShown, v)) /\ (\E v : Highest(ValuesShown, v))
    BY <2>1, <2>2, ValuesAreFinite, Extremes
  <2>4. /\ \E v \in ValuesShown : \A w \in ValuesShown : v <= w
        /\ \E v \in ValuesShown : \A w \in ValuesShown : v >= w
    BY <2>3 DEF Lowest, Highest
  <2> QED
    BY <2>1, <2>4 DEF Lowest, Highest
<1>7. Sensible(tol) => tol.relativePPM <= 1000000
                       \/ \A s \in Shown : x(s) = NotANumber \/ x(s) >= 0
  BY DEF Sensible, Inputs
<1> HIDE DEF lo, hi, x, Within
<1>8. ASSUME AllClose, NEW s \in Shown, NEW t \in Shown PROVE Close(s, t)
  <2>1. /\ Lowest(ValuesShown, lo) /\ Highest(ValuesShown, hi) /\ ValuesShown \subseteq Int
        /\ Within(lo, hi) /\ NotANumber \notin ValuesShown
    BY <1>5, <1>6, <1>8
  <2>2. /\ lo \in Int /\ hi \in Int /\ x(s) \in lo..hi /\ x(t) \in lo..hi
    BY <1>2, <2>1 DEF Lowest, Highest
  <2>3. tol.relativePPM <= 1000000 \/ lo >= 0
    <3>1. PICK u \in Shown : lo = x(u)
      BY <1>3, <2>1 DEF Lowest
    <3> QED
      BY <1>7, <2>1, <3>1 DEF Lowest
  <2>4. Within(x(s), x(t))
    <3>1. PICK am \in Int \cup {Nil}, ppm \in Nat : am = tol.absoluteMax /\ ppm = tol.relativePPM
      BY <1>1, Zenon
    <3>2. PICK l \in Int, h \in Int : l = lo /\ h = hi
      BY <2>2, SMT
    <3>3. NumericWithin(l, h, am, ppm) /\ (ppm <= 1000000 \/ l >= 0)
      BY <2>1, <2>3, <3>1, <3>2, SMT DEF Within
    <3>4. PICK v \in l..h, w \in l..h : v = x(s) /\ w = x(t)
      BY <2>2, <3>2, SMT
    <3>5. NumericWithin(v, w, am, ppm)
      BY <3>3, WithinBetween, SMT
    <3> QED
      BY <3>1, <3>4, <3>5, SMT DEF Within
  <2> QED
    BY <1>2, <1>4, <2>1, <2>4
<1>9. ASSUME PairwiseClose PROVE AllClose
  <2>1. \A s \in Shown : x(s) # NotANumber
    BY <1>4, <1>9, Another DEF PairwiseClose
  <2>2. NotANumber \notin ValuesShown
    BY <1>3, <2>1
  <2>3. Lowest(ValuesShown, lo) /\ Highest(ValuesShown, hi) /\ ValuesShown \subseteq Int
    BY <1>6, <2>2
  <2>4. PICK s, t \in Shown : lo = x(s) /\ hi = x(t)
    BY <1>3, <2>3 DEF Lowest, Highest
  <2>5. CASE s # t
    BY <1>4, <1>5, <1>9, <2>2, <2>4, <2>5 DEF PairwiseClose
  <2>6. CASE s = t
    <3>1. PICK u \in Shown : u # s
      BY Another
    <3>2. x(u) \in ValuesShown
      BY <1>2
    <3>3. x(u) \in Int /\ lo \in Int /\ lo <= x(u) /\ hi >= x(u) /\ lo = hi
      BY <2>3, <2>4, <2>6, <3>2 DEF Lowest, Highest
    <3>4. x(u) = hi
      BY <3>3
    <3>5. Within(lo, hi)
      BY <1>4, <1>9, <2>4, <3>1, <3>4 DEF PairwiseClose
    <3> QED
      BY <1>5, <2>2, <3>5
  <2> QED
    BY <2>5, <2>6
<1> QED
  BY <1>8, <1>9 DEF PairwiseClose

\* Any two sources are close exactly when the whole sample is.
LEMMA SampleIsClose ==
    ASSUME Inputs, Sensible(tol), Count >= 2
    PROVE  PairwiseClose <=> AllClose
<1>1. CASE tol.kind = "observational"
  <2>1. AllClose
    BY <1>1 DEF AllClose
  <2>2. PairwiseClose
    BY <1>1 DEF PairwiseClose, Close, Inner, Observational, Verdict
  <2> QED
    BY <2>1, <2>2
<1> QED
  BY <1>1, ExactOnSample, NumericOnSample, TolIsTolerance DEF Tolerance
-----------------------------------------------------------------------------
(* The invariant.                                                          *)

\* The pair is one that applyTolerance has judged.
Before(a, b) == a < i \/ (a = i /\ b < j)

\* What applyTolerance knows: while it goes over the pairs, that none of those
\* before the current one discarded, and in allOK whether all of them were ok;
\* afterwards, what all the pairs say.
Reducing ==
    /\ pc \in {"pairs", "clusters", "done"} /\ allOK \in BOOLEAN
    /\ pc = "pairs" =>
         /\ outcome = "none"
         /\ i \in Nat \ {0} /\ j \in Nat /\ i < j /\ (i < Count => j <= Count)
         /\ \A a, b \in 1..Count : (a < b /\ Before(a, b)) => ~VerdictAt(a, b).discard
         /\ allOK <=> \A a, b \in 1..Count : (a < b /\ Before(a, b)) => VerdictAt(a, b).ok
    /\ pc = "clusters" => outcome = "none" /\ Count >= 2 /\ ~SomeDiscards /\ ~AllOk
    /\ pc = "done" => outcome = IF Count < 2 THEN "skip"
                                ELSE IF SomeDiscards THEN "discard"
                                ELSE IF AllOk THEN "agree" ELSE "disagree"

\* What pickTrustedCluster knows: best is the cluster of the best ranked source
\* among the clusters visited, if a source of them is ranked at all.
BestOf(visited) ==
    /\ best = {} => \A g \in visited : BestRank(g) = 0
    /\ best # {} => /\ best \in Clusters /\ BestRank(best) # 0
                    /\ \A g \in visited : BestRank(g) # 0 => BestRank(best) <= BestRank(g)

Visiting ==
    /\ pc = "pairs" => best = {}
    /\ pc = "clusters" => todo \subseteq Clusters /\ BestOf(Clusters \ todo)
    /\ TrustIsDeterministic

IInv == Inputs /\ Reducing /\ Visiting

\* The inputs of a comparison stay, and with them the verdicts on its pairs.
LEMMA SampleStays ==
    ASSUME UNCHANGED inputs
    PROVE  /\ Inputs => Inputs'
           /\ Count' = Count /\ \A a, b : VerdictAt(a, b)' = VerdictAt(a, b)
           /\ SomeDiscards' <=> SomeDiscards
           /\ AllOk' <=> AllOk
<1>1. snapshots' = snapshots /\ tol' = tol /\ anchor' = anchor /\ rank' = rank
  BY DEF inputs
<1>2. Inputs => Inputs'
  BY <1>1 DEF Inputs, Shown
<1>3. Count' = Count
  BY <1>1 DEF Count
<1>4. Entries' = Entries
  BY <1>1 DEF Entries, Place
<1>5. \A a, b : VerdictAt(a, b)' = VerdictAt(a, b)
  BY <1>1, <1>4 DEF VerdictAt
<1> QED
  BY <1>2, <1>3, <1>5 DEF SomeDiscards, AllOk

\* The best rank of a cluster is that of one of its sources, and none is better.
LEMMA BestRankIsLeast ==
    ASSUME Inputs, NEW g \in SUBSET Sources
    PROVE  /\ BestRank(g) = 0 <=> Ranked(g) = {}
           /\ BestRank(g) \in Nat
           /\ Ranked(g) # {} => \E s \in Ranked(g) : BestRank(g) = rank[s]
           /\ \A s \in Ranked(g) : BestRank(g) <= rank[s]
<1>1. \A s \in g : rank[s] \in Nat
  BY DEF Inputs, Ranks
<1> DEFINE R == {rank[s] : s \in Ranked(g)}
<1>2. CASE Ranked(g) = {}
  BY <1>2 DEF BestRank
<1>3. CASE Ranked(g) # {}
  <2>1. R \in SUBSET Nat /\ R # {}
    BY <1>1, <1>3 DEF Ranked
  <2>2. \E r \in R : \A q \in R : r <= q
    BY <2>1, Least
  <2>3. \E r \in R : \A s \in Ranked(g) : r <= rank[s]
    BY <2>2
  <2>4. BestRank(g) \in R /\ \A s \in Ranked(g) : BestRank(g) <= rank[s]
    BY <1>3, <2>3 DEF BestRank
  <2>5. BestRank(g) # 0
    BY <2>4 DEF Ranked
  <2> QED
    BY <1>3, <2>1, <2>4, <2>5
<1> QED
  BY <1>2, <1>3

\* The clusters partition the sources: the one of a source is a set of sources.
LEMMA ClustersOfSources ==
    ASSUME Inputs
    PROVE  /\ \A g \in Clusters : g \in SUBSET Sources /\ g # {}
           /\ \A g \in Clusters : \A s \in g : s \in Shown /\ g = Cluster(snapshots[s].raw)
           /\ \A s \in Shown : Cluster(snapshots[s].raw) \in Clusters /\ s \in Cluster(snapshots[s].raw)
<1>1. \A g \in Clusters : \E s \in Shown : g = Cluster(snapshots[s].raw)
  BY DEF Clusters, Shown
<1>2. \A s \in Shown : Cluster(snapshots[s].raw) \in Clusters /\ s \in Cluster(snapshots[s].raw)
  BY DEF Clusters, Cluster, Shown
<1>3. \A r : Cluster(r) \in SUBSET Shown /\ \A s \in Cluster(r) : snapshots[s].raw = r
  BY DEF Cluster, Shown
<1>4. Shown \in SUBSET Sources
  BY DEF Inputs
<1> QED
  BY <1>1, <1>2, <1>3, <1>4

\* Once every cluster was visited, the best one is that of the best ranked
\* source, whatever the order was.
LEMMA BestIsTrusted ==
    ASSUME Inputs, BestOf(Clusters)
    PROVE  LET ranked == Ranked(DOMAIN snapshots)
           IN  /\ ranked = {} <=> best = {}
               /\ best # {} => \E s \in ranked : /\ \A t \in ranked : rank[s] <= rank[t]
                                                 /\ best = Cluster(snapshots[s].raw)
<1> DEFINE ranked == Ranked(DOMAIN snapshots)
<1>1. \A t \in ranked : \E g \in Clusters : t \in Ranked(g)
  BY ClustersOfSources DEF Ranked, Shown
<1>2. \A g \in Clusters : Ranked(g) \subseteq ranked
  BY ClustersOfSources DEF Ranked, Shown
<1>3. \A t \in ranked : rank[t] \in Nat
  BY DEF Ranked, Inputs, Ranks, Shown
<1>4. CASE best = {}
  BY <1>1, <1>4, ClustersOfSources, BestRankIsLeast DEF BestOf
<1>5. CASE best # {}
  <2>1. best \in Clusters /\ best \in SUBSET Sources /\ BestRank(best) # 0
    BY <1>5, ClustersOfSources DEF BestOf
  <2>2. PICK s \in Ranked(best) : BestRank(best) = rank[s]
    BY <2>1, BestRankIsLeast
  <2>3. s \in ranked /\ s \in best
    BY <1>2, <2>1, <2>2 DEF Ranked
  <2>4. ASSUME NEW t \in ranked PROVE rank[s] <= rank[t]
    <3>1. PICK g \in Clusters : t \in Ranked(g)
      BY <1>1
    <3>2. BestRank(g) # 0 /\ BestRank(g) <= rank[t] /\ BestRank(g) \in Nat
      BY <3>1, ClustersOfSources, BestRankIsLeast
    <3>3. BestRank(best) <= BestRank(g)
      BY <1>5, <3>2 DEF BestOf
    <3> QED
      BY <1>3, <2>2, <2>3, <3>2, <3>3
  <2>5. best = Cluster(snapshots[s].raw)
    BY <2>1, <2>3, ClustersOfSources
  <2> QED
    BY <1>5, <2>3, <2>4, <2>5
<1> QED
  BY <1>4, <1>5

\* A visit keeps the best cluster of those visited.
LEMMA VisitKeepsBest ==
    ASSUME Inputs, todo \subseteq Clusters, BestOf(Clusters \ todo), NEW g \in todo, VisitCluster(g)
    PROVE  (todo \subseteq Clusters /\ BestOf(Clusters \ todo))'
<1>1. /\ snapshots' = snapshots /\ rank' = rank /\ todo' = todo \ {g}
      /\ best' = IF Improves(g) THEN g ELSE best
  BY DEF VisitCluster, inputs
<1>2. Clusters' = Clusters /\ \A h : BestRank(h)' = BestRank(h)
  BY <1>1 DEF Clusters, Cluster, BestRank, Ranked
<1>3. \A h \in Clusters : BestRank(h) \in Nat
  BY ClustersOfSources, BestRankIsLeast
<1>4. g \in Clusters /\ g # {} /\ Clusters \ todo' = (Clusters \ todo) \cup {g}
  BY <1>1, ClustersOfSources
<1>5. CASE Improves(g)
  <2>1. best' = g /\ BestRank(g) # 0 /\ (best = {} \/ BestRank(g) < BestRank(best))
    BY <1>1, <1>5 DEF Improves
  <2>2. \A h \in Clusters \ todo' : BestRank(h) # 0 => BestRank(g) <= BestRank(h)
    BY <1>3, <1>4, <2>1 DEF BestOf
  <2> QED
    BY <1>1, <1>2, <1>4, <2>1, <2>2 DEF BestOf
<1>6. CASE ~Improves(g)
  <2>1. best' = best /\ (BestRank(g) = 0 \/ (best # {} /\ ~(BestRank(g) < BestRank(best))))
    BY <1>1, <1>6 DEF Improves
  <2>2. best = {} => \A h \in Clusters \ todo' : BestRank(h) = 0
    BY <1>4, <2>1 DEF BestOf
  <2>3. best # {} => /\ best \in Clusters /\ BestRank(best) # 0
                     /\ \A h \in Clusters \ todo' : BestRank(h) # 0 => BestRank(best) <= BestRank(h)
    BY <1>3, <1>4, <2>1 DEF BestOf
  <2> QED
    BY <1>1, <1>2, <2>1, <2>2, <2>3 DEF BestOf
<1> QED
  BY <1>5, <1>6

\* The next pair of applyTolerance's double loop: what was judged grows by the
\* current pair and by nothing else.
LEMMA NextPair ==
    ASSUME NEW n \in Nat, i \in Nat \ {0}, j \in Nat, i < j, i < n, j <= n,
           i' = IF j < n THEN i ELSE i + 1, j' = IF j < n THEN j + 1 ELSE i + 2
    PROVE  /\ i' \in Nat \ {0} /\ j' \in Nat /\ i' < j' /\ (i' < n => j' <= n)
           /\ \A a, b \in 1..n : a < b => (Before(a, b)' <=> (Before(a, b) \/ (a = i /\ b = j)))
BY DEF Before

\* One pair is judged.
LEMMA JudgePairPreserves ==
    ASSUME Inputs, Reducing, JudgePair
    PROVE  Reducing'
<1>1. /\ UNCHANGED inputs /\ pc = "pairs" /\ i < Count /\ Count \in Nat
      /\ i \in Nat \ {0} /\ j \in Nat /\ i < j /\ j <= Count /\ allOK \in BOOLEAN
      /\ outcome = "none"
  BY EntriesAreShown, ShownIsFinite DEF JudgePair, Reducing
<1>2. /\ Count' = Count /\ \A a, b : VerdictAt(a, b)' = VerdictAt(a, b)
      /\ (SomeDiscards' <=> SomeDiscards) /\ (AllOk' <=> AllOk)
  BY <1>1, SampleStays
<1>3. i \in 1..Count /\ j \in 1..Count
  BY <1>1
<1>4. PairVerdict = VerdictAt(i, j)
  BY DEF PairVerdict, VerdictAt
<1>5. CASE PairVerdict.discard
  <2>1. pc' = "done" /\ outcome' = "discard" /\ allOK' = allOK
    BY <1>5 DEF JudgePair, Finish
  <2>2. SomeDiscards
    BY <1>1, <1>3, <1>4, <1>5 DEF SomeDiscards
  <2>3. Count >= 2
    BY <1>1
  <2> QED
    BY <1>1, <1>2, <2>1, <2>2, <2>3 DEF Reducing
<1>6. CASE ~PairVerdict.discard
  <2>1. /\ allOK' = (allOK /\ PairVerdict.ok) /\ pc' = pc /\ outcome' = outcome
        /\ i' = IF j < Count THEN i ELSE i + 1
        /\ j' = IF j < Count THEN j + 1 ELSE i + 2
    BY <1>6, EntriesAreShown DEF JudgePair
  <2>2. /\ i' \in Nat \ {0} /\ j' \in Nat /\ i' < j' /\ (i' < Count => j' <= Count)
        /\ \A a, b \in 1..Count : a < b => (Before(a, b)' <=> (Before(a, b) \/ (a = i /\ b = j)))
    BY <1>1, <2>1, NextPair
  <2>3. \A a, b \in 1..Count : (a < b /\ Before(a, b)') => ~VerdictAt(a, b).discard
    BY <1>1, <1>4, <1>6, <2>2 DEF Reducing
  <2>4. (allOK /\ PairVerdict.ok) <=> \A a, b \in 1..Count : (a < b /\ Before(a, b)') => VerdictAt(a, b).ok
    <3>1. allOK <=> \A a, b \in 1..Count : (a < b /\ Before(a, b)) => VerdictAt(a, b).ok
      BY <1>1 DEF Reducing
    <3> QED
      BY <1>1, <1>3, <1>4, <2>2, <3>1
  <2>5. allOK' <=> \A a, b \in 1..Count : (a < b /\ Before(a, b)') => VerdictAt(a, b).ok
    BY <2>1, <2>4
  <2>6. allOK' \in BOOLEAN
    BY <2>1
  <2> QED
    BY <1>1, <1>2, <2>1, <2>2, <2>3, <2>5, <2>6 DEF Reducing
<1> QED
  BY <1>5, <1>6

\* The last pair was judged.
LEMMA PairsDonePreserves ==
    ASSUME Inputs, Reducing, PairsDone
    PROVE  Reducing'
<1>1. /\ UNCHANGED inputs /\ pc = "pairs" /\ Count >= 2 /\ i >= Count /\ Count \in Nat
      /\ i \in Nat /\ j \in Nat /\ allOK' = allOK /\ allOK \in BOOLEAN /\ outcome = "none"
  BY EntriesAreShown, ShownIsFinite DEF PairsDone, Reducing
<1>2. Count' = Count /\ (SomeDiscards' <=> SomeDiscards) /\ (AllOk' <=> AllOk)
  BY <1>1, SampleStays
<1>3. \A a, b \in 1..Count : a < b => Before(a, b)
  BY <1>1 DEF Before
<1>4. ~SomeDiscards /\ (allOK <=> AllOk)
  BY <1>1, <1>3 DEF Reducing, SomeDiscards, AllOk
<1>5. CASE allOK
  BY <1>1, <1>2, <1>4, <1>5 DEF PairsDone, Finish, Reducing
<1>6. CASE ~allOK
  BY <1>1, <1>2, <1>4, <1>6 DEF PairsDone, Reducing
<1> QED
  BY <1>5, <1>6

\* The fallback sort has a first cluster, so Largest is one cluster before all
\* others: larger, or as large with the smaller string.
FallbackIsFirst ==
    Clusters # {} =>
        /\ Largest \in Clusters
        /\ \A h \in Clusters \ {Largest} :
             \/ Cardinality(Largest) > Cardinality(h)
             \/ Cardinality(Largest) = Cardinality(h) /\ RawOf(Largest) < RawOf(h)

\* The inputs determine the first cluster.
LEMMA LargestIsFirst ==
    ASSUME Inputs
    PROVE  FallbackIsFirst
<1> SUFFICES ASSUME Clusters # {}
             PROVE  \E g \in Clusters : \A h \in Clusters \ {g} :
                      \/ Cardinality(g) > Cardinality(h)
                      \/ Cardinality(g) = Cardinality(h) /\ RawOf(g) < RawOf(h)
  BY DEF FallbackIsFirst, Largest
<1>1. \A g \in Clusters : Cardinality(g) \in Nat /\ Cardinality(g) <= Count
  <2>1. \A g \in Clusters : g \in SUBSET Shown
    BY ClustersOfSources
  <2> QED
    BY <2>1, ShownIsFinite, FS_Subset, FS_CardinalityType DEF Count, Shown
<1>2. \A g \in Clusters : RawOf(g) \in Nat /\ g = Cluster(RawOf(g))
  <2>1. \A g \in Clusters : (CHOOSE s \in g : TRUE) \in g
    BY ClustersOfSources
  <2>2. \A g \in Clusters : /\ (CHOOSE s \in g : TRUE) \in Shown
                            /\ g = Cluster(snapshots[CHOOSE s \in g : TRUE].raw)
    BY <2>1, ClustersOfSources
  <2>3. \A s \in Shown : snapshots[s].raw \in Nat
    BY TolerancesAssumption DEF Inputs
  <2> QED
    BY <2>2, <2>3 DEF RawOf
<1> DEFINE Smaller == {Count - Cardinality(g) : g \in Clusters}
<1>3. PICK n \in Smaller : \A m \in Smaller : n <= m
  <2>1. Smaller \in SUBSET Nat /\ Smaller # {}
    BY <1>1, ShownIsFinite
  <2> QED
    BY <2>1, Least
<1> DEFINE Ties == {RawOf(g) : g \in {h \in Clusters : Count - Cardinality(h) = n}}
<1>4. PICK r \in Ties : \A q \in Ties : r <= q
  <2>1. Ties \in SUBSET Nat /\ Ties # {}
    BY <1>2, <1>3
  <2> QED
    BY <2>1, Least
<1>5. PICK g \in Clusters : Count - Cardinality(g) = n /\ RawOf(g) = r
  BY <1>4
<1>6. ASSUME NEW h \in Clusters \ {g}
      PROVE  \/ Cardinality(g) > Cardinality(h)
             \/ Cardinality(g) = Cardinality(h) /\ RawOf(g) < RawOf(h)
  <2>1. /\ Cardinality(g) \in Nat /\ Cardinality(h) \in Nat /\ Count \in Nat
        /\ RawOf(g) \in Nat /\ RawOf(h) \in Nat /\ RawOf(h) # RawOf(g)
    BY <1>1, <1>2, ShownIsFinite
  <2>2. n <= Count - Cardinality(h)
    BY <1>3
  <2>3. Cardinality(g) >= Cardinality(h)
    BY <1>5, <2>1, <2>2
  <2>4. CASE Cardinality(g) = Cardinality(h)
    <3>1. RawOf(h) \in Ties
      BY <1>5, <2>4
    <3> QED
      BY <1>4, <1>5, <2>1, <2>4, <3>1
  <2> QED
    BY <2>1, <2>3, <2>4
<1> QED
  BY <1>5, <1>6
-----------------------------------------------------------------------------
(* The theorems.                                                           *)

\* Every comparison starts with its inputs in order and nothing judged.
LEMMA InitIInv ==
    ASSUME Init
    PROVE  IInv
<1>1. Inputs
  BY ComparisonAssumption DEF Init, Usable, Inputs, Shown
<1>2. Reducing
  <2>1. \A a, b \in 1..Count : ~(a < b /\ Before(a, b))
    BY <1>1, ShownIsFinite DEF Init, Before
  <2>2. i < Count => j <= Count
    BY <1>1, ShownIsFinite DEF Init
  <2> QED
    BY <2>1, <2>2 DEF Init, Reducing
<1>3. Visiting
  BY DEF Init, Visiting, TrustIsDeterministic
<1> QED
  BY <1>1, <1>2, <1>3 DEF IInv

\* The judgement: the best cluster, or the fallback.
LEMMA DecidePreserves ==
    ASSUME IInv, Decide
    PROVE  Reducing' /\ Visiting'
<1>1. /\ UNCHANGED inputs /\ pc = "clusters" /\ pc' = "done" /\ outcome' = "disagree"
      /\ allOK' = allOK /\ Inputs /\ Reducing /\ Visiting
  BY DEF IInv, Decide, Finish
<1>2. /\ Count' = Count /\ (SomeDiscards' <=> SomeDiscards) /\ (AllOk' <=> AllOk)
  BY <1>1, SampleStays
<1>3. Count >= 2 /\ ~SomeDiscards /\ ~AllOk /\ Count \in Nat
  BY <1>1, ShownIsFinite DEF Reducing
<1>4. Reducing'
  BY <1>1, <1>2, <1>3 DEF Reducing
<1>5. snapshots' = snapshots /\ rank' = rank
  BY <1>1 DEF inputs
<1>6. /\ Clusters' = Clusters /\ Largest' = Largest
      /\ Ranked(DOMAIN snapshots)' = Ranked(DOMAIN snapshots)
      /\ \A r : Cluster(r)' = Cluster(r)
  BY <1>5 DEF Clusters, Cluster, Largest, RawOf, Ranked
<1>7. ASSUME Cardinality(Clusters) > 1 PROVE TrustIsDeterministic'
  <2>1. Clusters \ todo = Clusters /\ ~(Cardinality(Clusters) <= 1)
    <3>1. ~(Cardinality(Clusters) <= 1)
      <4>1. IsFiniteSet(Clusters)
        <5>1. [s \in Shown |-> Cluster(snapshots[s].raw)] \in Surjection(Shown, Clusters)
          BY DEF Surjection, Clusters, Shown
        <5> QED
          BY <1>1, <5>1, ShownIsFinite, FS_Surjection
      <4>2. Cardinality(Clusters) \in Nat
        BY <4>1, FS_CardinalityType
      <4> QED
        BY <1>7, <4>2
    <3> QED
      BY <3>1 DEF Decide
  <2>2. BestOf(Clusters)
    BY <1>1, <2>1 DEF Visiting
  <2>3. best' = IF best # {} THEN best ELSE Largest
    BY <2>1 DEF Decide
  <2> DEFINE ranked == Ranked(DOMAIN snapshots)
  <2>4. /\ ranked = {} <=> best = {}
        /\ best # {} => \E s \in ranked : /\ \A t \in ranked : rank[s] <= rank[t]
                                          /\ best = Cluster(snapshots[s].raw)
    BY <1>1, <2>2, BestIsTrusted
  <2>5. IF ranked = {} THEN best' = Largest
        ELSE \E s \in ranked : /\ \A t \in ranked : rank[s] <= rank[t]
                               /\ best' = Cluster(snapshots[s].raw)
    BY <2>3, <2>4
  <2> QED
    BY <1>5, <1>6, <2>5 DEF TrustIsDeterministic
<1>8. ASSUME ~(Cardinality(Clusters) > 1) PROVE TrustIsDeterministic'
  BY <1>6, <1>8 DEF TrustIsDeterministic
<1> QED
  BY <1>1, <1>4, <1>7, <1>8 DEF Visiting

\* Every step of compareAndSave keeps the invariant.
LEMMA InductiveStep ==
    ASSUME IInv, [Next]_vars
    PROVE  IInv'
<1>1. Inputs /\ Reducing /\ Visiting /\ UNCHANGED inputs
  BY DEF IInv, Next, vars, Skip, JudgePair, PairsDone, VisitCluster, Decide
<1>2. /\ Inputs' /\ Count' = Count /\ (SomeDiscards' <=> SomeDiscards) /\ (AllOk' <=> AllOk)
      /\ \A a, b : VerdictAt(a, b)' = VerdictAt(a, b)
  BY <1>1, SampleStays
<1>3. snapshots' = snapshots /\ rank' = rank
  BY <1>1 DEF inputs
<1>4. CASE Skip
  <2>1. Count < 2 /\ pc' = "done" /\ outcome' = "skip" /\ allOK' = allOK
    BY <1>4 DEF Skip, Finish, Count
  <2>2. Reducing'
    BY <1>1, <1>2, <2>1 DEF Reducing
  <2>3. Visiting'
    BY <2>1 DEF Visiting, TrustIsDeterministic
  <2> QED
    BY <1>2, <2>2, <2>3 DEF IInv
<1>5. CASE JudgePair
  <2>1. Reducing'
    BY <1>1, <1>5, JudgePairPreserves
  <2>2. pc = "pairs" /\ outcome' # "disagree" /\ pc' # "clusters" /\ best' = {}
    BY <1>1, <1>5 DEF JudgePair, Finish, Reducing, Visiting
  <2>3. Visiting'
    BY <2>2 DEF Visiting, TrustIsDeterministic
  <2> QED
    BY <1>2, <2>1, <2>3 DEF IInv
<1>6. CASE PairsDone
  <2>1. Reducing'
    BY <1>1, <1>6, PairsDonePreserves
  <2>2. /\ pc = "pairs" /\ outcome' # "disagree" /\ best' = {} /\ pc' # "pairs"
        /\ pc' = "clusters" => todo' = Clusters
    BY <1>1, <1>6 DEF PairsDone, Finish, Reducing, Visiting
  <2>3. Clusters' = Clusters
    BY <1>3 DEF Clusters, Cluster
  <2>4. Visiting'
    BY <2>2, <2>3 DEF Visiting, TrustIsDeterministic, BestOf
  <2> QED
    BY <1>2, <2>1, <2>4 DEF IInv
<1>7. ASSUME NEW g \in todo, VisitCluster(g) PROVE IInv'
  <2>1. pc = "clusters" /\ UNCHANGED <<pc, i, j, allOK, outcome>>
    BY <1>7 DEF VisitCluster
  <2>2. Reducing'
    BY <1>1, <1>2, <2>1 DEF Reducing
  <2>3. (todo \subseteq Clusters /\ BestOf(Clusters \ todo))'
    BY <1>1, <1>7, <2>1, VisitKeepsBest DEF Visiting
  <2>4. outcome' # "disagree"
    BY <1>1, <2>1 DEF Reducing
  <2>5. Visiting'
    BY <2>1, <2>3, <2>4 DEF Visiting, TrustIsDeterministic
  <2> QED
    BY <1>2, <2>2, <2>5 DEF IInv
<1>8. CASE Decide
  BY <1>2, <1>8, DecidePreserves DEF IInv
<1>9. CASE UNCHANGED vars
  <2>1. UNCHANGED <<pc, i, j, allOK, outcome, todo, best>>
    BY <1>9 DEF vars
  <2>2. \A a, b : Before(a, b)' = Before(a, b)
    BY <2>1 DEF Before
  <2>3. Reducing'
    BY <1>1, <1>2, <2>1, <2>2 DEF Reducing
  <2>4. /\ Clusters' = Clusters /\ Largest' = Largest
        /\ Ranked(DOMAIN snapshots)' = Ranked(DOMAIN snapshots)
        /\ \A g : BestRank(g)' = BestRank(g)
        /\ \A r : Cluster(r)' = Cluster(r)
    BY <1>3 DEF Clusters, Cluster, Largest, RawOf, Ranked, BestRank
  <2>5. BestOf(Clusters \ todo)' <=> BestOf(Clusters \ todo)
    BY <2>1, <2>4 DEF BestOf
  <2>6. TrustIsDeterministic' <=> TrustIsDeterministic
    BY <1>3, <2>1, <2>4 DEF TrustIsDeterministic
  <2> QED
    BY <1>1, <1>2, <2>1, <2>3, <2>4, <2>5, <2>6 DEF IInv, Visiting
<1> QED
  BY <1>4, <1>5, <1>6, <1>7, <1>8, <1>9 DEF Next

\* The invariant holds throughout.
LEMMA Invariance == Spec => []IInv
<1> QED
  BY InitIInv, InductiveStep, PTL DEF Spec

\* Whatever the order in which Go visits the clusters, DefaultPolicy.Judge
\* trusts the sources that agree with the best ranked one, or the first cluster
\* of the fallback sort, and there is exactly one such cluster.
THEOREM TrustIsDetermined == Spec => [](TrustIsDeterministic /\ FallbackIsFirst)
<1>1. IInv => TrustIsDeterministic /\ FallbackIsFirst
  BY LargestIsFirst DEF IInv, Visiting
<1> QED
  BY <1>1, Invariance, PTL

\* applyTolerance's pairs amount to the verdict on the sample.
LEMMA ReducedVerdict ==
    ASSUME \A o \in Overrides : Sensible(o), IInv
    PROVE  OutcomeFitsSample
<1>1. Sensible(tol)
  <2>1. \A c \in MetricCategories : DefaultTolerance(c, LatestFwd).relativePPM = 0
    BY DEF MetricCategories, DefaultTolerance, Plain
  <2> QED
    BY <2>1, ComparisonAssumption, SMT DEF IInv, Inputs, Sensible
<1>2. SUFFICES ASSUME pc = "done", Count >= 2
              PROVE  /\ SomeDiscards <=> (tol.windowed /\ \E s \in Shown : Stale(s))
                     /\ ~SomeDiscards => (AllOk <=> AllClose)
  <2>1. Count \in Nat
    BY ShownIsFinite DEF IInv
  <2> QED
    BY <2>1 DEF OutcomeFitsSample, IInv, Reducing, Count, Shown
<1>3. SomeDiscards <=> (tol.windowed /\ \E s \in Shown : Stale(s))
  BY <1>2, DiscardMeansStale DEF IInv, Taints
<1>4. ASSUME ~SomeDiscards PROVE AllOk <=> AllClose
  BY <1>1, <1>2, <1>4, OkMeansClose, SampleIsClose DEF IInv
<1> QED
  BY <1>3, <1>4

\* applyTolerance returns the verdict on the whole sample, for every number of
\* sources, at every edge of the block range and for every pinned tolerance
\* whose relative slack is at most the whole or never meets negative values
\* (beyond that, a pair near zero may fail where the extremes pass).
THEOREM PairsDecideSample ==
    ASSUME \A o \in Overrides : Sensible(o)
    PROVE  Spec => []OutcomeFitsSample
<1>1. IInv => OutcomeFitsSample
  BY ReducedVerdict
<1> QED
  BY <1>1, Invariance, PTL
===============================================================================
