----------------------------- MODULE Tolerances -----------------------------
(***************************************************************************)
(* The tolerances of internal/diff: pure functions that judge a pair of    *)
(* value snapshots.  Judge returns ok and needDiscard.                     *)
(*                                                                         *)
(* A snapshot is [raw, reflected].  Raw strings are numbered in their      *)
(* lexicographic order; RawValue gives the integer that parseBigInt reads  *)
(* in one, or NotANumber (the same integer may be written in several ways, *)
(* decimal and hexadecimal).  Block numbers are unsigned integers of Width *)
(* bits and their arithmetic wraps.                                        *)
(***************************************************************************)
EXTENDS Integers

CONSTANTS
    Raws,        \* the raw strings, as 1..n in lexicographic order
    RawValue,    \* RawValue[raw]: the integer it denotes, or NotANumber
    NotANumber,
    Nil,         \* a nil *chain.BlockNumber
    Modulus      \* 2 to the width of a block number

ASSUME TolerancesAssumption ==
    /\ Modulus \in Nat \ {0} /\ Raws \subseteq Nat
    /\ Nil \notin Int /\ NotANumber \notin Int
    /\ RawValue \in [Raws -> Int \cup {NotANumber}]

Block == 0..(Modulus - 1)
Snapshot == [raw : Raws, reflected : Block \cup {Nil}]

Abs(n) == IF n < 0 THEN -n ELSE n
Larger(m, n) == IF m < n THEN n ELSE m
-----------------------------------------------------------------------------
(* The verdicts of Judge.                                                  *)

Verdict(ok, discard) == [ok |-> ok, discard |-> discard]

\* ExactMatch.
ExactMatch(a, b) == Verdict(a.raw = b.raw, FALSE)

\* NumericTolerance; AbsoluteMax may be Nil.
NumericWithin(x, y, absoluteMax, relativePPM) ==
    LET diff == Abs(x - y)
    IN  IF absoluteMax = Nil /\ relativePPM = 0
        THEN diff = 0
        ELSE \/ absoluteMax # Nil /\ diff <= absoluteMax
             \/ /\ relativePPM > 0
                /\ diff * 1000000 <= Larger(Abs(x), Abs(y)) * relativePPM

NumericTolerance(a, b, absoluteMax, relativePPM) ==
    LET x == RawValue[a.raw]
        y == RawValue[b.raw]
    IN  IF x = NotANumber \/ y = NotANumber
        THEN Verdict(FALSE, FALSE)
        ELSE Verdict(NumericWithin(x, y, absoluteMax, relativePPM), FALSE)

\* Observational.
Observational(a, b) == Verdict(TRUE, FALSE)

\* The bounds AnchorWindowed computes in unsigned arithmetic: the lower one is
\* clamped at zero, the upper one at the largest block number when the sum
\* wraps around.
WindowLo(anchor, tolBack) == IF tolBack > anchor THEN 0 ELSE anchor - tolBack

\* Mutant of WindowHi: the overflow guard is missing.
WindowHiUnguarded(anchor, tolFwd) == (anchor + tolFwd) % Modulus

WindowHi(anchor, tolFwd) ==
    LET hi == (anchor + tolFwd) % Modulus
    IN  IF hi < anchor THEN Modulus - 1 ELSE hi

\* A reflected block that AnchorWindowed discards; nil is permissive.
OutOfWindow(rb, anchor, tolBack, tolFwd) ==
    /\ rb # Nil
    /\ rb < WindowLo(anchor, tolBack) \/ rb > WindowHi(anchor, tolFwd)
-----------------------------------------------------------------------------
(* A tolerance is a record: kind is the innermost comparison, windowed     *)
(* tells whether AnchorWindowed is wrapped around it.                      *)

Tolerance == [kind : {"exact", "numeric", "observational"}, windowed : BOOLEAN,
              tolBack : Block, tolFwd : Block, absoluteMax : Int \cup {Nil}, relativePPM : Nat]

Inner(tol, a, b) ==
    CASE tol.kind = "exact"         -> ExactMatch(a, b)
      [] tol.kind = "numeric"       -> NumericTolerance(a, b, tol.absoluteMax, tol.relativePPM)
      [] tol.kind = "observational" -> Observational(a, b)

Judge(tol, a, b, anchor) ==
    IF tol.windowed /\ \E rb \in {a.reflected, b.reflected} :
                          OutOfWindow(rb, anchor, tol.tolBack, tol.tolFwd)
    THEN Verdict(FALSE, TRUE)
    ELSE Inner(tol, a, b)

Plain(kind) == [kind |-> kind, windowed |-> FALSE, tolBack |-> 0, tolFwd |-> 0,
                absoluteMax |-> Nil, relativePPM |-> 0]

MetricCategories == {"blockImmutable", "addressAtBlock", "addressLatest", "snapshot"}

\* DefaultToleranceResolver.For without an override; latestFwd is its 64.
DefaultTolerance(category, latestFwd) ==
    CASE category \in {"blockImmutable", "addressAtBlock"} -> Plain("exact")
      [] category = "addressLatest" -> [Plain("exact") EXCEPT !.windowed = TRUE, !.tolFwd = latestFwd]
      [] category = "snapshot"      -> Plain("observational")
=============================================================================
