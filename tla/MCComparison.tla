---------------------------- MODULE MCComparison ----------------------------
(***************************************************************************)
(* The TLC instance of Comparison: raw strings such as "0x1", "1", "2",    *)
(* "3" and "n/a" in lexicographic order, and block numbers of three bits.  *)
(***************************************************************************)
EXTENDS Comparison

\* Two spellings of one number, and a third number that makes closeness within
\* one intransitive.
MCRaws == 1..5
MCValues == <<1, 1, 2, 3, NotANumber>>

Numeric(absoluteMax, relativePPM) ==
    [Plain("numeric") EXCEPT !.absoluteMax = absoluteMax, !.relativePPM = relativePPM]

\* Numeric slack of every form, and windows reaching past both ends.
Pinned == {Numeric(Nil, 0), Numeric(1, 0), Numeric(Nil, 500000), Numeric(0, 400000)}
          \cup {[Plain("exact") EXCEPT !.windowed = TRUE, !.tolBack = 2, !.tolFwd = f] : f \in {1, 7}}
=============================================================================
