------------------------------ MODULE Sampling ------------------------------
(***************************************************************************)
(* The block sampling strategies of a run (internal/verification/sampling), *)
(* in the unsigned arithmetic of block numbers: integers wrap at Modulus.   *)
(*                                                                         *)
(* A strategy either yields its blocks at once or walks a range in a loop;  *)
(* the loop itself is stepped by the module that uses it.                   *)
(***************************************************************************)
EXTENDS Integers, FiniteSets, SequencesExt

CONSTANT Modulus   \* 2 to the width of a block number

ASSUME SamplingAssumption == Modulus \in Nat \ {0}

BlockNumber == 0..(Modulus - 1)
MaxBlock == Modulus - 1
Wrap(n) == n % Modulus

FixedList(numbers) ==
    [kind |-> "fixed_list", numbers |-> numbers, n |-> 0, start |-> 0, end |-> 0]
LatestN(n) ==
    [kind |-> "latest_n", numbers |-> <<>>, n |-> n, start |-> 0, end |-> 0]
Random(start, end, count) ==
    [kind |-> "random", numbers |-> <<>>, n |-> count, start |-> start, end |-> end]
SparseSteps(start, end, step) ==
    [kind |-> "sparse_steps", numbers |-> <<>>, n |-> step, start |-> start, end |-> end]

\* The strategies of the code: NewBlockRange refuses the other ranges, and the
\* step is an unsigned number like the blocks.
Kinds == {"fixed_list", "latest_n", "random", "sparse_steps"}
WellFormed(st) ==
    /\ st \in [kind : Kinds, numbers : Seq(BlockNumber), n : Nat, start : BlockNumber, end : BlockNumber]
    /\ st.start <= st.end
    /\ st.kind = "sparse_steps" => st.n \in BlockNumber

\* BlockRange.Len: the whole range of block numbers has length zero.
RangeLen(st) == Wrap(st.end - st.start + 1)

\* Mutant of NoLoop: SparseSteps enters its loop with a step of zero.
NoLoopButStepZero(st) ==
    \/ st.kind = "fixed_list"
    \/ st.kind # "sparse_steps" /\ st.n = 0
    \/ st.kind = "random" /\ (RangeLen(st) = 0 \/ st.n < RangeLen(st))

\* The strategies that return without a loop.
NoLoop(st) ==
    \/ st.kind = "fixed_list"
    \/ st.n = 0
    \/ st.kind = "random" /\ (RangeLen(st) = 0 \/ st.n < RangeLen(st))

\* A finite set of integers, sorted: the place of an element is the number of
\* elements up to it.
Place(S, x) == Cardinality({y \in S : y <= x})
Ascending(S) == [p \in 1..Cardinality(S) |-> CHOOSE x \in S : Place(S, x) = p]

\* What they return.  The generator of Random draws until it has n distinct
\* blocks of the range, and the result is sorted.
Drawn(st) == {Ascending(S) : S \in {T \in SUBSET (st.start..st.end) : Cardinality(T) = st.n}}
AtOnce(st) ==
    IF st.kind = "fixed_list" THEN {st.numbers}
    ELSE IF st.n = 0 \/ RangeLen(st) = 0 THEN {<<>>}
    ELSE Drawn(st)

\* Mutant of LatestCount: the count is not clamped.
LatestCountUnclamped(n, tip) == n

\* LatestN clamps its count to the height of the chain.
LatestCount(n, tip) == IF n > Wrap(tip + 1) THEN Wrap(tip + 1) ELSE n

\* Where the loop of a strategy starts and the last block it visits.
LoopStart(st, tip) ==
    IF st.kind = "latest_n" THEN Wrap(tip - LatestCount(st.n, tip) + 1) ELSE st.start
LoopLast(st, tip) == IF st.kind = "latest_n" THEN tip ELSE st.end

\* The end of an iteration: LatestN and Random count by one and compare with
\* the last block; SparseSteps also leaves when the sum has wrapped.
LoopNext(st, block, last) ==
    IF st.kind = "sparse_steps"
    THEN LET next == Wrap(block + st.n)
         IN  [block |-> next, done |-> next < block \/ next > last]
    ELSE [block |-> Wrap(block + 1), done |-> Wrap(block + 1) > last]
-----------------------------------------------------------------------------
(* What the strategies promise, in plain integers.                         *)

\* blocks is a sample the comment of the strategy's own type allows.  SamplingStrategy
\* asks for ascending order of all four, which FixedList does not promise.
IsSample(st, tip, blocks) ==
    LET picked == ToSet(blocks)
        ascending == \A i \in 1..(Len(blocks) - 1) : blocks[i] < blocks[i + 1]
    IN  CASE st.kind = "fixed_list" -> blocks = st.numbers
          [] st.kind = "latest_n"   -> ascending /\ picked = {b \in 0..tip : b > tip - st.n}
          [] st.kind = "random"     ->
               LET all == st.start..st.end
               IN  /\ ascending /\ picked \subseteq all
                   /\ Cardinality(picked) = IF st.n < Cardinality(all) THEN st.n ELSE Cardinality(all)
          [] st.kind = "sparse_steps" ->
               ascending /\ picked = IF st.n = 0 THEN {}
                                     ELSE {b \in st.start..st.end : (b - st.start) % st.n = 0}
=============================================================================
