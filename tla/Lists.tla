------------------------------- MODULE Lists -------------------------------
(***************************************************************************)
(* What the loops of the query pipeline (src/query.go) do to slices, as    *)
(* recursive functions over the index, and the references for an order and *)
(* a sum.  A relation is a set of pairs.                                   *)
(***************************************************************************)
EXTENDS Integers, Sequences, FiniteSets, SequencesExt

\* A loop that appends the elements it finds in S.
Kept(list, S) ==
    LET kept[i \in 0..Len(list)] ==
            IF i = 0 THEN <<>>
            ELSE IF list[i] \in S THEN Append(kept[i - 1], list[i]) ELSE kept[i - 1]
    IN  kept[Len(list)]

\* Insertion from the end, past the elements that must come later.
Inserted(sorted, x, less) ==
    LET stops == {0} \cup {j \in DOMAIN sorted : <<x, sorted[j]>> \notin less} IN
    InsertAt(sorted, Max(stops) + 1, x)

\* sort.SliceStable: insertion, as it sorts up to twenty elements.
SliceStable(list, less) ==
    LET sorted[i \in 0..Len(list)] ==
            IF i = 0 THEN <<>> ELSE Inserted(sorted[i - 1], list[i], less)
    IN  sorted[Len(list)]

\* A loop that adds up and rounds every sum.
Total(list, round) ==
    LET total[i \in 0..Len(list)] == IF i = 0 THEN 0 ELSE round[total[i - 1] + list[i]]
    IN  total[Len(list)]

\* The sum of f over S.
Summed(f, S) == MapThenSumSet(LAMBDA x : f[x], S)

\* The elements of S, each at the place that the number of those before it gives.
Ranked(S, before) == [i \in 1..Cardinality(S) |->
    CHOOSE x \in S : Cardinality({y \in S : <<y, x>> \in before}) = i - 1]
=============================================================================
