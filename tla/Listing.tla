------------------------------ MODULE Listing ------------------------------
(***************************************************************************)
(* The lists that the code makes of other lists: comprehensions with a     *)
(* condition, and sorted().  SelectSeq and SortSeq say the same; these are *)
(* defined by the sets that are listed, which the proofs can reason about. *)
(***************************************************************************)
EXTENDS Integers, FiniteSets, SequencesExt

\* The pairs of elements of a list of which the first stands before the
\* second.
Order(list) ==
    {pair \in ToSet(list) \X ToSet(list) :
        \E i, j \in 1..Len(list) :
            i < j /\ list[i] = pair[1] /\ list[j] = pair[2]}

\* sorted(): a finite set as a list, by a strict total order of it.
Sorted(S, before) ==
    [k \in 1..Cardinality(S) |->
        CHOOSE x \in S : Cardinality({y \in S : <<y, x>> \in before}) = k - 1]

\* [x for x in list if x in kept].
Filtered(list, kept) ==
    LET places == {i \in 1..Len(list) : list[i] \in kept}
        place == Sorted(places, {pair \in places \X places : pair[1] < pair[2]})
    IN  [k \in 1..Cardinality(places) |-> list[place[k]]]

=============================================================================
