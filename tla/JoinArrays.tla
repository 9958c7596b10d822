----------------------------- MODULE JoinArrays -----------------------------
(***************************************************************************)
(* How the simulators combine the results of successive calls: by          *)
(* position.  PUCCHPERF has joinArrays in private/, PUSCHBLER a local      *)
(* function of the same name and text.                                     *)
(***************************************************************************)
EXTENDS Integers, Sequences, SequencesExt, FiniteSets

\* The elements of a finite set in the order before, a set of pairs: each comes after as
\* many others as are before it.
Ranked(S, before) ==
    [i \in 1..Cardinality(S) |->
        CHOOSE x \in S : Cardinality({y \in S : <<y, x>> \in before}) = i - 1]

Ascending(S) == Ranked(S, {pair \in S \X S : pair[1] < pair[2]})

\* Mutant: values simulated again are added again.
RepeatedIdxNone(range, SNRIn) == {i \in DOMAIN range : SNRIn = <<>>}

\* intersect(obj.SNRrange, SNRIn): the positions of what is simulated again.
RepeatedIdx(range, SNRIn) == {i \in DOMAIN range : range[i] \in ToSet(SNRIn)}

\* array(idx) = [].
RemoveIdx(array, idx) ==
    LET kept == Ascending(DOMAIN array \ idx)
    IN  [i \in DOMAIN kept |-> array[kept[i]]]

\* The second result of sort, which is stable.
SortedIdx(values) ==
    LET positions == DOMAIN values
        before == {pair \in positions \X positions :
                      \/ values[pair[1]] < values[pair[2]]
                      \/ values[pair[1]] = values[pair[2]] /\ pair[1] < pair[2]}
    IN  Ranked(positions, before)

\* joinArrays fails: a position that does not exist, or rows of width 1 on top of
\* wider ones (without any row on top the widths need not agree).
JoinFails(array, new, width, repeatedIdx, sortedIdx) ==
    \/ ~(repeatedIdx \subseteq DOMAIN array)
    \/ width # 1 /\ DOMAIN array \ repeatedIdx # {}
    \/ \E i \in DOMAIN sortedIdx :
            sortedIdx[i] > Len(RemoveIdx(array, repeatedIdx)) + Len(new)

\* Mutant: the new rows stay at the end.
joinArraysUnsorted(array, new, repeatedIdx, sortedIdx) ==
    RemoveIdx(array, repeatedIdx) \o new

\* joinArrays when it succeeds: positions of sortedIdx beyond its own length,
\* those of old rows in an array that is too long, are dropped.
joinArrays(array, new, repeatedIdx, sortedIdx) ==
    LET mixedArray == RemoveIdx(array, repeatedIdx) \o new
    IN  [i \in DOMAIN sortedIdx |-> mixedArray[sortedIdx[i]]]
=============================================================================
