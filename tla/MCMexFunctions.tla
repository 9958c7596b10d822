--------------------------- MODULE MCMexFunctions ---------------------------
(* MexFunctions with two objects, two settings and lists of up to two PUCCHs. *)
EXTENDS MexFunctions

Entry(ics, occi, bits) == [ics |-> ics, occi |-> occi, bits |-> bits]

\* (0, 6) and (1, 0) have the same hash if its factor is at most 6; an entry out of
\* bounds; the same pair with other bits.
Entries == {Entry(0, 6, 1), Entry(1, 0, 2), Entry(1, 0, 0), Entry(12, 0, 0)}

MCMuxLists == {<<>>} \cup {<<e>> : e \in Entries} \cup {<<e, f>> : e, f \in Entries}
=============================================================================
