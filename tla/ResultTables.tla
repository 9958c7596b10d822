---------------------------- MODULE ResultTables ----------------------------
(***************************************************************************)
(* What a simulator promises its users (the header of PUCCHPERF.m).  Calls *)
(* of step combine, later results overwriting earlier ones of the same     *)
(* SNR; reset and release start from scratch; saved objects resume where   *)
(* they were.  Results are tables that objects hold: an object has one of  *)
(* its own, except that a clone shares that of the object it was made of.  *)
(***************************************************************************)
EXTENDS PucchFormats

CONSTANTS
    Objects,
    Tables,         \* Identities of tables.
    NoTable

VARIABLES
    prop,           \* [Objects -> Properties].
    locked,         \* [Objects -> BOOLEAN].
    holds,          \* [Objects -> Tables or NoTable].
    table           \* [Tables -> [SNR values -> [counters -> Entries]]].

NoResults == [s \in {} |-> [c \in {} |-> 0]]

Row(p, s, n) == [c \in Shown(p) |-> [quantity |-> c, snr |-> s, nFrames |-> n]]

Init ==
    /\ prop \in [Objects -> Properties]
    /\ locked = [o \in Objects |-> FALSE]
    /\ holds = [o \in Objects |-> NoTable]
    /\ table = [h \in Tables |-> NoResults]

HeldByOthers(o) == {holds[y] : y \in Objects \ {o}}

\* Object o holds table h, which shows t; a table nobody holds is empty.
Hold(o, h, t) ==
    /\ holds' = [holds EXCEPT ![o] = h]
    /\ table' = [x \in Tables |->
            IF x = h THEN t ELSE IF x \in HeldByOthers(o) THEN table[x] ELSE NoResults]

\* Object o holds a table of its own.
HoldNew(o, t) == \E h \in Tables \ HeldByOthers(o) : Hold(o, h, t)

Configure(o, p) ==
    /\ ~locked[o]
    /\ prop' = [prop EXCEPT ![o] = p]
    /\ UNCHANGED <<locked, holds, table>>

Setup(o) ==
    /\ ~locked[o]
    /\ prop' = [prop EXCEPT ![o] = TestTypeSet(@)]
    /\ locked' = [locked EXCEPT ![o] = prop[o].checksOK]
    /\ HoldNew(o, NoResults)

Step(o, SNRIn, nFrames) ==
    /\ locked[o]
    /\ table' = [table EXCEPT ![holds[o]] =
            [s \in DOMAIN @ \cup SNRIn |->
                IF s \in SNRIn THEN Row(prop[o], s, nFrames) ELSE @[s]]]
    /\ UNCHANGED <<prop, locked, holds>>

Reset(o) ==
    /\ locked[o]
    /\ table' = [table EXCEPT ![holds[o]] = NoResults]
    /\ UNCHANGED <<prop, locked, holds>>

\* The table is emptied for the clones of o, too.
Release(o) ==
    /\ locked[o]
    /\ locked' = [locked EXCEPT ![o] = FALSE]
    /\ holds' = [holds EXCEPT ![o] = NoTable]
    /\ table' = [table EXCEPT ![holds[o]] = NoResults]
    /\ UNCHANGED prop

CopyState(o, src) ==
    /\ prop' = [prop EXCEPT ![o] = prop[src]]
    /\ locked' = [locked EXCEPT ![o] = locked[src]]

\* Object o becomes a copy of src, with results of its own.
Copy(o, src) ==
    /\ CopyState(o, src)
    /\ IF locked[src] THEN HoldNew(o, table[holds[src]]) ELSE Hold(o, NoTable, NoResults)

\* Object o becomes a clone of src, with the same results.
Clone(o, src) ==
    /\ CopyState(o, src)
    /\ IF locked[src]
       THEN Hold(o, holds[src], table[holds[src]])
       ELSE Hold(o, NoTable, NoResults)

Call(o) ==
    \/ \E p \in Properties : Configure(o, p)
    \/ Setup(o)
    \/ \E SNRIn \in (SUBSET SNRs) \ {{}}, nFrames \in Frames : Step(o, SNRIn, nFrames)
    \/ Reset(o)
    \/ Release(o)
    \/ \E src \in Objects \ {o} : Copy(o, src) \/ Clone(o, src)

Next == \E o \in Objects : Call(o)

vars == <<prop, locked, holds, table>>

Spec == Init /\ [][Next]_vars
=============================================================================
