----------------------------- MODULE PucchPerf -----------------------------
(***************************************************************************)
(* Objects of class PUCCHPERF (@PUCCHPERF) and the results they collect.   *)
(* MATLAB runs one call at a time, so that a call of step is one action    *)
(* (its slots are in PucchPoint).  The results are in an object of class   *)
(* FormatDetails, to which the simulator holds a handle: heap maps handles *)
(* to what they refer to.                                                  *)
(***************************************************************************)
EXTENDS FormatDetails

CONSTANTS
    Objects,
    UserProperties, \* Configurations that users set.
    NoHandle,       \* FormatDetails is [].
    NoDetails       \* What a handle nobody holds refers to.

ASSUME ObjectsAssumption == IsFiniteSet(Objects) /\ Objects # {} /\ NoHandle \notin Objects

ASSUME NoDetailsAssumption == ~IsDetails(NoDetails)

ASSUME UserPropertiesAssumption ==
    UserProperties \subseteq Properties
    /\ \A p \in UserProperties : TestTypeSet(p) \in UserProperties

\* MATLAB handles: one per object is enough.
Handles == Objects

VARIABLES
    prop,           \* [Objects -> Properties]: nontunable properties.
    locked,         \* [Objects -> BOOLEAN]: isLocked(obj).
    FormatDetailsOf,\* [Objects -> Handles or NoHandle]: the handle.
    heap,           \* [Handles -> details or NoDetails].
    call            \* The object last called and how the call ended.

vars == <<prop, locked, FormatDetailsOf, heap, call>>

Ends == {"ok", "rejected", "failed"}

\* A locked object has details, and they are those of its configuration.
DetailsFit ==
    \A o \in Objects : locked[o] =>
        FormatDetailsOf[o] # NoHandle /\ heap[FormatDetailsOf[o]].prop = prop[o]

TypeOK ==
    /\ prop \in [Objects -> UserProperties]
    /\ locked \in [Objects -> BOOLEAN]
    /\ FormatDetailsOf \in [Objects -> Handles \cup {NoHandle}]
    /\ DOMAIN heap = Handles
    /\ \A h \in Handles :
          IF \E o \in Objects : FormatDetailsOf[o] = h
          THEN IsDetails(heap[h]) ELSE heap[h] = NoDetails
    /\ call \in [obj : Objects, end : Ends]
    /\ DetailsFit

Called(o, end) == call' = [obj |-> o, end |-> end]

\* Object o holds handle h from now on, and h refers to d; a handle that nobody
\* holds any more refers to nothing.
Assign(o, h, d) ==
    /\ FormatDetailsOf' = [FormatDetailsOf EXCEPT ![o] = h]
    /\ heap' = [x \in Handles |->
            IF x = h THEN d
            ELSE IF \E y \in Objects \ {o} : FormatDetailsOf[y] = x THEN heap[x]
            ELSE NoDetails]

\* A handle for a new object held by o.
NewHandle(o) ==
    CHOOSE h \in Handles : \A y \in Objects \ {o} : FormatDetailsOf[y] # h

Init ==
    /\ prop \in [Objects -> UserProperties]
    /\ locked = [o \in Objects |-> FALSE]
    /\ FormatDetailsOf = [o \in Objects |-> NoHandle]
    /\ heap = [h \in Handles |-> NoDetails]
    /\ call \in [obj : {CHOOSE o \in Objects : TRUE}, end : {"ok"}]

\* Mutant: the configuration of a locked object can be changed.
ConfigureTunable(o, p) ==
    /\ prop' = [prop EXCEPT ![o] = p]
    /\ Called(o, "ok")
    /\ UNCHANGED <<locked, FormatDetailsOf, heap>>

\* Nontunable properties can be set while the object is not locked.
Configure(o, p) ==
    /\ ~locked[o]
    /\ prop' = [prop EXCEPT ![o] = p]
    /\ Called(o, "ok")
    /\ UNCHANGED <<locked, FormatDetailsOf, heap>>

\* setupImpl, called by setup or by the first step: it creates the details, then
\* checks the configuration (the reset that follows finds nothing to clear).
Setup(o) ==
    /\ ~locked[o]
    /\ prop' = [prop EXCEPT ![o] = TestTypeSet(@)]
    /\ Assign(o, NewHandle(o), NewDetails(prop'[o]))
    /\ locked' = [locked EXCEPT ![o] = prop[o].checksOK]
    /\ Called(o, IF prop[o].checksOK THEN "ok" ELSE "rejected")

\* stepImpl: SNRIn is sorted and without repetitions (unique).
Step(o, SNRIn, nFrames) ==
    /\ locked[o]
    /\ LET out == UpdateOutcome(heap[FormatDetailsOf[o]], SNRIn, nFrames)
       IN  /\ heap' = [heap EXCEPT ![FormatDetailsOf[o]] = out.details]
           /\ Called(o, IF out.failed THEN "failed" ELSE "ok")
    /\ UNCHANGED <<prop, locked, FormatDetailsOf>>

\* resetImpl.
Reset(o) ==
    /\ locked[o]
    /\ heap' = [heap EXCEPT ![FormatDetailsOf[o]] = ResetDetails(@)]
    /\ Called(o, "ok")
    /\ UNCHANGED <<prop, locked, FormatDetailsOf>>

\* releaseImpl: reset, then drop the handle.
Release(o) ==
    /\ locked[o]
    /\ locked' = [locked EXCEPT ![o] = FALSE]
    /\ FormatDetailsOf' = [FormatDetailsOf EXCEPT ![o] = NoHandle]
    /\ heap' = [heap EXCEPT ![FormatDetailsOf[o]] =
            IF \E y \in Objects \ {o} : FormatDetailsOf[y] = FormatDetailsOf[o]
            THEN ResetDetails(@) ELSE NoDetails]
    /\ Called(o, "ok")
    /\ UNCHANGED prop

CopyState(o, src) ==
    /\ prop' = [prop EXCEPT ![o] = prop[src]]
    /\ locked' = [locked EXCEPT ![o] = locked[src]]
    /\ Called(o, "ok")

\* saveObjectImpl and loadObjectImpl through a file: o becomes the object saved,
\* with its own copy of the details (saved when locked only).
Reload(o, src) ==
    /\ CopyState(o, src)
    /\ IF locked[src]
       THEN Assign(o, NewHandle(o), heap[FormatDetailsOf[src]])
       ELSE Assign(o, NoHandle, NoDetails)

\* clone: the same methods without a file, so that it is the handle that is copied.
Clone(o, src) ==
    /\ CopyState(o, src)
    /\ IF locked[src]
       THEN Assign(o, FormatDetailsOf[src], heap[FormatDetailsOf[src]])
       ELSE Assign(o, NoHandle, NoDetails)

\* unique(SNRIn).
Unique(S) == Ascending(S)

CONSTANT SNRLists   \* The sets of SNR values users simulate with one call, by format.

ASSUME SNRListsAssumption ==
    /\ SNRLists \in [0..4 -> SUBSET ((SUBSET SNRs) \ {{}})]
    /\ \A format \in 0..4 : \A S \in SNRLists[format] : IsFiniteSet(S)

Call(o) ==
    \/ \E p \in UserProperties : Configure(o, p)
    \/ Setup(o)
    \/ \E S \in SNRLists[prop[o].PUCCHFormat], nFrames \in Frames :
            Step(o, Unique(S), nFrames)
    \/ Reset(o)
    \/ Release(o)
    \/ \E src \in Objects \ {o} : Reload(o, src) \/ Clone(o, src)

Next == \E o \in Objects : Call(o)

Spec == Init /\ [][Next]_vars

-----------------------------------------------------------------------------
(***************************************************************************)
(* Properties.                                                             *)
(***************************************************************************)

Results == {heap[h] : h \in {x \in Handles : heap[x] # NoDetails}}

\* Position of an SNR value in SNRrange.
PositionOf(d, s) == CHOOSE i \in DOMAIN d.SNRrange : d.SNRrange[i] = s

\* What the property Counters shows of the details d, as a table.
TableOf(d) ==
    [s \in ToSet(d.SNRrange) |->
        [c \in Shown(d.prop) |->
            IF PositionOf(d, s) \in DOMAIN d.ctr[c] THEN d.ctr[c][PositionOf(d, s)]
            ELSE NoDetails]]

Promise == INSTANCE ResultTables WITH
    Tables <- Handles, NoTable <- NoHandle, holds <- FormatDetailsOf,
    table <- [h \in Handles |->
        IF heap[h] = NoDetails THEN [s \in {} |-> [c \in {} |-> 0]] ELSE TableOf(heap[h])]

\* The simulator keeps its promise: calls of step combine, whatever the order of
\* the SNR values and however many are simulated again.
ResultsCombine == Promise!Spec

\* The SNR values are sorted and without repetitions, and the first counter has one
\* row for each of them, about that SNR value: also for clones, which hold the same
\* details and add rows to each other's results, and after any reset.
FirstCounterMatches ==
    \A d \in Results :
        LET first == d.ctr[Exported(d.prop)[1]]
        IN  /\ \A i, j \in DOMAIN d.SNRrange : i < j => d.SNRrange[i] < d.SNRrange[j]
            /\ DOMAIN first = DOMAIN d.SNRrange
            /\ \A i \in DOMAIN first : first[i].snr = d.SNRrange[i]

\* "Successive calls of the step method will result in a combined set of simulation
\* results spanning all the provided SNR values": no call fails.
StepsSucceed == call.end # "failed"

\* "Call the reset method to start a new simulation from scratch": each row of each
\* counter is about the SNR value shown next to it.
RowsMatch ==
    \A d \in Results, c \in UNION {Shown(d1.prop) : d1 \in Results} :
        c \in Shown(d.prop) =>
            \A i \in DOMAIN d.SNRrange \cap DOMAIN d.ctr[c] :
                d.ctr[c][i].snr = d.SNRrange[i]
=============================================================================
