---------------------------- MODULE MexFunctions ----------------------------
(***************************************************************************)
(* Objects of one of the classes of MexRequests in front of their MEX      *)
(* function.  MATLAB loads a MEX function once: its MexFunction object,    *)
(* with the one processor it points to, serves every object of the class.  *)
(* The estimator and the demodulator are created anew by each setup; the   *)
(* PUCCH processor and the PRACH detector, with the MexFunction object.    *)
(***************************************************************************)
EXTENDS MexRequests

CONSTANTS
    Objects,
    Settings,       \* Smoothing, interpolation and CFO; or the equalizer.
    NoMEX,          \* ImplementationType 'noMEX': the object does without the MEX.
    Fixed,          \* The processor of a MexFunction object that has one for ever.
    Null,
    Nobody

ASSUME MexFunctionsAssumption ==
    /\ NoMEX \notin Settings \cup {Fixed}
    /\ Null \notin Settings \cup {Fixed}
    /\ Nobody \notin Objects

VARIABLES
    class,          \* The class whose objects are modelled.
    setting,        \* [Objects -> settings]: the nontunable properties.
    locked,         \* [Objects -> BOOLEAN]: isLocked(obj).
    processor,      \* The unique_ptr: the settings it was created with, or Null.
    lastSetup,      \* The object whose setup created the processor.
    reply           \* The last call of step and how it ended.

vars == <<class, setting, locked, processor, lastSetup, reply>>

SettingsOf(c) ==
    CASE c = "estimator" -> Settings \cup {NoMEX}
      [] c = "demodulator" -> Settings
      [] OTHER -> {Fixed}

Requests(c) ==
    CASE c = "estimator" -> EstimatorRequests
      [] c = "demodulator" -> DemodulatorRequests
      [] c = "pucch" -> PucchRequests
      [] c = "prach" -> PrachRequests

Ends == {"ok", "refused", "aborted", "misplaced", "undefined", "terminated"}

NoReply == [obj |-> Nobody, end |-> "ok"]

TypeOK ==
    /\ class \in Classes
    /\ setting \in [Objects -> SettingsOf(class)]
    /\ locked \in [Objects -> BOOLEAN]
    /\ processor \in Settings \cup {Fixed, Null}
    /\ lastSetup \in Objects \cup {Nobody}
    /\ \/ reply = NoReply
       \/ /\ reply.obj \in Objects
          /\ reply.request \in Requests(class)
          /\ reply.end \in Ends

Init ==
    /\ class \in Classes
    /\ setting \in [Objects -> SettingsOf(class)]
    /\ locked = [o \in Objects |-> FALSE]
    /\ processor = Null
    /\ lastSetup = Nobody
    /\ reply = NoReply

\* Nontunable properties can be set while the object is not locked.
Configure(o, s) ==
    /\ ~locked[o]
    /\ setting' = [setting EXCEPT ![o] = s]
    /\ UNCHANGED <<class, locked, processor, lastSetup, reply>>

\* Mutant: a processor is created only if there is none.
CreatesFirstProcessor(o) ==
    /\ ~locked[o] /\ class \in {"estimator", "demodulator"} /\ setting[o] # NoMEX
    /\ processor = Null

\* Mutant: an object that does without the MEX creates a processor, too.
CreatesAlways(o) == ~locked[o] /\ class \in {"estimator", "demodulator"}

\* method_new: assigns the unique_ptr, which deletes the previous processor.
CreatesProcessor(o) ==
    ~locked[o] /\ class \in {"estimator", "demodulator"} /\ setting[o] # NoMEX

\* setupImpl, called by setup or by the first step.
SetUp(o) ==
    /\ locked' = [locked EXCEPT ![o] = TRUE]
    /\ IF CreatesProcessor(o)
       THEN processor' = setting[o] /\ lastSetup' = o
       ELSE UNCHANGED <<processor, lastSetup>>

Setup(o) ==
    /\ ~locked[o]
    /\ SetUp(o)
    /\ UNCHANGED <<class, setting, reply>>

\* The arguments block and the asserts of stepImpl.
Accepts(o, r) ==
    CASE class = "estimator" -> EstimatorAccepts(setting[o] = NoMEX, r)
      [] class = "demodulator" -> DemodulatorAccepts(r)
      [] class = "pucch" -> PucchAccepts(r)
      [] class = "prach" -> TRUE

\* How method_step ends with the processor p; only the demodulator is not checked.
MexEnds(p, r) ==
    IF ~NamesAreKnown(class) THEN {"ok", "terminated"} ELSE
    CASE class = "estimator" -> IF p = Null THEN {"aborted"} ELSE EstimatorMexEnds(r)
      [] class = "demodulator" ->
            IF DemodulatorMexEnds(r) # {"aborted"} /\ p = Null THEN {"undefined"}
            ELSE DemodulatorMexEnds(r)
      [] class = "pucch" -> PucchMexEnds(r)
      [] class = "prach" -> PrachMexEnds(r)

\* The CFOs that the estimator of each port may report; that of stepPLAIN has one if
\* the DM-RS symbols permit, which are the same for all ports.
CFOs(r) == [1..r.ports -> {NoCFO, 1}]
PlainCFOs(r) == {cfos \in CFOs(r) : \A i, j \in DOMAIN cfos : cfos[i] = cfos[j]}

\* What a successful call returns (soft bits and detections are left out).
Results(o, r) ==
    CASE class = "estimator" /\ setting[o] = NoMEX -> {PlainInfos(r, cfos) : cfos \in PlainCFOs(r)}
      [] class = "estimator" /\ setting[o] # NoMEX -> {Infos(r, cfos) : cfos \in CFOs(r)}
      [] class = "pucch" -> {PucchResults(r)}
      [] OTHER -> {<<>>}

\* stepImpl.  The call is served with the settings of the processor, whose object
\* need not be o.  The first call of the class loads the MexFunction object, whose
\* constructor creates the processor that is never replaced.
Step(o, r) ==
    /\ IF locked[o] THEN UNCHANGED <<locked, processor, lastSetup>>
       ELSE IF class \in {"pucch", "prach"}
       THEN /\ locked' = [locked EXCEPT ![o] = TRUE]
            /\ processor' = IF Accepts(o, r) THEN Fixed ELSE processor
            /\ UNCHANGED lastSetup
       ELSE SetUp(o)
    /\ \E end \in IF ~Accepts(o, r) THEN {"refused"}
                  ELSE IF setting[o] = NoMEX THEN EstimatorPlainEnds(r)
                  ELSE MexEnds(processor', r) :
         \E results \in IF end = "ok" THEN Results(o, r) ELSE {<<>>} :
            reply' = [obj |-> o, request |-> r, end |-> end, results |-> results,
                      by |-> IF setting[o] = NoMEX THEN NoMEX ELSE processor']
    /\ UNCHANGED <<class, setting>>

\* Mutant: the processor is deleted with the object.
ReleaseDeletes(o) ==
    /\ locked[o]
    /\ locked' = [locked EXCEPT ![o] = FALSE]
    /\ processor' = Null
    /\ UNCHANGED <<class, setting, lastSetup, reply>>

\* The classes have no releaseImpl: the MEX function is not told.
Release(o) ==
    /\ locked[o]
    /\ locked' = [locked EXCEPT ![o] = FALSE]
    /\ UNCHANGED <<class, setting, processor, lastSetup, reply>>

Call(o) ==
    \/ \E s \in SettingsOf(class) : Configure(o, s)
    \/ Setup(o)
    \/ \E r \in Requests(class) : Step(o, r)
    \/ Release(o)

\* The caller has the outputs of step, or its error.
Return ==
    /\ reply # NoReply /\ reply.end # "terminated"
    /\ reply' = NoReply
    /\ UNCHANGED <<class, setting, locked, processor, lastSetup>>

\* The process is gone, with its objects and its MEX functions; another is started.
Restart ==
    /\ reply # NoReply /\ reply.end = "terminated"
    /\ setting' \in [Objects -> SettingsOf(class)]
    /\ locked' = [o \in Objects |-> FALSE]
    /\ processor' = Null
    /\ lastSetup' = Nobody
    /\ reply' = NoReply
    /\ UNCHANGED class

\* One thread of MATLAB makes all calls, each when the one before has returned.
Next ==
    \/ reply = NoReply /\ \E o \in Objects : Call(o)
    \/ Return
    \/ Restart

Spec == Init /\ [][Next]_vars
-----------------------------------------------------------------------------
(***************************************************************************)
(* Properties.                                                             *)
(***************************************************************************)

\* An object that is set up never finds the MEX function without its processor,
\* whatever other objects do: the demodulator dereferences it unchecked.
LockedHasProcessor ==
    class \in {"estimator", "demodulator"} =>
        \A o \in Objects : locked[o] /\ setting[o] # NoMEX => processor # Null

\* The object whose setup was the last is served with its own settings for as long
\* as it stays set up.  (Of other objects this is not true.)
LastSetupRules ==
    \A o \in Objects :
        o = lastSetup /\ locked[o] /\ setting[o] # NoMEX => processor = setting[o]

\* What a class lets through although its MEX function cannot serve it: a list of ports
\* that is not the grid's, as by default, pilots stored as real numbers, pilots that are
\* not in the same REs everywhere, and PRBs with gaps; a list of ports or layers that are
\* not those of the estimates, no NID, as by default, and indices of too few or too many
\* soft bits; no NID0 in Format 2, as by default, several SR bits in Format 0, the two
\* greatest spacings of a carrier, and what the library calls invalid; symbols of another
\* size or number, or stored as real numbers.
Unserved(c, r) ==
    CASE c = "estimator" ->
            r.indices # r.ports \/ ~r.isComplex \/ ~r.regular \/ ~r.contiguous
      [] c = "demodulator" ->
            \/ r.rxPorts # r.ports \/ r.layers # r.ceLayers
            \/ ~r.hasNID \/ ~r.llrs
      [] c = "pucch" ->
            \/ ~r.valid \/ r.scs \in {480, 960}
            \/ r.format = 2 /\ ~r.hasNID0
            \/ r.format = 0 /\ r.numSR > 1
      [] c = "prach" ->
            ~r.valid \/ ~r.isComplex \/ ~r.fits \/ r.samples = 100

\* Nothing else goes wrong behind a class: each format sends the fields it reads, the
\* checks that are made in MATLAB and again, in other terms, in the MEX function do not
\* disagree, and there is a processor.  Only the spacing of a carrier ends the process.
OnlyKnownGaps ==
    reply # NoReply =>
        /\ reply.end \notin {"ok", "refused"} => Unserved(class, reply.request)
        /\ reply.end = "terminated" => class = "pucch" /\ reply.request.scs \in {480, 960}

\* The class refuses a list of PUCCHs of Format 1 exactly if one is out of bounds or two
\* are the same: the MEX function would find duplicates only after the validation of
\* each entry, and good lists are not taken for bad ones.
DuplicatesStayInMatlab ==
    reply # NoReply /\ class = "pucch" /\ reply.request.format = 1 =>
        LET list == reply.request.mux
        IN  reply.end = "refused"
            <=> \/ \E e \in ToSet(list) : e.ics > 11 \/ e.occi > 6 \/ e.bits > 2
                \/ HasDuplicates(list)

\* The answers are those of the request: one result per PUCCH listed, in the order of
\* the list, for the bits asked for.  A frequency offset over all ports comes from the MEX
\* function if and only if each port has one.  (Of stepPLAIN this is not true.)
ResultsAnswerRequest ==
    reply # NoReply /\ reply.end = "ok" =>
        /\ class = "pucch" /\ reply.request.mux # <<>> => reply.results = reply.request.mux
        /\ class = "estimator" /\ reply.by # NoMEX =>
              (Last(reply.results) = NoCFO
               <=> \E i \in 1..reply.request.ports : reply.results[i] = NoCFO)
=============================================================================
