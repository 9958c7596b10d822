----------------------------- MODULE MexRequests -----------------------------
(***************************************************************************)
(* One call of the classes of +ocuduMEX/+phy other than the PUSCH decoder: *)
(* what the MATLAB method refuses, what it sends to the MEX function, what *)
(* the MEX function aborts, and what the call returns.  A request keeps    *)
(* only the facts about the arguments that these checks tell apart.        *)
(*                                                                         *)
(* A call ends "ok", "refused" (an error of the MATLAB method), "aborted"  *)
(* (mex_abort, or a read of an empty field), "misplaced" (coefficients in  *)
(* REs they do not belong to), "undefined" (the copies leave the memory of *)
(* their buffers, or a division by zero) or "terminated" (the process).    *)
(***************************************************************************)
EXTENDS Integers, Sequences, SequencesExt, FiniteSets

CONSTANTS
    MaxPorts,       \* Rx ports of a resource grid.
    Spacings,       \* Subcarrier spacings in kHz, of those that nrCarrierConfig has.
    MuxLists        \* Lists of multiplexed PUCCH Format 1 transmissions.

ASSUME RequestsAssumption ==
    /\ MaxPorts \in Nat \ {0}
    /\ Spacings \subseteq {15, 30, 60, 120, 240, 480, 960}
    /\ \A list \in MuxLists : list \in Seq([ics : Nat, occi : Nat, bits : Nat])

Classes == {"estimator", "demodulator", "pucch", "prach"}

\* Names and numbers that the conversions of matlab_to_ocudu.h know; any other one
\* terminates the process.
Converts ==
    [modulation |-> {"BPSK", "pi/2-BPSK", "QPSK", "QAM16", "16QAM", "QAM64", "64QAM",
                     "QAM256", "256QAM", "QAM1024", "1024QAM"},
     restrictedSet |-> {"UnrestrictedSet", "RestrictedSetTypeA", "RestrictedSetTypeB"},
     dmrsType |-> {1, 2},
     cyclicPrefix |-> {"normal", "extended"},
     subcarrierSpacing |-> {15, 30, 60, 120, 240}]

\* Names that the classes let through; spacings are part of a request.
Sends(c) ==
    CASE c = "estimator" -> [cyclicPrefix |-> {"normal", "extended"}]
      [] c = "demodulator" ->
            [modulation |-> {"pi/2-BPSK", "QPSK", "16QAM", "64QAM", "256QAM"},
             dmrsType |-> {1, 2}]
      [] c = "pucch" -> [cyclicPrefix |-> {"normal", "extended"}]
      [] c = "prach" ->
            [restrictedSet |-> {"UnrestrictedSet", "RestrictedSetTypeA", "RestrictedSetTypeB"}]

NamesAreKnown(c) == \A k \in DOMAIN Sends(c) : Sends(c)[k] \subseteq Converts[k]

-----------------------------------------------------------------------------
(* ocuduMultiPortChannelEstimator and multiport_channel_estimator_mex.cpp. *)

\* ports: of the grid; indices: number of PortIndices, 1 by default; wellFormed: the
\* allocation ends in the slot, the hop lies in it, refInd has a column per layer and a
\* row per pilot; together: layers 0 and 1, and 2 and 3 of four, share their REs;
\* complementary: layers 2 and 3 are one RE above 0 and 1; isComplex: the pilots are
\* stored as complex; regular: DM-RS in the same REs of all allocated PRBs and DM-RS
\* symbols; contiguous: allocated PRBs.
EstimatorRequests ==
    [ports : 1..MaxPorts, indices : 1..MaxPorts, layers : 1..5, scs : Spacings,
     wellFormed : BOOLEAN, together : BOOLEAN, complementary : BOOLEAN,
     isComplex : BOOLEAN, regular : BOOLEAN, contiguous : BOOLEAN]

\* Columns of refInd that stepMEX uses, every other layer: REPatternCDM1 is empty
\* unless there are two.
CDMGroups(r) == (r.layers + 1) \div 2
SendsCDM1(r) == CDMGroups(r) = 2

\* stepImpl, and stepMEX unless the object is plain.
EstimatorAccepts(plain, r) ==
    /\ r.scs \in {15, 30, 120}
    /\ r.wellFormed
    /\ r.layers <= 4
    /\ r.layers > 1 => r.together
    /\ ~plain /\ CDMGroups(r) = 2 => r.complementary

EstimatorMexEnds(r) ==
    IF ~r.isComplex THEN {"aborted"}
    ELSE IF r.scs \notin Converts.subcarrierSpacing THEN {"terminated"}
    ELSE IF \/ r.layers > 2 /\ ~SendsCDM1(r)
            \/ r.indices # r.ports
            \/ ~r.regular            \* Pilots received and RBs x REs x symbols differ.
    THEN {"aborted"}
    ELSE IF r.contiguous THEN {"ok"} ELSE {"misplaced"}

\* stepPLAIN has no port list and takes real pilots; it counts the PRBs from the first
\* to the last, and reshapes pilots, which may fail.
EstimatorPlainEnds(r) ==
    IF ~r.contiguous THEN {"refused"}
    ELSE IF r.regular THEN {"ok"} ELSE {"ok", "refused"}

NoCFO == -1
NaN == -2

\* The running sum total_cfo.
AddCFO(total, cfo) == IF NaN \in {total, cfo} \/ cfo = NoCFO THEN NaN ELSE total + cfo

\* info_out: one entry per port, and one with the metrics of all if there are more.
Infos(r, cfos) ==
    LET total == FoldLeft(AddCFO, 0, cfos)
    IN  IF r.ports = 1 THEN cfos ELSE Append(cfos, IF total = NaN THEN NoCFO ELSE total)

\* stepPLAIN starts its sum with [], which stays [] whatever is added.
PlainAddCFO(total, cfo) == IF NoCFO \in {total, cfo} THEN NoCFO ELSE total + cfo

PlainInfos(r, cfos) ==
    IF r.ports = 1 THEN cfos ELSE Append(cfos, FoldLeft(PlainAddCFO, NoCFO, cfos))

-----------------------------------------------------------------------------
(* ocuduPUSCHDemodulator and pusch_demodulator_mex.cpp. *)

\* cePorts, ceLayers: of the channel estimates; rxPorts: length of that argument;
\* hasNID: NID is not [], its default; indicesFit: a column of indices per layer, the
\* same REs in all; llrs: the demodulator computes as many soft bits as puschIndices
\* ask for.
DemodulatorRequests ==
    [ports : 1..MaxPorts, cePorts : 1..MaxPorts, ceLayers : 1..2, layers : 1..2,
     rxPorts : 0..MaxPorts, hasNID : BOOLEAN, indicesFit : BOOLEAN, llrs : BOOLEAN]

DemodulatorAccepts(r) ==
    /\ r.ceLayers <= r.cePorts
    /\ r.cePorts = r.ports
    /\ r.rxPorts <= r.ports
    /\ r.ports = 1 => r.rxPorts = 1
    /\ r.indicesFit

\* Each of the rxPorts x layers paths receives the same share of the estimates.
SharesFit(r) == r.rxPorts # 0 /\ r.cePorts * r.ceLayers = r.rxPorts * r.layers

\* pusch_codeword_buffer_spy: a buffer for the bits expected, which has to be filled.
SoftBitsFit(r) == r.llrs

DemodulatorMexEnds(r) ==
    IF ~r.hasNID THEN {"aborted"}
    ELSE IF ~SharesFit(r) \/ ~SoftBitsFit(r) THEN {"undefined"}
    ELSE IF r.ceLayers = r.layers THEN {"ok"}
    ELSE {"misplaced"}
-----------------------------------------------------------------------------
(* ocuduPUCCHProcessor and pucch_processor_mex.cpp. *)

\* hasNID0: NID0 is not [], its default; valid: the validator of the library accepts
\* the configuration; mux: the list MuxFormat1; scs: of the carrier, which the class
\* sends as it is.
PucchRequests ==
    [scs : Spacings, format : 0..4, hasNID0 : BOOLEAN, numSR : 0..2, valid : BOOLEAN,
     mux : MuxLists]

Common ==
    {"SubcarrierSpacing", "NSlot", "CP", "NRxPorts", "NSizeBWP", "NStartBWP", "StartPRB",
     "StartSymbolIndex", "NumOFDMSymbols", "NumHARQAck"}

CodedUCI == {"RNTI", "NumSR", "NumCSIPart1", "NumCSIPart2", "MaxCodeRate"}

Format3And4 == CodedUCI \cup {"NIDHopping", "NIDScrambling", "AdditionalDMRS", "Pi2BPSK"}

\* Fields of mexConfig that are not [] (the second hop may be, and is read with care).
FieldsSent(r) ==
    Common \cup (
    CASE r.format = 0 -> {"NID", "NumSR", "InitialCyclicShift"}
      [] r.format = 1 -> {"NID", "InitialCyclicShift", "OCCI"}
      [] r.format = 2 -> CodedUCI \cup {"NID", "NumPRBs"}
                         \cup (IF r.hasNID0 THEN {"NID0"} ELSE {})
      [] r.format = 3 -> Format3And4 \cup {"NumPRBs"}
      [] r.format = 4 -> Format3And4 \cup {"OCCI", "SpreadingFactor"})

\* populate_f?_configuration: what each reads besides Common.
FieldsOfF0 == {"InitialCyclicShift", "NID", "NumSR"}
FieldsOfF1 == {"InitialCyclicShift", "NID", "OCCI"}
FieldsOfF2 == CodedUCI \cup {"NumPRBs", "NID", "NID0"}
FieldsOfF3 == Format3And4 \cup {"NumPRBs"}

\* Mutant: Format 4 reads what Format 3 does, too.
FieldsOfF4Too == FieldsOfF3 \cup {"OCCI", "SpreadingFactor"}

FieldsOfF4 == Format3And4 \cup {"OCCI", "SpreadingFactor"}

FieldsRead(format) ==
    Common \cup (
    CASE format = 0 -> FieldsOfF0
      [] format = 1 -> FieldsOfF1
      [] format = 2 -> FieldsOfF2
      [] format = 3 -> FieldsOfF3
      [] format = 4 -> FieldsOfF4)

\* Mutant: the factor is the largest cover code.
HashNarrow(e) == 6 * e.ics + e.occi

\* Mutant: entries for different numbers of bits are different.
HashWithBits(e) == 144 * e.bits + 12 * e.ics + e.occi

Hash(e) == 12 * e.ics + e.occi

\* mustBeMultiplexList.
IsMuxList(list) ==
    /\ \A e \in ToSet(list) : e.ics <= 11 /\ e.occi <= 6 /\ e.bits <= 2
    /\ Cardinality({Hash(e) : e \in ToSet(list)}) = Len(list)

PucchAccepts(r) == IsMuxList(r.mux) /\ (r.mux # <<>> => r.format = 1)

Key(e) == <<e.ics, e.occi>>

\* The loop over mux_f1 finds an entry with the key of an earlier one.
HasDuplicates(list) == \E i, j \in DOMAIN list : i < j /\ Key(list[i]) = Key(list[j])

\* Reading a field that is [] is an error.
CanPopulate(r) == FieldsRead(r.format) \subseteq FieldsSent(r)

TooManySRs(r) == r.format = 0 /\ r.numSR > 1

\* populate_f?_configuration converts the spacing before it reads what may be missing.
PucchMexEnds(r) ==
    IF (r.mux # <<>> /\ r.format # 1) \/ TooManySRs(r) THEN {"aborted"}
    ELSE IF r.scs \notin Converts.subcarrierSpacing THEN {"terminated"}
    ELSE IF ~CanPopulate(r) \/ ~r.valid \/ HasDuplicates(r.mux) THEN {"aborted"}
    ELSE {"ok"}

\* The processor returns a map; out lists its results as the request did.
Batch(list) == [k \in {Key(e) : e \in ToSet(list)} |->
                    (CHOOSE e \in ToSet(list) : Key(e) = k).bits]

\* Mutant: results in the order of the map.
PucchResultsByKey(r) ==
    IF r.mux = <<>> THEN <<[bits |-> "NumHARQAck"]>>
    ELSE LET keys == SetToSortSeq(DOMAIN Batch(r.mux),
                        LAMBDA a, b : 12 * a[1] + a[2] < 12 * b[1] + b[2])
         IN  [i \in DOMAIN keys |->
                [ics |-> keys[i][1], occi |-> keys[i][2], bits |-> Batch(r.mux)[keys[i]]]]

PucchResults(r) ==
    IF r.mux = <<>> THEN <<[bits |-> "NumHARQAck"]>>
    ELSE [i \in DOMAIN r.mux |->
            [ics |-> r.mux[i].ics, occi |-> r.mux[i].occi, bits |-> Batch(r.mux)[Key(r.mux[i])]]]

-----------------------------------------------------------------------------
(* ocuduPRACHDetector and prach_detector_mex.cpp. *)

\* samples: rows of the array of symbols; isComplex: MATLAB stores it as complex;
\* valid: the validator of the library accepts the configuration; fits: the buffer made
\* for that many samples is the one of the format and has room for all symbols.
PrachRequests ==
    [samples : {839, 139, 100}, isComplex : BOOLEAN, valid : BOOLEAN, fits : BOOLEAN]

PrachMexEnds(r) ==
    IF ~r.isComplex \/ ~r.valid \/ r.samples \notin {839, 139} THEN {"aborted"}
    ELSE IF r.fits THEN {"ok"} ELSE {"undefined"}
=============================================================================
