------------------------- MODULE MexFunctionsProofs -------------------------
(***************************************************************************)
(* Proofs about MexFunctions, for any number of objects, settings and      *)
(* receive ports, and for lists of multiplexed PUCCHs of any length.       *)
(*                                                                         *)
(* The first part is about requests: what the MATLAB class accepts is what *)
(* the MEX function can serve.  The second part is about the processor that *)
(* objects share.                                                          *)
(***************************************************************************)
EXTENDS MexFunctions, FiniteSetTheorems, SequenceTheorems, TLAPS

-----------------------------------------------------------------------------
(***************************************************************************)
(* Requests.                                                               *)
(***************************************************************************)

\* Within the bounds of mustBeMultiplexList, entries with the same hash have the same key.
LEMMA HashTellsKeysApart ==
    ASSUME NEW e \in [ics : Nat, occi : Nat, bits : Nat],
           NEW f \in [ics : Nat, occi : Nat, bits : Nat],
           e.occi <= 6, f.occi <= 6
    PROVE  Hash(e) = Hash(f) <=> Key(e) = Key(f)
PROOF
<1>1. ASSUME NEW a \in Nat, NEW b \in 0..6, NEW c \in Nat, NEW d \in 0..6
      PROVE  12 * a + b = 12 * c + d <=> a = c /\ b = d
  BY <1>1
<1>2. e.ics \in Nat /\ e.occi \in 0..6 /\ f.ics \in Nat /\ f.occi \in 0..6
  OBVIOUS
<1>3. Hash(e) = Hash(f) <=> e.ics = f.ics /\ e.occi = f.occi
  BY <1>1, <1>2 DEF Hash
<1>4. Key(e) = Key(f) <=> e.ics = f.ics /\ e.occi = f.occi
  BY DEF Key
<1> QED BY <1>3, <1>4

\* A sequence has as many distinct hashes as elements if and only if no two elements
\* have the same hash.
LEMMA DistinctHashes ==
    ASSUME NEW list \in Seq([ics : Nat, occi : Nat, bits : Nat])
    PROVE  Cardinality({Hash(e) : e \in ToSet(list)}) = Len(list)
           <=> \A i, j \in DOMAIN list : Hash(list[i]) = Hash(list[j]) => i = j
PROOF
<1> DEFINE D == 1..Len(list)
           T == {Hash(e) : e \in ToSet(list)}
           h == [i \in D |-> Hash(list[i])]
<1>1. DOMAIN list = D /\ Len(list) \in Nat
  OBVIOUS
<1>2. T = {h[i] : i \in D}
  BY <1>1 DEF ToSet
<1>3. h \in Surjection(D, T)
  BY <1>2 DEF Surjection
<1>4. IsFiniteSet(D) /\ Cardinality(D) = Len(list)
  BY <1>1, FS_Interval
<1>5. Cardinality(T) = Cardinality(D) <=> h \in Injection(D, T)
  <2> HIDE DEF D, T, h
  <2> QED BY <1>3, <1>4, FS_Surjection
<1>6. h \in Injection(D, T) <=> \A i, j \in D : Hash(list[i]) = Hash(list[j]) => i = j
  BY <1>3 DEF Injection, Surjection, IsInjective
<1> QED BY <1>1, <1>4, <1>5, <1>6

\* The check of the class and the check of the MEX function, one on hashes and one on
\* keys, agree on every list within the bounds.
LEMMA ChecksAgree ==
    ASSUME NEW list \in MuxLists
    PROVE  IsMuxList(list)
           <=> /\ \A e \in ToSet(list) : e.ics <= 11 /\ e.occi <= 6 /\ e.bits <= 2
               /\ ~HasDuplicates(list)
PROOF
<1> DEFINE Bounded == \A e \in ToSet(list) : e.ics <= 11 /\ e.occi <= 6 /\ e.bits <= 2
<1>1. list \in Seq([ics : Nat, occi : Nat, bits : Nat]) /\ DOMAIN list = 1..Len(list)
      /\ Len(list) \in Nat
  BY RequestsAssumption
<1>2. ASSUME NEW i \in DOMAIN list
      PROVE  list[i] \in ToSet(list) /\ list[i] \in [ics : Nat, occi : Nat, bits : Nat]
  <2>1. list[i] \in ToSet(list)
    BY DEF ToSet
  <2>2. list[i] \in [ics : Nat, occi : Nat, bits : Nat]
    BY <1>1, ElementOfSeq
  <2> QED BY <2>1, <2>2
<1>3. ASSUME Bounded
      PROVE  \A i, j \in DOMAIN list :
                Hash(list[i]) = Hash(list[j]) <=> Key(list[i]) = Key(list[j])
  BY <1>2, <1>3, HashTellsKeysApart
<1>4. HasDuplicates(list)
      <=> \E i, j \in DOMAIN list : i # j /\ Key(list[i]) = Key(list[j])
  <2>1. \A i, j \in DOMAIN list : i # j <=> i < j \/ j < i
    BY <1>1
  <2> QED BY <2>1 DEF HasDuplicates
<1> QED BY <1>1, <1>3, <1>4, DistinctHashes DEF IsMuxList

\* No class lets a name through that the conversions do not know.
LEMMA AllNamesAreKnown == \A c \in Classes : NamesAreKnown(c)
BY DEF Classes, NamesAreKnown, Sends, Converts

\* populate_f?_configuration finds every field it reads, but for NID0 left empty.
LEMMA FieldsAreSent ==
    ASSUME NEW r \in PucchRequests, r.format = 2 => r.hasNID0
    PROVE  CanPopulate(r)
PROOF
<1>1. r.format \in 0..4
  BY DEF PucchRequests
<1>2. CASE r.format = 0
  BY <1>2 DEF CanPopulate, FieldsRead, FieldsSent, FieldsOfF0
<1>3. CASE r.format = 1
  BY <1>3 DEF CanPopulate, FieldsRead, FieldsSent, FieldsOfF1
<1>4. CASE r.format = 2
  BY <1>4 DEF CanPopulate, FieldsRead, FieldsSent, FieldsOfF2
<1>5. CASE r.format = 3
  BY <1>5 DEF CanPopulate, FieldsRead, FieldsSent, FieldsOfF3
<1>6. CASE r.format = 4
  BY <1>6 DEF CanPopulate, FieldsRead, FieldsSent, FieldsOfF4
<1> QED BY <1>1, <1>2, <1>3, <1>4, <1>5, <1>6

\* A spacing that the conversion does not know is one of the two greatest.
LEMMA UnknownSpacings ==
    ASSUME NEW scs \in Spacings
    PROVE  scs \notin Converts.subcarrierSpacing <=> scs \in {480, 960}
PROOF
<1>1. Converts.subcarrierSpacing = {15, 30, 60, 120, 240}
  BY DEF Converts
<1>2. scs \in {15, 30, 60, 120, 240, 480, 960}
  BY RequestsAssumption, Zenon
<1> QED BY <1>1, <1>2

\* The MEX function has a processor and serves what the class accepts, but for the gaps.
LEMMA AcceptedIsServed ==
    ASSUME class \in Classes, NEW o, NEW r \in Requests(class), Accepts(o, r),
           setting[o] # NoMEX, ~Unserved(class, r), NEW p, p # Null
    PROVE  MexEnds(p, r) = {"ok"}
PROOF
<1>0. NamesAreKnown(class)
  BY AllNamesAreKnown
<1>1. CASE class = "estimator"
  <2>1. r \in EstimatorRequests
    BY <1>1 DEF Requests
  <2>2. r.regular /\ r.contiguous /\ r.isComplex /\ r.indices = r.ports
    BY <1>1 DEF Unserved
  <2>3. r.layers <= 4 /\ r.scs \in {15, 30, 120}
    BY <1>1 DEF Accepts, EstimatorAccepts
  <2>4. r.layers > 2 => SendsCDM1(r)
    BY <2>1, <2>3 DEF EstimatorRequests, SendsCDM1, CDMGroups
  <2>5. r.scs \in Converts.subcarrierSpacing
    BY <2>3 DEF Converts
  <2>6. EstimatorMexEnds(r) = {"ok"}
    BY <2>2, <2>4, <2>5 DEF EstimatorMexEnds
  <2> QED BY <1>0, <1>1, <2>6 DEF MexEnds
<1>2. CASE class = "demodulator"
  <2>1. r \in DemodulatorRequests
    BY <1>2 DEF Requests
  <2>2. r.rxPorts = r.ports /\ r.layers = r.ceLayers /\ r.hasNID /\ r.llrs
    BY <1>2 DEF Unserved
  <2>3. r.cePorts = r.ports
    BY <1>2 DEF Accepts, DemodulatorAccepts
  <2>4. r.ports \in 1..MaxPorts
    BY <2>1 DEF DemodulatorRequests
  <2>5. SharesFit(r)
    BY <2>2, <2>3, <2>4, RequestsAssumption DEF SharesFit
  <2>6. DemodulatorMexEnds(r) = {"ok"}
    BY <2>2, <2>5 DEF DemodulatorMexEnds, SoftBitsFit
  <2>7. {"ok"} # {"aborted"}
    OBVIOUS
  <2> QED BY <1>0, <1>2, <2>6, <2>7 DEF MexEnds
<1>3. CASE class = "pucch"
  <2>1. r \in PucchRequests
    BY <1>3 DEF Requests
  <2>2. /\ r.valid /\ r.scs \notin {480, 960}
        /\ r.format = 2 => r.hasNID0
        /\ ~(r.format = 0 /\ r.numSR > 1)
    BY <1>3 DEF Unserved
  <2>3. IsMuxList(r.mux) /\ (r.mux # <<>> => r.format = 1)
    BY <1>3 DEF Accepts, PucchAccepts
  <2>4. CanPopulate(r)
    BY <2>1, <2>2, FieldsAreSent
  <2>5. ~HasDuplicates(r.mux)
    BY <2>1, <2>3, ChecksAgree DEF PucchRequests
  <2>6. r.scs \in Converts.subcarrierSpacing
    BY <2>1, <2>2, UnknownSpacings DEF PucchRequests
  <2>7. PucchMexEnds(r) = {"ok"}
    BY <2>2, <2>3, <2>4, <2>5, <2>6 DEF PucchMexEnds, TooManySRs
  <2> QED BY <1>0, <1>3, <2>7 DEF MexEnds
<1>4. CASE class = "prach"
  <2>1. r \in PrachRequests
    BY <1>4 DEF Requests
  <2>2. r.valid /\ r.isComplex /\ r.fits /\ r.samples # 100
    BY <1>4 DEF Unserved
  <2>3. PrachMexEnds(r) = {"ok"}
    BY <2>1, <2>2 DEF PrachMexEnds, PrachRequests
  <2> QED BY <1>0, <1>4, <2>3 DEF MexEnds
<1> QED BY <1>1, <1>2, <1>3, <1>4 DEF Classes

\* Of what the classes accept, only the spacing of a carrier ends the process.
LEMMA SpacingsTerminate ==
    ASSUME class \in Classes, NEW o, NEW r \in Requests(class), Accepts(o, r), NEW p,
           "terminated" \in MexEnds(p, r)
    PROVE  class = "pucch" /\ r.scs \in {480, 960}
PROOF
<1>0. NamesAreKnown(class)
  BY AllNamesAreKnown
<1>1. CASE class = "estimator"
  <2>1. r.scs \in Converts.subcarrierSpacing
    BY <1>1 DEF Accepts, EstimatorAccepts, Converts
  <2>2. "terminated" \notin EstimatorMexEnds(r)
    BY <2>1 DEF EstimatorMexEnds
  <2> QED BY <1>0, <1>1, <2>2 DEF MexEnds
<1>2. CASE class = "demodulator"
  <2>1. "terminated" \notin DemodulatorMexEnds(r)
    BY DEF DemodulatorMexEnds
  <2> QED BY <1>0, <1>2, <2>1 DEF MexEnds
<1>3. CASE class = "pucch"
  <2>1. r.scs \in Spacings
    BY <1>3 DEF Requests, PucchRequests
  <2>2. "terminated" \in PucchMexEnds(r)
    BY <1>0, <1>3 DEF MexEnds
  <2>3. r.scs \notin Converts.subcarrierSpacing
    BY <2>2 DEF PucchMexEnds
  <2> QED BY <1>3, <2>1, <2>3, UnknownSpacings
<1>4. CASE class = "prach"
  <2>1. "terminated" \notin PrachMexEnds(r)
    BY DEF PrachMexEnds
  <2> QED BY <1>0, <1>4, <2>1 DEF MexEnds
<1> QED BY <1>1, <1>2, <1>3, <1>4 DEF Classes

-----------------------------------------------------------------------------
(***************************************************************************)
(* The processor.                                                          *)
(***************************************************************************)

\* The types of all variables but reply.
ObjectsOK ==
    /\ class \in Classes
    /\ setting \in [Objects -> SettingsOf(class)]
    /\ locked \in [Objects -> BOOLEAN]
    /\ processor \in Settings \cup {Fixed, Null}
    /\ lastSetup \in Objects \cup {Nobody}

ReplyOK ==
    \/ reply = NoReply
    \/ /\ reply.obj \in Objects
       /\ reply.request \in Requests(class)
       /\ reply.end \in Ends

\* Setup creates processors of the estimator and of the demodulator only.
OnlySetupsCount == class \in {"pucch", "prach"} => lastSetup = Nobody

\* The inductive invariant, but for reply.
Shared == ObjectsOK /\ LockedHasProcessor /\ LastSetupRules /\ OnlySetupsCount

Inv == Shared /\ ReplyOK

USE MexFunctionsAssumption

\* setupImpl of an object keeps the invariant: the processor is new, or it is there and
\* another object's, or the object needs none.
LEMMA SetUpKeepsShared ==
    ASSUME Shared, NEW o \in Objects, ~locked[o], SetUp(o), UNCHANGED <<class, setting>>
    PROVE  Shared'
PROOF
<1> USE DEF Shared, ObjectsOK
<1>1. setting[o] \in SettingsOf(class)
  OBVIOUS
<1>2. CASE CreatesProcessor(o)
  <2>1. processor' = setting[o] /\ lastSetup' = o /\ locked' = [locked EXCEPT ![o] = TRUE]
    BY <1>2 DEF SetUp
  <2>2. class \in {"estimator", "demodulator"} /\ setting[o] # NoMEX
    BY <1>2 DEF CreatesProcessor
  <2>3. setting[o] \in Settings
    BY <1>1, <2>2 DEF SettingsOf
  <2>4. ObjectsOK'
    BY <2>1, <2>3
  <2>5. LockedHasProcessor'
    BY <2>1, <2>3 DEF LockedHasProcessor
  <2>6. LastSetupRules'
    BY <2>1 DEF LastSetupRules
  <2>7. OnlySetupsCount'
    BY <2>2 DEF OnlySetupsCount
  <2> QED BY <2>4, <2>5, <2>6, <2>7
<1>3. CASE ~CreatesProcessor(o)
  <2>1. UNCHANGED <<processor, lastSetup>> /\ locked' = [locked EXCEPT ![o] = TRUE]
    BY <1>3 DEF SetUp
  <2>2. class \in {"estimator", "demodulator"} => setting[o] = NoMEX
    BY <1>3 DEF CreatesProcessor
  <2>3. ObjectsOK'
    BY <2>1
  <2>4. LockedHasProcessor'
    BY <2>1, <2>2 DEF LockedHasProcessor
  <2>5. LastSetupRules'
    <3>1. CASE class \in {"estimator", "demodulator"}
      BY <2>1, <2>2, <3>1 DEF LastSetupRules
    <3>2. CASE class \in {"pucch", "prach"}
      BY <2>1, <3>2 DEF LastSetupRules, OnlySetupsCount
    <3> QED BY <3>1, <3>2 DEF Classes
  <2>6. OnlySetupsCount'
    BY <2>1 DEF OnlySetupsCount
  <2> QED BY <2>3, <2>4, <2>5, <2>6
<1> QED BY <1>2, <1>3

\* The first call of step sets the object up, or loads the MexFunction object.
LEMMA StepKeepsShared ==
    ASSUME Shared, NEW o \in Objects, NEW r \in Requests(class), Step(o, r)
    PROVE  Shared'
PROOF
<1>0. UNCHANGED <<class, setting>>
  BY DEF Step
<1>1. CASE locked[o]
  <2>1. UNCHANGED <<class, setting, locked, processor, lastSetup>>
    BY <1>1 DEF Step
  <2> QED BY <2>1 DEF Shared, ObjectsOK, LockedHasProcessor, LastSetupRules, OnlySetupsCount
<1>2. CASE ~locked[o] /\ class \in {"pucch", "prach"}
  <2>1. /\ locked' = [locked EXCEPT ![o] = TRUE]
        /\ processor' \in {Fixed, processor}
        /\ UNCHANGED lastSetup
    BY <1>2 DEF Step
  <2>2. ObjectsOK'
    BY <1>0, <2>1 DEF Shared, ObjectsOK
  <2>3. LockedHasProcessor'
    BY <1>0, <1>2 DEF LockedHasProcessor
  <2>4. LastSetupRules' /\ OnlySetupsCount'
    BY <1>0, <1>2, <2>1 DEF Shared, LastSetupRules, OnlySetupsCount
  <2> QED BY <2>2, <2>3, <2>4 DEF Shared
<1>3. CASE ~locked[o] /\ class \notin {"pucch", "prach"}
  <2>1. SetUp(o)
    BY <1>3 DEF Step
  <2> QED BY <1>0, <1>3, <2>1, SetUpKeepsShared
<1> QED BY <1>1, <1>2, <1>3

\* A step replies to its request.
LEMMA StepReplies ==
    ASSUME Shared, NEW o \in Objects, NEW r \in Requests(class), Step(o, r)
    PROVE  /\ reply'.obj = o /\ reply'.request = r
           /\ reply' # NoReply
           /\ reply'.end \in IF ~Accepts(o, r) THEN {"refused"}
                             ELSE IF setting[o] = NoMEX THEN EstimatorPlainEnds(r)
                             ELSE MexEnds(processor', r)
PROOF
<1> DEFINE E == IF ~Accepts(o, r) THEN {"refused"}
                ELSE IF setting[o] = NoMEX THEN EstimatorPlainEnds(r)
                ELSE MexEnds(processor', r)
           P == IF setting[o] = NoMEX THEN NoMEX ELSE processor'
<1>1. PICK end \in E : \E results \in IF end = "ok" THEN Results(o, r) ELSE {<<>>} :
        reply' = [obj |-> o, request |-> r, end |-> end, results |-> results, by |-> P]
  BY DEF Step
<1>2. PICK results : reply' = [obj |-> o, request |-> r, end |-> end, results |-> results, by |-> P]
  BY <1>1
<1>3. reply'.obj = o /\ reply'.request = r /\ reply'.end \in E
  BY <1>1, <1>2
<1>4. reply' # NoReply
  BY <1>3 DEF NoReply
<1> QED BY <1>3, <1>4

\* Every end of a call is one of Ends.
LEMMA EndsAreEnds ==
    ASSUME class \in Classes, NEW r, NEW p
    PROVE  MexEnds(p, r) \cup EstimatorPlainEnds(r) \cup {"refused"} \subseteq Ends
PROOF
<1>1. EstimatorMexEnds(r) \subseteq Ends /\ EstimatorPlainEnds(r) \subseteq Ends
  BY DEF EstimatorMexEnds, EstimatorPlainEnds, Ends
<1>2. DemodulatorMexEnds(r) \subseteq Ends
  BY DEF DemodulatorMexEnds, Ends
<1>3. PucchMexEnds(r) \subseteq Ends /\ PrachMexEnds(r) \subseteq Ends
  BY DEF PucchMexEnds, PrachMexEnds, Ends
<1>4. {"ok", "terminated"} \subseteq Ends /\ {"aborted"} \subseteq Ends
      /\ {"undefined"} \subseteq Ends /\ {"refused"} \subseteq Ends
  BY DEF Ends
<1>5. MexEnds(p, r) \subseteq Ends
  BY <1>1, <1>2, <1>3, <1>4 DEF MexEnds, Classes
<1> QED BY <1>1, <1>4, <1>5

\* At first, no object is set up.
LEMMA InitInv == Init => Inv
BY DEF Init, Inv, Shared, ObjectsOK, LockedHasProcessor, LastSetupRules, OnlySetupsCount, ReplyOK

\* Every call preserves the invariant.
LEMMA NextInv == Inv /\ [Next]_vars => Inv'
PROOF
<1> SUFFICES ASSUME Inv, [Next]_vars PROVE Inv'
  OBVIOUS
<1>0. CASE UNCHANGED vars
  BY <1>0 DEF vars, Inv, Shared, ObjectsOK, LockedHasProcessor, LastSetupRules, OnlySetupsCount,
              ReplyOK
<1>1. ASSUME NEW o \in Objects, NEW s \in SettingsOf(class), Configure(o, s) PROVE Inv'
  <2>1. setting' = [setting EXCEPT ![o] = s] /\ ~locked[o]
        /\ UNCHANGED <<class, locked, processor, lastSetup, reply>>
    BY <1>1 DEF Configure
  <2>2. ObjectsOK'
    BY <2>1 DEF Inv, Shared, ObjectsOK
  <2>3. LockedHasProcessor' /\ LastSetupRules' /\ OnlySetupsCount'
    BY <2>1 DEF Inv, Shared, ObjectsOK, LockedHasProcessor, LastSetupRules, OnlySetupsCount
  <2>4. ReplyOK'
    BY <2>1 DEF Inv, ReplyOK, Requests
  <2> QED BY <2>2, <2>3, <2>4 DEF Inv, Shared
<1>2. ASSUME NEW o \in Objects, Setup(o) PROVE Inv'
  <2>1. Shared'
    BY <1>2, SetUpKeepsShared DEF Setup, Inv
  <2>2. ReplyOK'
    BY <1>2 DEF Setup, Inv, ReplyOK, Requests
  <2> QED BY <2>1, <2>2 DEF Inv
<1>3. ASSUME NEW o \in Objects, NEW r \in Requests(class), Step(o, r) PROVE Inv'
  <2>1. Shared'
    BY <1>3, StepKeepsShared DEF Inv
  <2>2. class' = class /\ class \in Classes
    BY <1>3 DEF Step, Inv, Shared, ObjectsOK
  <2>3. reply'.obj = o /\ reply'.request = r
        /\ reply'.end \in MexEnds(processor', r) \cup EstimatorPlainEnds(r) \cup {"refused"}
    BY <1>3, StepReplies DEF Inv
  <2>4. reply'.end \in Ends
    BY <2>2, <2>3, EndsAreEnds
  <2>5. ReplyOK'
    BY <2>2, <2>3, <2>4 DEF ReplyOK, Requests
  <2> QED BY <2>1, <2>5 DEF Inv
<1>4. ASSUME NEW o \in Objects, Release(o) PROVE Inv'
  <2>1. locked' = [locked EXCEPT ![o] = FALSE]
        /\ UNCHANGED <<class, setting, processor, lastSetup, reply>>
    BY <1>4 DEF Release
  <2>2. ObjectsOK'
    BY <2>1 DEF Inv, Shared, ObjectsOK
  <2>3. LockedHasProcessor' /\ LastSetupRules' /\ OnlySetupsCount'
    BY <2>1 DEF Inv, Shared, ObjectsOK, LockedHasProcessor, LastSetupRules, OnlySetupsCount
  <2>4. ReplyOK'
    BY <2>1 DEF Inv, ReplyOK, Requests
  <2> QED BY <2>2, <2>3, <2>4 DEF Inv, Shared
<1>5. CASE Return
  <2>1. reply' = NoReply /\ UNCHANGED <<class, setting, locked, processor, lastSetup>>
    BY <1>5 DEF Return
  <2> QED BY <2>1 DEF Inv, Shared, ObjectsOK, LockedHasProcessor, LastSetupRules, OnlySetupsCount,
                      ReplyOK
<1>6. CASE Restart
  <2>1. /\ setting' \in [Objects -> SettingsOf(class')] /\ class' = class
        /\ locked' = [o \in Objects |-> FALSE]
        /\ processor' = Null /\ lastSetup' = Nobody /\ reply' = NoReply
    BY <1>6 DEF Restart, SettingsOf
  <2> QED BY <2>1 DEF Inv, Shared, ObjectsOK, LockedHasProcessor, LastSetupRules, OnlySetupsCount,
                      ReplyOK
<1> QED BY <1>0, <1>1, <1>2, <1>3, <1>4, <1>5, <1>6 DEF Next, Call

\* The invariant of every reachable state.
THEOREM InvHolds == Spec => []Inv
BY InitInv, NextInv, PTL DEF Spec

\* The types of the objects' properties, of the processor and of replies.
THEOREM TypeCorrect == Spec => []TypeOK
PROOF
<1>1. Inv => TypeOK
  BY DEF Inv, Shared, ObjectsOK, ReplyOK, TypeOK
<1> QED BY <1>1, InvHolds, PTL

\* No object that is set up finds its MEX function without a processor, whatever other
\* objects of the class do.
THEOREM ProcessorsAreThere == Spec => []LockedHasProcessor
PROOF
<1>1. Inv => LockedHasProcessor
  BY DEF Inv, Shared
<1> QED BY <1>1, InvHolds, PTL

\* The object whose setup was the last is served with its own settings.
THEOREM LastSetupIsServed == Spec => []LastSetupRules
PROOF
<1>1. Inv => LastSetupRules
  BY DEF Inv, Shared
<1> QED BY <1>1, InvHolds, PTL

-----------------------------------------------------------------------------
(***************************************************************************)
(* How calls end.                                                          *)
(***************************************************************************)

\* Only step leaves a reply.
LEMMA OthersDoNotReply ==
    ASSUME [Next]_vars
    PROVE  \/ UNCHANGED <<class, reply>>
           \/ reply' = NoReply
           \/ \E o \in Objects, r \in Requests(class) : Step(o, r)
BY DEF Next, Call, Configure, Setup, Release, Return, Restart, vars

\* What is left of the processor when a step that needs it is served.
LEMMA StepFindsProcessor ==
    ASSUME Shared, NEW o \in Objects, NEW r \in Requests(class), Step(o, r),
           setting[o] # NoMEX, class \in {"estimator", "demodulator"}
    PROVE  processor' # Null
PROOF
<1>1. Shared'
  BY StepKeepsShared
<1>2. locked'[o] /\ setting' = setting /\ class' = class
  BY DEF Step, SetUp, Shared, ObjectsOK
<1> QED BY <1>1, <1>2 DEF Shared, LockedHasProcessor

\* A step with an accepted request outside the gaps succeeds, and only the spacing of a
\* carrier ends the process.
LEMMA StepEndsWell ==
    ASSUME Shared, NEW o \in Objects, NEW r \in Requests(class), Step(o, r),
           reply'.end \notin {"ok", "refused"}
    PROVE  /\ Unserved(class, r)
           /\ reply'.end = "terminated" => class = "pucch" /\ r.scs \in {480, 960}
PROOF
<1>0. class \in Classes /\ setting[o] \in SettingsOf(class)
  BY DEF Shared, ObjectsOK
<1>1. Accepts(o, r)
  BY StepReplies
<1>2. setting[o] # NoMEX
  <2>1. EstimatorPlainEnds(r) \subseteq {"ok", "refused"}
    BY DEF EstimatorPlainEnds
  <2> QED BY <1>1, <2>1, StepReplies
<1>3. reply'.end \in MexEnds(processor', r)
  BY <1>1, <1>2, StepReplies
<1>4. reply'.end = "terminated" => class = "pucch" /\ r.scs \in {480, 960}
  BY <1>0, <1>1, <1>3, SpacingsTerminate
<1>5. MexEnds(processor', r) # {"ok"}
  BY <1>3
<1>6. CASE class \in {"estimator", "demodulator"}
  <2>1. processor' # Null
    BY <1>2, <1>6, StepFindsProcessor
  <2>2. Unserved(class, r)
    BY <1>0, <1>1, <1>2, <1>5, <2>1, AcceptedIsServed
  <2> QED BY <1>4, <2>2
<1>7. CASE class \in {"pucch", "prach"}
  <2>1. MexEnds(processor', r) = MexEnds(Fixed, r)
    BY <1>7 DEF MexEnds
  <2>2. Unserved(class, r)
    BY <1>0, <1>1, <1>2, <1>5, <2>1, AcceptedIsServed
  <2> QED BY <1>4, <2>2
<1> QED BY <1>0, <1>6, <1>7 DEF Classes

\* What the classes accept is served but for the gaps, for lists and grids of any size:
\* no object finds its MEX function without a processor, no format without a field.
THEOREM GapsAreKnown == Spec => []OnlyKnownGaps
PROOF
<1>1. Init => OnlyKnownGaps
  BY DEF Init, OnlyKnownGaps
<1>2. Inv /\ OnlyKnownGaps /\ [Next]_vars => OnlyKnownGaps'
  <2> SUFFICES ASSUME Inv, OnlyKnownGaps, [Next]_vars PROVE OnlyKnownGaps'
    OBVIOUS
  <2>1. CASE UNCHANGED <<class, reply>>
    BY <2>1 DEF OnlyKnownGaps
  <2>2. CASE reply' = NoReply
    BY <2>2 DEF OnlyKnownGaps, NoReply
  <2>3. ASSUME NEW o \in Objects, NEW r \in Requests(class), Step(o, r)
        PROVE  OnlyKnownGaps'
    <3>1. reply'.request = r /\ class' = class
      BY <2>3, StepReplies DEF Inv, Step
    <3>2. reply'.end \notin {"ok", "refused"} =>
            /\ Unserved(class, r)
            /\ reply'.end = "terminated" => class = "pucch" /\ r.scs \in {480, 960}
      BY <2>3, StepEndsWell DEF Inv
    <3> QED BY <3>1, <3>2 DEF OnlyKnownGaps
  <2> QED BY <2>1, <2>2, <2>3, OthersDoNotReply
<1> QED BY <1>1, <1>2, InvHolds, PTL DEF Spec

\* Lists are refused by the class exactly if they are wrong, whatever their length: the
\* hash of mustBeMultiplexList finds what the MEX function would abort, and nothing else.
THEOREM DuplicatesAreRefused == Spec => []DuplicatesStayInMatlab
PROOF
<1>1. Init => DuplicatesStayInMatlab
  BY DEF Init, DuplicatesStayInMatlab
<1>2. Inv /\ DuplicatesStayInMatlab /\ [Next]_vars => DuplicatesStayInMatlab'
  <2> SUFFICES ASSUME Inv, DuplicatesStayInMatlab, [Next]_vars PROVE DuplicatesStayInMatlab'
    OBVIOUS
  <2>1. CASE UNCHANGED <<class, reply>>
    BY <2>1 DEF DuplicatesStayInMatlab
  <2>2. CASE reply' = NoReply
    BY <2>2 DEF DuplicatesStayInMatlab, NoReply
  <2>3. ASSUME NEW o \in Objects, NEW r \in Requests(class), Step(o, r)
        PROVE  DuplicatesStayInMatlab'
    <3> DEFINE Wrong == \/ \E e \in ToSet(r.mux) : e.ics > 11 \/ e.occi > 6 \/ e.bits > 2
                        \/ HasDuplicates(r.mux)
    <3>1. SUFFICES ASSUME class = "pucch", r.format = 1
                   PROVE  reply'.end = "refused" <=> Wrong
      BY <2>3, StepReplies DEF Inv, Step, DuplicatesStayInMatlab
    <3>2. r \in PucchRequests /\ r.mux \in MuxLists
      BY <3>1 DEF Requests, PucchRequests
    <3>3. Accepts(o, r) <=> IsMuxList(r.mux)
      BY <3>1 DEF Accepts, PucchAccepts
    <3>4. IsMuxList(r.mux) <=> ~Wrong
      <4>1. \A e \in ToSet(r.mux) : e.ics \in Nat /\ e.occi \in Nat /\ e.bits \in Nat
        <5>1. r.mux \in Seq([ics : Nat, occi : Nat, bits : Nat])
          BY <3>2, RequestsAssumption
        <5>2. \A i \in DOMAIN r.mux : r.mux[i] \in [ics : Nat, occi : Nat, bits : Nat]
          <6> DEFINE E == [ics : Nat, occi : Nat, bits : Nat]
                     list == r.mux
          <6>1. list \in Seq(E) /\ DOMAIN list = 1..Len(list)
            BY <5>1
          <6> HIDE DEF E, list
          <6>2. \A i \in 1..Len(list) : list[i] \in E
            BY <6>1, ElementOfSeq
          <6> QED BY <6>1, <6>2 DEF E, list
        <5> QED BY <5>2 DEF ToSet
      <4>2. (\A e \in ToSet(r.mux) : e.ics <= 11 /\ e.occi <= 6 /\ e.bits <= 2)
            <=> ~(\E e \in ToSet(r.mux) : e.ics > 11 \/ e.occi > 6 \/ e.bits > 2)
        BY <4>1
      <4> QED BY <3>2, <4>2, ChecksAgree
    <3>5. ~Accepts(o, r) => reply'.end = "refused"
      BY <2>3, StepReplies DEF Inv
    <3>6. Accepts(o, r) => reply'.end # "refused"
      <4>1. setting[o] = Fixed
        BY <3>1 DEF Inv, Shared, ObjectsOK, SettingsOf
      <4>2. Accepts(o, r) => reply'.end \in MexEnds(processor', r)
        BY <2>3, <4>1, StepReplies DEF Inv
      <4>3. "refused" \notin MexEnds(processor', r)
        BY <3>1 DEF MexEnds, PucchMexEnds
      <4> QED BY <4>2, <4>3
    <3> QED BY <3>3, <3>4, <3>5, <3>6
  <2> QED BY <2>1, <2>2, <2>3, OthersDoNotReply
<1> QED BY <1>1, <1>2, InvHolds, PTL DEF Spec

-----------------------------------------------------------------------------
(***************************************************************************)
(* What a call returns.                                                    *)
(***************************************************************************)

\* The greatest of some numbers of 1..n: a smallest set without one would still lack it when
\* an element is taken away.
LEMMA Greatest ==
    ASSUME NEW n \in Nat, NEW S \in SUBSET (1..n), S # {}
    PROVE  Max(S) \in S
PROOF
<1> DEFINE HasGreatest(T) == \E m \in T : \A x \in T : m >= x
           Lacking == {T \in SUBSET (1..n) : T # {} /\ ~HasGreatest(T)}
<1>1. Lacking = {}
  <2> SUFFICES ASSUME Lacking # {} PROVE FALSE
    OBVIOUS
  <2>0. IsFiniteSet(1..n)
    BY FS_Interval
  <2>1. Lacking \subseteq FiniteSubsetsOf(1..n)
    BY <2>0, FS_Subset DEF FiniteSubsetsOf
  <2> HIDE DEF Lacking
  <2>2. PICK T \in Lacking : \A U \in Lacking : ~(<<U, T>> \in StrictSubsetOrdering(1..n))
    BY <2>1, FS_StrictSubsetOrderingWellFounded, WFMin
  <2>3. T \in SUBSET (1..n) /\ T # {} /\ ~HasGreatest(T)
    BY DEF Lacking
  <2>4. PICK x \in T : TRUE
    BY <2>3
  <2>5. T \ {x} \notin Lacking
    BY <2>2, <2>3, <2>4 DEF StrictSubsetOrdering
  <2>6. T \ {x} = {} \/ HasGreatest(T \ {x})
    BY <2>3, <2>5 DEF Lacking
  <2>7. CASE T \ {x} = {}
    <3>1. \A y \in T : x >= y
      BY <2>3, <2>4, <2>7
    <3> QED BY <2>3, <2>4, <3>1
  <2>8. CASE HasGreatest(T \ {x})
    <3>1. PICK m \in T \ {x} : \A y \in T \ {x} : m >= y
      BY <2>8
    <3>2. CASE m >= x
      <4>1. \A y \in T : m >= y
        BY <3>1, <3>2
      <4> QED BY <2>3, <3>1, <4>1
    <3>3. CASE ~(m >= x)
      <4>1. \A y \in T : x >= y
        BY <2>3, <2>4, <3>1, <3>3
      <4> QED BY <2>3, <2>4, <4>1
    <3> QED BY <3>2, <3>3
  <2> QED BY <2>6, <2>7, <2>8
<1>2. HasGreatest(S)
  BY <1>1
<1>3. \E m \in S : \A x \in S : m >= x
  BY <1>2
<1> QED BY <1>3 DEF Max

\* The running sum of the CFOs is not a number as soon as one of them is missing, and stays
\* so; otherwise each adds its part.
LEMMA RunningSum ==
    ASSUME NEW n \in Nat, NEW cfos \in [1..n -> {NoCFO, 1}]
    PROVE  FoldLeft(AddCFO, 0, cfos) = IF \E i \in 1..n : cfos[i] = NoCFO THEN NaN ELSE n
PROOF
<1> DEFINE D == 1..n
           Step1(f, s) == IF s = {} THEN 0 ELSE AddCFO(f[s \ {Max(s)}], cfos[Max(s)])
           Fold(f) == [s \in SUBSET D |-> Step1(f, s)]
           iter == CHOOSE f : f = Fold(f)
           Sum(s) == IF \E i \in s : cfos[i] = NoCFO THEN NaN ELSE Cardinality(s)
           sum == [s \in SUBSET D |-> Sum(s)]
           Wrong == {s \in SUBSET D : iter[s] # Sum(s)}
<1>1. FoldLeft(AddCFO, 0, cfos) = iter[D]
  BY DEF FoldLeft, MapThenFoldSet
<1>2. IsFiniteSet(D) /\ Cardinality(D) = n
  BY FS_Interval
<1>3. ASSUME NEW s \in SUBSET D, s # {}
      PROVE  Sum(s) = AddCFO(Sum(s \ {Max(s)}), cfos[Max(s)])
  <2>1. Max(s) \in s
    BY <1>3, Greatest
  <2>2. PICK m \in s : m = Max(s)
    BY <2>1
  <2>3. IsFiniteSet(s) /\ Cardinality(s) \in Nat /\ Cardinality(s) # 0
        /\ Cardinality(s \ {m}) = Cardinality(s) - 1
    BY <1>2, <1>3, FS_Subset, FS_RemoveElement, FS_EmptySet, FS_CardinalityType
  <2>4. cfos[m] \in {NoCFO, 1}
    OBVIOUS
  <2>5. CASE \E i \in s \ {m} : cfos[i] = NoCFO
    <3>1. Sum(s \ {m}) = NaN /\ Sum(s) = NaN
      BY <2>5
    <3> QED BY <2>2, <3>1 DEF AddCFO
  <2>6. CASE cfos[m] = NoCFO
    <3>1. Sum(s) = NaN
      BY <2>6
    <3> QED BY <2>2, <2>6, <3>1 DEF AddCFO
  <2>7. CASE ~(\E i \in s \ {m} : cfos[i] = NoCFO) /\ cfos[m] # NoCFO
    <3>1. Sum(s \ {m}) = Cardinality(s) - 1 /\ Sum(s) = Cardinality(s)
      BY <2>3, <2>7
    <3>2. cfos[m] = 1
      BY <2>4, <2>7
    <3> HIDE DEF Sum
    <3> QED BY <2>2, <2>3, <3>1, <3>2 DEF AddCFO, NaN, NoCFO
  <2> QED BY <2>5, <2>6, <2>7
<1>4. Sum({}) = 0
  BY FS_EmptySet
<1>5. sum = Fold(sum)
  <2> HIDE DEF Sum
  <2>1. \A s \in SUBSET D : Sum(s) = Step1(sum, s)
    <3> TAKE s \in SUBSET D
    <3>1. CASE s = {}
      BY <1>4, <3>1
    <3>2. CASE s # {}
      <4>1. sum[s \ {Max(s)}] = Sum(s \ {Max(s)})
        OBVIOUS
      <4> QED BY <1>3, <3>2, <4>1
    <3> QED BY <3>1, <3>2
  <2> HIDE DEF Step1
  <2> QED BY <2>1
<1> HIDE DEF Sum, sum, D
<1>6. iter = Fold(iter)
  <2> HIDE DEF Fold
  <2> QED BY <1>5, Zenon
<1> HIDE DEF iter
<1>7. \A s \in SUBSET D : iter[s] = Step1(iter, s)
  <2> HIDE DEF Step1
  <2> QED BY <1>6
<1>8. Wrong = {}
  <2> SUFFICES ASSUME Wrong # {} PROVE FALSE
    OBVIOUS
  <2>1. Wrong \subseteq FiniteSubsetsOf(D)
    BY <1>2, FS_Subset DEF FiniteSubsetsOf
  <2> HIDE DEF Wrong
  <2>2. PICK s \in Wrong : \A u \in Wrong : ~(<<u, s>> \in StrictSubsetOrdering(D))
    BY <2>1, FS_StrictSubsetOrderingWellFounded, WFMin
  <2>3. s \in SUBSET D /\ iter[s] # Sum(s)
    BY DEF Wrong
  <2>4. CASE s = {}
    BY <1>4, <1>7, <2>3, <2>4
  <2>5. CASE s # {}
    <3>1. Max(s) \in s
      BY <2>3, <2>5, Greatest DEF D
    <3>2. s \ {Max(s)} \notin Wrong
      BY <2>2, <2>3, <3>1 DEF StrictSubsetOrdering
    <3>3. iter[s \ {Max(s)}] = Sum(s \ {Max(s)})
      BY <2>3, <3>2 DEF Wrong
    <3>4. iter[s] = AddCFO(iter[s \ {Max(s)}], cfos[Max(s)])
      BY <1>7, <2>3, <2>5
    <3> QED BY <1>3, <2>3, <2>5, <3>3, <3>4
  <2> QED BY <2>4, <2>5
<1>9. iter[D] = Sum(D)
  BY <1>8
<1> QED BY <1>1, <1>2, <1>9 DEF Sum, D

\* The entry over all ports has no CFO if one of the ports has none; one port is all ports.
LEMMA InfosAgree ==
    ASSUME NEW r \in EstimatorRequests, NEW cfos \in CFOs(r)
    PROVE  Last(Infos(r, cfos)) = NoCFO <=> \E i \in 1..r.ports : Infos(r, cfos)[i] = NoCFO
PROOF
<1> DEFINE n == r.ports
<1>1. n \in Nat \ {0} /\ cfos \in [1..n -> {NoCFO, 1}]
  BY RequestsAssumption DEF EstimatorRequests, CFOs
<1>2. cfos \in Seq({NoCFO, 1}) /\ Len(cfos) = n
  BY <1>1, IsASeq
<1>3. CASE n = 1
  <2>1. Infos(r, cfos) = cfos
    BY <1>3 DEF Infos
  <2>2. Last(cfos) = cfos[1]
    BY <1>2, <1>3 DEF Last
  <2>3. \A i \in 1..r.ports : i = 1
    BY <1>3
  <2>4. 1 \in 1..r.ports
    BY <1>3
  <2> QED BY <2>1, <2>2, <2>3, <2>4, Zenon
<1>4. CASE n # 1
  <2> DEFINE total == FoldLeft(AddCFO, 0, cfos)
             all == IF total = NaN THEN NoCFO ELSE total
  <2>1. total = IF \E i \in 1..n : cfos[i] = NoCFO THEN NaN ELSE n
    BY <1>1, RunningSum
  <2>2. all = NoCFO <=> \E i \in 1..n : cfos[i] = NoCFO
    <3> HIDE DEF total, n
    <3> QED BY <1>1, <2>1 DEF NaN, NoCFO
  <2>3. Infos(r, cfos) = Append(cfos, all)
    BY <1>4 DEF Infos
  <2> HIDE DEF all, n
  <2>4. /\ Len(Append(cfos, all)) = n + 1 /\ Append(cfos, all)[n + 1] = all
        /\ \A i \in 1..n : Append(cfos, all)[i] = cfos[i]
    BY <1>1, <1>2
  <2> QED BY <2>2, <2>3, <2>4 DEF Last, n
<1> QED BY <1>3, <1>4

\* The results of a list without duplicates are found under the keys of its entries.
LEMMA ResultsInOrder ==
    ASSUME NEW r \in PucchRequests, r.mux # <<>>, ~HasDuplicates(r.mux)
    PROVE  PucchResults(r) = r.mux
PROOF
<1> DEFINE list == r.mux
           E == [ics : Nat, occi : Nat, bits : Nat]
<1>1. list \in Seq(E) /\ DOMAIN list = 1..Len(list) /\ Len(list) \in Nat
  BY RequestsAssumption DEF PucchRequests
<1>2. \A i, j \in DOMAIN list : Key(list[i]) = Key(list[j]) => i = j
  <2>1. \A i, j \in DOMAIN list : i = j \/ i < j \/ j < i
    BY <1>1
  <2> QED BY <2>1 DEF HasDuplicates
<1>3. ASSUME NEW i \in DOMAIN list
      PROVE  [ics |-> list[i].ics, occi |-> list[i].occi, bits |-> Batch(list)[Key(list[i])]]
             = list[i]
  <2> DEFINE k == Key(list[i])
  <2>1. list[i] \in ToSet(list) /\ list[i] \in E
    BY <1>1, ElementOfSeq DEF ToSet
  <2>2. \A e \in ToSet(list) : Key(e) = k => e = list[i]
    BY <1>2 DEF ToSet
  <2>3. (CHOOSE e \in ToSet(list) : Key(e) = k) = list[i]
    <3> HIDE DEF k
    <3> QED BY <2>1, <2>2, Zenon DEF k
  <2>4. Batch(list)[k] = list[i].bits
    <3> HIDE DEF list
    <3> QED BY <2>1, <2>3 DEF Batch
  <2> QED BY <2>1, <2>4
<1>4. PucchResults(r) = [i \in DOMAIN list |-> list[i]]
  BY <1>3 DEF PucchResults
<1>5. [i \in DOMAIN list |-> list[i]] = list
  <2> HIDE DEF list, E
  <2> QED BY <1>1
<1> QED BY <1>4, <1>5

\* Results are in the order of the request, whatever order the MEX function finds them in,
\* and the MEX function has an offset over all ports when each port has one, for any number
\* of ports and PUCCHs.
THEOREM ResultsAreAnswers == Spec => []ResultsAnswerRequest
PROOF
<1>1. Init => ResultsAnswerRequest
  BY DEF Init, ResultsAnswerRequest
<1>2. Inv /\ ResultsAnswerRequest /\ [Next]_vars => ResultsAnswerRequest'
  <2> SUFFICES ASSUME Inv, ResultsAnswerRequest, [Next]_vars PROVE ResultsAnswerRequest'
    OBVIOUS
  <2>1. CASE UNCHANGED <<class, reply>>
    BY <2>1 DEF ResultsAnswerRequest
  <2>2. CASE reply' = NoReply
    BY <2>2 DEF ResultsAnswerRequest, NoReply
  <2>3. ASSUME NEW o \in Objects, NEW r \in Requests(class), Step(o, r), reply'.end = "ok"
        PROVE  ResultsAnswerRequest'
    <3>1. reply'.request = r /\ class' = class /\ Accepts(o, r)
      BY <2>3, StepReplies DEF Inv, Step
    <3>2. /\ reply'.results \in Results(o, r)
          /\ reply'.by = IF setting[o] = NoMEX THEN NoMEX ELSE processor'
      <4> DEFINE Answer(end, results) ==
                    [obj |-> o, request |-> r, end |-> end, results |-> results,
                     by |-> IF setting[o] = NoMEX THEN NoMEX ELSE processor']
      <4>1. \E end : \E results \in IF end = "ok" THEN Results(o, r) ELSE {<<>>} :
                reply' = Answer(end, results)
        BY <2>3 DEF Step
      <4>2. PICK end : \E results \in IF end = "ok" THEN Results(o, r) ELSE {<<>>} :
                reply' = Answer(end, results)
        BY <4>1
      <4>3. end = "ok"
        BY <2>3, <4>2
      <4> QED BY <4>2, <4>3
    <3>3. CASE class = "pucch"
      <4>1. reply'.results = PucchResults(r) /\ r \in PucchRequests
        BY <3>2, <3>3 DEF Results, Requests
      <4>2. r.mux \in MuxLists /\ IsMuxList(r.mux)
        BY <3>1, <3>3, <4>1 DEF Accepts, PucchAccepts, PucchRequests
      <4>3. r.mux # <<>> => reply'.results = r.mux
        BY <4>1, <4>2, ChecksAgree, ResultsInOrder
      <4> QED BY <3>1, <3>3, <4>3 DEF ResultsAnswerRequest
    <3>4. CASE class = "estimator" /\ setting[o] # NoMEX
      <4>1. PICK cfos \in CFOs(r) : reply'.results = Infos(r, cfos)
        BY <3>2, <3>4 DEF Results
      <4>2. r \in EstimatorRequests
        BY <3>4 DEF Requests
      <4> QED BY <3>1, <3>4, <4>1, <4>2, InfosAgree DEF ResultsAnswerRequest
    <3>5. CASE class = "estimator" /\ setting[o] = NoMEX
      BY <3>1, <3>2, <3>5 DEF ResultsAnswerRequest
    <3>6. CASE class \notin {"pucch", "estimator"}
      BY <3>1, <3>6 DEF ResultsAnswerRequest
    <3> QED BY <3>3, <3>4, <3>5, <3>6
  <2>4. ASSUME reply'.end # "ok" PROVE ResultsAnswerRequest'
    BY <2>4 DEF ResultsAnswerRequest
  <2> QED BY <2>1, <2>2, <2>3, <2>4, OthersDoNotReply
<1> QED BY <1>1, <1>2, InvHolds, PTL DEF Spec
=============================================================================
