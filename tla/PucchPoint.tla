----------------------------- MODULE PucchPoint -----------------------------
(***************************************************************************)
(* One SNR point of PUCCHPERF (stepImpl.m): slot after slot, UCI bits are  *)
(* sent and detected by the MATLAB receiver, the OCUDU receiver or both,   *)
(* and counted as the PUCCH format prescribes (FormatDetailsF0 to F2).     *)
(*                                                                         *)
(* A field of bits is the set of the positions that are one.  Receivers    *)
(* are external: whatever was sent, they may detect nothing, the right     *)
(* bits or other bits; in a false alarm test they see noise only.          *)
(***************************************************************************)
EXTENDS Integers, FiniteSets, Functions, FiniteSetsExt

CONSTANTS
    Configurations, \* What users simulate.
    NSlots,         \* nFrames * slotsPerFrame.
    QuickLimit,     \* Errors that end a quick simulation (100).
    Nothing         \* No PUCCH detected, which is not a field of bits.

Receivers == {"matlab", "ocudu"}

\* Format 2 stands for 2 to 4.  NumACKBits is the number of all bits in Format 2.
ASSUME ConfigurationsAssumption ==
    /\ Configurations \subseteq
            [PUCCHFormat : 0..2, isDetectionTest : BOOLEAN, QuickSimulation : BOOLEAN,
             NumACKBits : Nat, NumSRBits : 0..1,
             ImplementationType : {"matlab", "ocudu", "both"}]
    /\ \A c \in Configurations : c.NumACKBits + c.NumSRBits > 0
    /\ \A c \in Configurations : c.PUCCHFormat # 0 => c.NumSRBits = 0
ASSUME LimitsAssumption == NSlots \in Nat \ {0} /\ QuickLimit \in Nat \ {0}

ASSUME NothingAssumption ==
    \A c \in Configurations :
        /\ \A bits \in SUBSET (1..c.NumACKBits) : bits # Nothing
        /\ \A bits \in SUBSET (1..c.NumSRBits) : bits # Nothing

VARIABLES
    obj,            \* The configuration.
    nslot,          \* Slots simulated.
    over,           \* The loop over slots has ended.
    sent,           \* Bits sent, counted by the transmitter.
    stats,          \* [Receivers -> counters]: the rest of the struct stats.
    agree           \* Not in the code: both receivers always said the same.

vars == <<obj, nslot, over, sent, stats, agree>>

Sent == {"ACKs", "NACKs", "Occasions"}

Counters ==
    {"MissedACKs", "FalseACKs", "MissedSRs", "FalseSRs", "NACK2ACKs",
     "MissedOccasions", "Blocks"}

TypeOK ==
    /\ obj \in Configurations
    /\ nslot \in 0..NSlots
    /\ over \in BOOLEAN
    /\ sent \in [Sent -> Nat]
    /\ stats \in [Receivers -> [Counters -> Nat]]
    /\ agree \in BOOLEAN

Used(r) == obj.ImplementationType \in {r, "both"}

Init ==
    /\ obj \in Configurations
    /\ nslot = 0 /\ over = FALSE
    /\ sent = [s \in Sent |-> 0]
    /\ stats = [r \in Receivers |-> [c \in Counters |-> 0]]
    /\ agree = TRUE

ACKFields == SUBSET (1..obj.NumACKBits)
SRFields == SUBSET (1..obj.NumSRBits)

\* The bits of a slot.  Format 0 without ACK bits is transmitted for a positive
\* scheduling request only.
UCIs ==
    [ack : ACKFields,
     sr : IF obj.PUCCHFormat = 0 /\ obj.NumACKBits = 0 THEN {{1}} ELSE SRFields]

\* numel(uci{2}).
SRLength == IF obj.NumACKBits = 0 THEN 1 ELSE obj.NumSRBits

\* What a receiver returns: fields that may be empty (MATLAB), or isValid and all
\* fields (OCUDU).
MatlabAnswers == [ack : ACKFields \cup {Nothing}, sr : SRFields \cup {Nothing}]
OcuduAnswers ==
    [ack : ACKFields, sr : SRFields] \cup {[ack |-> Nothing, sr |-> Nothing]}

Answers(r) ==
    IF ~Used(r) THEN {[ack |-> Nothing, sr |-> Nothing]}
    ELSE IF r = "matlab" THEN MatlabAnswers ELSE OcuduAnswers

IsEmpty(field, length) == field = Nothing \/ length = 0

\* sum(a ~= b), sum(a & ~b) and the number of ones.
Differences(a, b) == Cardinality(SymDiff(a, b))
Lost(a, b) == Cardinality(a \ b)

-----------------------------------------------------------------------------
(***************************************************************************)
(* What a receiver's answer adds to its counters.                          *)
(***************************************************************************)

\* updateStatsMATLAB of Format 0.
MatlabF0(uci, rx) ==
    LET noACK == IsEmpty(rx.ack, obj.NumACKBits)
        noSR == IsEmpty(rx.sr, obj.NumSRBits)
    IN  IF obj.isDetectionTest
        THEN [MissedACKs |-> IF noACK THEN obj.NumACKBits ELSE Differences(uci.ack, rx.ack),
              MissedSRs |-> IF noSR THEN obj.NumSRBits ELSE Differences(uci.sr, rx.sr)]
        ELSE [FalseACKs |-> IF noACK THEN 0 ELSE obj.NumACKBits,
              FalseSRs |-> IF noSR THEN 0 ELSE obj.NumSRBits]

\* Mutant: nothing is missed when nothing is detected.
OcuduF0ValidOnly(uci, msg) ==
    LET isValid == msg.ack # Nothing
    IN  IF obj.isDetectionTest
        THEN [MissedACKs |-> IF isValid THEN Differences(uci.ack, msg.ack) ELSE 0,
              MissedSRs |-> IF isValid THEN Differences(uci.sr, msg.sr) ELSE 0]
        ELSE [FalseACKs |-> IF isValid THEN obj.NumACKBits ELSE 0,
              FalseSRs |-> IF isValid THEN SRLength ELSE 0]

\* updateStatsOCUDU of Format 0.
OcuduF0(uci, msg) ==
    LET isValid == msg.ack # Nothing
    IN  IF obj.isDetectionTest
        THEN [MissedACKs |-> IF isValid THEN Differences(uci.ack, msg.ack)
                                        ELSE obj.NumACKBits,
              MissedSRs |-> IF isValid THEN Differences(uci.sr, msg.sr) ELSE SRLength]
        ELSE [FalseACKs |-> IF isValid THEN obj.NumACKBits ELSE 0,
              FalseSRs |-> IF isValid THEN SRLength ELSE 0]

\* updateStatsMATLAB and updateStatsOCUDU of Format 1.
CountF1(uci, rx) ==
    IF rx.ack = Nothing
    THEN IF obj.isDetectionTest
         THEN [MissedOccasions |-> 1, MissedACKs |-> Cardinality(uci.ack)]
         ELSE [FalseACKs |-> 0]
    ELSE IF obj.isDetectionTest
         THEN [NACK2ACKs |-> Lost(rx.ack, uci.ack), MissedACKs |-> Lost(uci.ack, rx.ack)]
         ELSE [FalseACKs |-> Cardinality(rx.ack)]

\* updateStatsMATLAB and updateStatsOCUDU of Format 2.
CountF2(uci, rx) ==
    IF obj.isDetectionTest
    THEN [Blocks |-> IF rx.ack = uci.ack THEN 0 ELSE 1]
    ELSE [Blocks |-> IF rx.ack = Nothing THEN 0 ELSE 1]

\* The counters of receiver r that change, by how much.
Increments(r, uci, rx) ==
    CASE obj.PUCCHFormat = 0 /\ r = "matlab" -> MatlabF0(uci, rx)
      [] obj.PUCCHFormat = 0 /\ r = "ocudu" -> OcuduF0(uci, rx)
      [] obj.PUCCHFormat = 1 -> CountF1(uci, rx)
      [] OTHER -> CountF2(uci, rx)

Added(counters, inc) ==
    [c \in DOMAIN counters |->
        IF c \in DOMAIN inc THEN counters[c] + inc[c] ELSE counters[c]]

\* Mutant: NACKs are counted as ACKs.
UCIEncodeSwapped(uci) ==
    CASE obj.PUCCHFormat = 0 -> [ACKs |-> obj.NumACKBits]
      [] obj.PUCCHFormat = 1 /\ obj.isDetectionTest ->
            [Occasions |-> obj.NumACKBits,
             ACKs |-> obj.NumACKBits - Cardinality(uci.ack),
             NACKs |-> Cardinality(uci.ack)]
      [] obj.PUCCHFormat = 1 /\ ~obj.isDetectionTest -> [Occasions |-> obj.NumACKBits]
      [] OTHER -> [s \in {} |-> 0]

\* UCIEncode: what the transmitter counts (the F0 count of SR bits is not exported).
UCIEncode(uci) ==
    CASE obj.PUCCHFormat = 0 -> [ACKs |-> obj.NumACKBits]
      [] obj.PUCCHFormat = 1 /\ obj.isDetectionTest ->
            [Occasions |-> obj.NumACKBits,
             ACKs |-> Cardinality(uci.ack),
             NACKs |-> obj.NumACKBits - Cardinality(uci.ack)]
      [] obj.PUCCHFormat = 1 /\ ~obj.isDetectionTest -> [Occasions |-> obj.NumACKBits]
      [] OTHER -> [s \in {} |-> 0]

\* isSimOver, for receiver r with counters c.
ReceiverIsOver(c) ==
    CASE obj.PUCCHFormat = 0 ->
            \/ /\ c["FalseACKs"] >= QuickLimit
               /\ obj.isDetectionTest => c["MissedACKs"] >= QuickLimit
            \/ /\ obj.isDetectionTest /\ obj.NumSRBits > 0
               /\ c["MissedSRs"] >= QuickLimit
      [] obj.PUCCHFormat = 1 ->
            IF obj.isDetectionTest
            THEN c["MissedACKs"] >= QuickLimit /\ c["NACK2ACKs"] >= QuickLimit
            ELSE c["FalseACKs"] >= QuickLimit
      [] OTHER -> c["Blocks"] >= QuickLimit

isSimOver(st) == \A r \in Receivers : Used(r) => ReceiverIsOver(st[r])

\* Mutant: a quick simulation ends by isSimOver only.
PointEndsQuick(n, st) == IF obj.QuickSimulation THEN isSimOver(st) ELSE n = NSlots

\* The loop over slots ends after n slots with statistics st.
PointEnds(n, st) == n = NSlots \/ (obj.QuickSimulation /\ isSimOver(st))

\* One slot of the loop in stepImpl.
Slot ==
    /\ ~over
    /\ \E uci \in UCIs :
       \E mat \in Answers("matlab"), ocu \in Answers("ocudu") :
          LET rx == [r \in Receivers |-> IF r = "matlab" THEN mat ELSE ocu]
          IN
          /\ sent' = Added(sent, UCIEncode(uci))
          /\ stats' = [r \in Receivers |->
                IF Used(r) THEN Added(stats[r], Increments(r, uci, rx[r])) ELSE stats[r]]
          /\ agree' = (agree /\ mat = ocu)
    /\ nslot' = nslot + 1
    /\ over' = PointEnds(nslot', stats')
    /\ UNCHANGED obj

Spec == Init /\ [][Slot]_vars

-----------------------------------------------------------------------------
(***************************************************************************)
(* Properties.                                                             *)
(***************************************************************************)

\* The rates shown for receiver r, each as what it counts and what that is divided by
\* (detection rates are one minus theirs).  FalseSRs are not what Format 0 shows:
\* updateCounters exports the false ACKs in their place.
Rates(r) ==
    LET c == stats[r]
    IN  CASE obj.PUCCHFormat = 0 /\ obj.isDetectionTest ->
                [ACKDetectionRate |-> <<c["MissedACKs"], sent["ACKs"]>>,
                 SRDetectionRate |-> <<c["MissedSRs"], nslot>>]
          [] obj.PUCCHFormat = 0 /\ ~obj.isDetectionTest ->
                [FalseACKDetectionRate |-> <<c["FalseACKs"], nslot * obj.NumACKBits>>,
                 FalseSRDetectionRate |-> <<c["FalseACKs"], nslot>>]
          [] obj.PUCCHFormat = 1 /\ obj.isDetectionTest ->
                [ACKDetectionRate |-> <<c["MissedACKs"], sent["ACKs"]>>,
                 NACK2ACKDetectionRate |-> <<c["NACK2ACKs"], sent["NACKs"]>>,
                 PUCCHDetectionRate |-> <<c["MissedOccasions"], sent["Occasions"]>>]
          [] obj.PUCCHFormat = 1 /\ ~obj.isDetectionTest ->
                [FalseACKDetectionRate |-> <<c["FalseACKs"], sent["Occasions"]>>]
          [] OTHER -> [BlockErrorRate |-> <<c["Blocks"], nslot>>]

\* The rates that users see are probabilities: the bits, blocks or occasions counted
\* are never more than those they are divided by.  Of the false SR rate of Format 0 the
\* code only makes sure that it is at most the number of ACK bits.
RatesAreProbabilities ==
    \A r \in Receivers : \A name \in DOMAIN Rates(r) :
        LET rate == Rates(r)[name]
            limit == IF name = "FalseSRDetectionRate" THEN obj.NumACKBits ELSE 1
        IN  rate[1] <= limit * rate[2]

\* The two receivers can be compared: as long as they say the same about every
\* slot, their counters are the same, although each is counted by its own code.
ReceiversAreComparable ==
    obj.ImplementationType = "both" /\ agree => stats["matlab"] = stats["ocudu"]
=============================================================================
