-------------------------- MODULE PucchPointProofs --------------------------
(***************************************************************************)
(* Proofs about PucchPoint, for any configurations (with any number of ACK *)
(* bits), any number of slots and any answers of the receivers.            *)
(*                                                                         *)
(* Both properties are about sums of what slots add: if each slot adds no  *)
(* more to a counter than to what it is divided by, no rate exceeds one;   *)
(* if each slot adds the same to the counters of both receivers, they      *)
(* stay equal.  The work is in the formats, which count in their own ways. *)
(***************************************************************************)
EXTENDS PucchPoint, FiniteSetTheorems, TLAPS

\* What a slot adds to all the counters of a receiver, and to those of the transmitter.
Amounts(inc) == [c \in Counters |-> IF c \in DOMAIN inc THEN inc[c] ELSE 0]
SentAmounts(inc) == [s \in Sent |-> IF s \in DOMAIN inc THEN inc[s] ELSE 0]

\* A slot adds no more to a counter than to what the counter is divided by.
Bounded(a, e) ==
    /\ a \in [Counters -> Nat] /\ e \in [Sent -> Nat]
    /\ obj.PUCCHFormat = 0 =>
            /\ a["MissedACKs"] <= e["ACKs"]
            /\ a["MissedSRs"] <= 1
            /\ a["FalseACKs"] <= obj.NumACKBits
            /\ a["FalseSRs"] <= 1
    /\ obj.PUCCHFormat = 1 =>
            /\ a["MissedACKs"] <= e["ACKs"]
            /\ a["NACK2ACKs"] <= e["NACKs"]
            /\ a["MissedOccasions"] <= e["Occasions"]
            /\ a["FalseACKs"] <= e["Occasions"]
    /\ a["Blocks"] <= 1

\* No counter exceeds what bounds it, whatever is shown.
CountersBounded ==
    \A r \in Receivers :
        LET c == stats[r]
        IN  /\ obj.PUCCHFormat = 0 =>
                    /\ c["MissedACKs"] <= sent["ACKs"]
                    /\ c["MissedSRs"] <= nslot
                    /\ c["FalseACKs"] <= nslot * obj.NumACKBits
                    /\ c["FalseSRs"] <= nslot
            /\ obj.PUCCHFormat = 1 =>
                    /\ c["MissedACKs"] <= sent["ACKs"]
                    /\ c["NACK2ACKs"] <= sent["NACKs"]
                    /\ c["MissedOccasions"] <= sent["Occasions"]
                    /\ c["FalseACKs"] <= sent["Occasions"]
            /\ c["Blocks"] <= nslot

\* The inductive invariant: a point that is not over has slots left.
Inv == TypeOK /\ (~over => nslot # NSlots) /\ CountersBounded

-----------------------------------------------------------------------------
(***************************************************************************)
(* Fields of bits.                                                         *)
(***************************************************************************)

\* Bits that differ or are lost are bits of the field.
LEMMA FieldBounds ==
    ASSUME NEW n \in Nat, NEW a \in SUBSET (1..n), NEW b \in SUBSET (1..n)
    PROVE  /\ Cardinality(a) \in Nat /\ Cardinality(a) <= n
           /\ Lost(a, b) \in Nat /\ Lost(a, b) <= Cardinality(a)
           /\ Lost(b, a) \in Nat /\ Lost(b, a) <= n - Cardinality(a)
           /\ Differences(a, b) \in Nat /\ Differences(a, b) <= n
PROOF
<1>1. IsFiniteSet(1..n) /\ Cardinality(1..n) = n
  BY FS_Interval
<1>2. ASSUME NEW s \in SUBSET (1..n)
      PROVE  IsFiniteSet(s) /\ Cardinality(s) \in Nat /\ Cardinality(s) <= n
  BY <1>1, FS_Subset, FS_CardinalityType
<1>3. Lost(a, b) \in Nat /\ Lost(a, b) <= Cardinality(a)
  <2>1. a \ b \in SUBSET a /\ a \ b \in SUBSET (1..n)
    OBVIOUS
  <2> QED BY <1>2, <2>1, FS_Subset DEF Lost
<1>4. Lost(b, a) \in Nat /\ Lost(b, a) <= n - Cardinality(a)
  <2>1. Cardinality((1..n) \ a) = n - Cardinality(a)
    <3>1. (1..n) \cap a = a
      OBVIOUS
    <3> QED BY <1>1, <3>1, FS_Difference
  <2>2. b \ a \in SUBSET ((1..n) \ a) /\ b \ a \in SUBSET (1..n) /\ (1..n) \ a \in SUBSET (1..n)
    OBVIOUS
  <2> QED BY <1>2, <2>1, <2>2, FS_Subset DEF Lost
<1>5. SymDiff(a, b) \in SUBSET (1..n)
  BY DEF SymDiff
<1> QED BY <1>2, <1>3, <1>4, <1>5 DEF Differences

\* A field without bits never differs.
LEMMA EmptyFields ==
    ASSUME NEW a \in SUBSET (1..0), NEW b \in SUBSET (1..0)
    PROVE  Differences(a, b) = 0
PROOF
<1>1. SymDiff(a, b) = {}
  BY DEF SymDiff
<1> QED BY <1>1, FS_EmptySet DEF Differences

\* What is known of a configuration.
LEMMA Configured ==
    ASSUME obj \in Configurations
    PROVE  /\ obj.PUCCHFormat \in 0..2
           /\ obj.NumACKBits \in Nat /\ obj.NumSRBits \in 0..1
           /\ obj.NumACKBits = 0 => obj.NumSRBits = 1 /\ obj.PUCCHFormat = 0
           /\ obj.isDetectionTest \in BOOLEAN
           /\ obj.ImplementationType \in {"matlab", "ocudu", "both"}
           /\ Nothing \notin ACKFields /\ Nothing \notin SRFields
PROOF
<1>1. /\ obj.PUCCHFormat \in 0..2
      /\ obj.NumACKBits \in Nat /\ obj.NumSRBits \in 0..1
      /\ obj.isDetectionTest \in BOOLEAN
      /\ obj.ImplementationType \in {"matlab", "ocudu", "both"}
  BY ConfigurationsAssumption
<1>2. /\ obj.NumACKBits + obj.NumSRBits > 0
      /\ obj.PUCCHFormat # 0 => obj.NumSRBits = 0
  BY ConfigurationsAssumption
<1>3. Nothing \notin ACKFields /\ Nothing \notin SRFields
  BY NothingAssumption, Zenon DEF ACKFields, SRFields
<1>4. obj.NumACKBits = 0 => obj.NumSRBits = 1 /\ obj.PUCCHFormat = 0
  BY <1>1, <1>2
<1> QED BY <1>1, <1>3, <1>4

\* The bits sent in a slot are bits of the fields.
LEMMA UCIFields ==
    ASSUME obj \in Configurations, NEW uci \in UCIs
    PROVE  uci.ack \in ACKFields /\ uci.sr \in SRFields
PROOF
<1>1. obj.NumACKBits = 0 => {1} \in SRFields
  BY Configured DEF SRFields
<1> QED BY <1>1 DEF UCIs

\* Unused receivers answer nothing; the others answer with fields or with nothing.
LEMMA AnswerFields ==
    ASSUME NEW r \in Receivers, NEW rx \in Answers(r)
    PROVE  /\ rx.ack = Nothing \/ rx.ack \in ACKFields
           /\ rx.sr = Nothing \/ rx.sr \in SRFields
           /\ r = "ocudu" /\ rx.ack # Nothing => rx.sr \in SRFields
BY DEF Answers, MatlabAnswers, OcuduAnswers

-----------------------------------------------------------------------------
(***************************************************************************)
(* Formats.                                                                *)
(***************************************************************************)

\* Format 0: every ACK bit that is sent may be missed, and the SR.
LEMMA Format0Bounded ==
    ASSUME obj \in Configurations, obj.PUCCHFormat = 0, NEW uci \in UCIs,
           NEW r \in Receivers, NEW rx \in Answers(r)
    PROVE  Bounded(Amounts(Increments(r, uci, rx)), SentAmounts(UCIEncode(uci)))
PROOF
<1> DEFINE inc == Increments(r, uci, rx)
           a == Amounts(inc)
           e == SentAmounts(UCIEncode(uci))
           n == obj.NumACKBits
<1>1. n \in Nat /\ obj.NumSRBits \in 0..1 /\ obj.NumSRBits \in Nat /\ SRLength \in 0..1
  BY Configured DEF SRLength
<1>2. UCIEncode(uci) = [ACKs |-> n]
  BY DEF UCIEncode
<1>3. e \in [Sent -> Nat] /\ e["ACKs"] = n
  BY <1>1, <1>2 DEF SentAmounts, Sent
<1>4. uci.ack \in SUBSET (1..n) /\ uci.sr \in SUBSET (1..obj.NumSRBits)
  BY UCIFields DEF ACKFields, SRFields
<1>5. \A b \in SUBSET (1..n) : Differences(uci.ack, b) \in Nat /\ Differences(uci.ack, b) <= n
  BY <1>1, <1>4, FieldBounds
<1>6. \A b \in SUBSET (1..obj.NumSRBits) :
        Differences(uci.sr, b) \in Nat /\ Differences(uci.sr, b) <= obj.NumSRBits
  BY <1>1, <1>4, FieldBounds
<1>7. ASSUME NEW x \in 0..n, NEW y \in 0..1,
             inc = [MissedACKs |-> x, MissedSRs |-> y] \/ inc = [FalseACKs |-> x, FalseSRs |-> y]
      PROVE  Bounded(a, e)
  <2>1. CASE inc = [MissedACKs |-> x, MissedSRs |-> y]
    <3>1. a = [c \in Counters |-> IF c = "MissedACKs" THEN x ELSE IF c = "MissedSRs" THEN y ELSE 0]
      BY <2>1 DEF Amounts
    <3> QED BY <1>1, <1>3, <3>1 DEF Bounded, Counters
  <2>2. CASE inc = [FalseACKs |-> x, FalseSRs |-> y]
    <3>1. a = [c \in Counters |-> IF c = "FalseACKs" THEN x ELSE IF c = "FalseSRs" THEN y ELSE 0]
      BY <2>2 DEF Amounts
    <3> QED BY <1>1, <1>3, <3>1 DEF Bounded, Counters
  <2> QED BY <1>7, <2>1, <2>2
<1>8. CASE r = "matlab"
  <2>1. inc = MatlabF0(uci, rx)
    BY <1>8 DEF Increments
  <2>2. PICK x \in 0..n, y \in 0..1 :
          inc = [MissedACKs |-> x, MissedSRs |-> y] \/ inc = [FalseACKs |-> x, FalseSRs |-> y]
    <3>1. /\ ~IsEmpty(rx.ack, n) => rx.ack \in SUBSET (1..n)
          /\ ~IsEmpty(rx.sr, obj.NumSRBits) => rx.sr \in SUBSET (1..obj.NumSRBits)
      BY AnswerFields DEF IsEmpty, ACKFields, SRFields
    <3>2. CASE obj.isDetectionTest
      <4> DEFINE x == IF IsEmpty(rx.ack, n) THEN n ELSE Differences(uci.ack, rx.ack)
                 y == IF IsEmpty(rx.sr, obj.NumSRBits) THEN obj.NumSRBits
                      ELSE Differences(uci.sr, rx.sr)
      <4>1. x \in 0..n /\ y \in 0..1
        BY <1>1, <1>5, <1>6, <3>1
      <4>2. inc = [MissedACKs |-> x, MissedSRs |-> y]
        BY <2>1, <3>2, Zenon DEF MatlabF0
      <4> QED BY <4>1, <4>2
    <3>3. CASE ~obj.isDetectionTest
      <4> DEFINE x == IF IsEmpty(rx.ack, n) THEN 0 ELSE n
                 y == IF IsEmpty(rx.sr, obj.NumSRBits) THEN 0 ELSE obj.NumSRBits
      <4>1. x \in 0..n /\ y \in 0..1
        BY <1>1
      <4>2. inc = [FalseACKs |-> x, FalseSRs |-> y]
        BY <2>1, <3>3, Zenon DEF MatlabF0
      <4> QED BY <4>1, <4>2
    <3> QED BY <3>2, <3>3
  <2> QED BY <1>7, <2>2
<1>9. CASE r = "ocudu"
  <2>1. inc = OcuduF0(uci, rx)
    BY <1>9 DEF Increments
  <2>2. PICK x \in 0..n, y \in 0..1 :
          inc = [MissedACKs |-> x, MissedSRs |-> y] \/ inc = [FalseACKs |-> x, FalseSRs |-> y]
    <3>1. rx.ack # Nothing =>
            rx.ack \in SUBSET (1..n) /\ rx.sr \in SUBSET (1..obj.NumSRBits)
      BY <1>9, AnswerFields DEF ACKFields, SRFields
    <3>2. CASE obj.isDetectionTest
      <4> DEFINE x == IF rx.ack # Nothing THEN Differences(uci.ack, rx.ack) ELSE n
                 y == IF rx.ack # Nothing THEN Differences(uci.sr, rx.sr) ELSE SRLength
      <4>1. x \in 0..n /\ y \in 0..1
        BY <1>1, <1>5, <1>6, <3>1
      <4>2. inc = [MissedACKs |-> x, MissedSRs |-> y]
        BY <2>1, <3>2, Zenon DEF OcuduF0
      <4> QED BY <4>1, <4>2
    <3>3. CASE ~obj.isDetectionTest
      <4> DEFINE x == IF rx.ack # Nothing THEN n ELSE 0
                 y == IF rx.ack # Nothing THEN SRLength ELSE 0
      <4>1. x \in 0..n /\ y \in 0..1
        BY <1>1
      <4>2. inc = [FalseACKs |-> x, FalseSRs |-> y]
        BY <2>1, <3>3, Zenon DEF OcuduF0
      <4> QED BY <4>1, <4>2
    <3> QED BY <3>2, <3>3
  <2> QED BY <1>7, <2>2
<1> QED BY <1>8, <1>9 DEF Receivers

\* Format 1: ACKs become missed ACKs, NACKs become ACKs, noise becomes ACKs.
LEMMA Format1Bounded ==
    ASSUME obj \in Configurations, obj.PUCCHFormat = 1, NEW uci \in UCIs,
           NEW r \in Receivers, NEW rx \in Answers(r)
    PROVE  Bounded(Amounts(Increments(r, uci, rx)), SentAmounts(UCIEncode(uci)))
PROOF
<1> DEFINE inc == Increments(r, uci, rx)
           a == Amounts(inc)
           e == SentAmounts(UCIEncode(uci))
           n == obj.NumACKBits
           k == Cardinality(uci.ack)
<1>1. n \in Nat \ {0} /\ obj.isDetectionTest \in BOOLEAN
  BY Configured
<1>2. inc = CountF1(uci, rx)
  BY DEF Increments
<1>3. uci.ack \in SUBSET (1..n)
  BY UCIFields DEF ACKFields
<1>4. k \in Nat /\ k <= n
  BY <1>1, <1>3, FieldBounds
<1>5. rx.ack # Nothing =>
        /\ Lost(uci.ack, rx.ack) \in Nat /\ Lost(uci.ack, rx.ack) <= k
        /\ Lost(rx.ack, uci.ack) \in Nat /\ Lost(rx.ack, uci.ack) <= n - k
        /\ Cardinality(rx.ack) \in Nat /\ Cardinality(rx.ack) <= n
  <2>1. rx.ack # Nothing => rx.ack \in SUBSET (1..n)
    BY AnswerFields DEF ACKFields
  <2> QED BY <1>1, <1>3, <2>1, FieldBounds
<1>6. CASE obj.isDetectionTest
  <2>1. UCIEncode(uci) = [Occasions |-> n, ACKs |-> k, NACKs |-> n - k]
    BY <1>6 DEF UCIEncode
  <2>2. e \in [Sent -> Nat] /\ e["ACKs"] = k /\ e["NACKs"] = n - k /\ e["Occasions"] = n
    BY <1>1, <1>4, <2>1 DEF SentAmounts, Sent
  <2>3. CASE rx.ack = Nothing
    <3>1. inc = [MissedOccasions |-> 1, MissedACKs |-> k]
      BY <1>2, <1>6, <2>3, Zenon DEF CountF1
    <3>2. a = [c \in Counters |->
                IF c = "MissedOccasions" THEN 1 ELSE IF c = "MissedACKs" THEN k ELSE 0]
      BY <3>1 DEF Amounts
    <3> QED BY <1>1, <1>4, <2>2, <3>2 DEF Bounded, Counters
  <2>4. CASE rx.ack # Nothing
    <3>1. inc = [NACK2ACKs |-> Lost(rx.ack, uci.ack), MissedACKs |-> Lost(uci.ack, rx.ack)]
      BY <1>2, <1>6, <2>4, Zenon DEF CountF1
    <3>2. a = [c \in Counters |-> IF c = "NACK2ACKs" THEN Lost(rx.ack, uci.ack)
                                  ELSE IF c = "MissedACKs" THEN Lost(uci.ack, rx.ack) ELSE 0]
      BY <3>1 DEF Amounts
    <3> QED BY <1>1, <1>4, <1>5, <2>2, <2>4, <3>2 DEF Bounded, Counters
  <2> QED BY <2>3, <2>4
<1>7. CASE ~obj.isDetectionTest
  <2>1. UCIEncode(uci) = [Occasions |-> n]
    BY <1>7 DEF UCIEncode
  <2>2. e \in [Sent -> Nat] /\ e["ACKs"] = 0 /\ e["NACKs"] = 0 /\ e["Occasions"] = n
    BY <1>1, <2>1 DEF SentAmounts, Sent
  <2>3. PICK x \in 0..n : inc = [FalseACKs |-> x]
    <3>1. CASE rx.ack = Nothing
      <4>1. inc = [FalseACKs |-> 0]
        BY <1>2, <1>7, <3>1, Zenon DEF CountF1
      <4> QED BY <1>1, <4>1
    <3>2. CASE rx.ack # Nothing
      <4>1. inc = [FalseACKs |-> Cardinality(rx.ack)]
        BY <1>2, <1>7, <3>2, Zenon DEF CountF1
      <4> QED BY <1>1, <1>5, <3>2, <4>1
    <3> QED BY <3>1, <3>2
  <2>4. a = [c \in Counters |-> IF c = "FalseACKs" THEN x ELSE 0]
    BY <2>3 DEF Amounts
  <2> QED BY <1>1, <2>2, <2>4 DEF Bounded, Counters
<1> QED BY <1>6, <1>7

\* Format 2: one block per slot.
LEMMA Format2Bounded ==
    ASSUME obj \in Configurations, obj.PUCCHFormat = 2, NEW uci \in UCIs,
           NEW r \in Receivers, NEW rx \in Answers(r)
    PROVE  Bounded(Amounts(Increments(r, uci, rx)), SentAmounts(UCIEncode(uci)))
PROOF
<1> DEFINE inc == Increments(r, uci, rx)
<1>1. inc = CountF2(uci, rx)
  BY DEF Increments
<1>2. PICK x \in 0..1 : inc = [Blocks |-> x]
  <2>1. \/ inc = [Blocks |-> IF rx.ack = uci.ack THEN 0 ELSE 1]
        \/ inc = [Blocks |-> IF rx.ack = Nothing THEN 0 ELSE 1]
    BY <1>1, Zenon DEF CountF2
  <2> QED BY <2>1
<1>3. Amounts(inc) = [c \in Counters |-> IF c = "Blocks" THEN x ELSE 0]
  BY <1>2 DEF Amounts
<1>4. UCIEncode(uci) = [s \in {} |-> 0]
  BY DEF UCIEncode
<1>5. SentAmounts(UCIEncode(uci)) \in [Sent -> Nat]
  BY <1>4 DEF SentAmounts
<1> QED BY <1>3, <1>5 DEF Bounded, Counters

\* A slot of any format adds no more to a counter than to what it is divided by.
LEMMA AllFormatsBounded ==
    ASSUME obj \in Configurations, NEW uci \in UCIs, NEW r \in Receivers, NEW rx \in Answers(r)
    PROVE  Bounded(Amounts(Increments(r, uci, rx)), SentAmounts(UCIEncode(uci)))
BY Configured, Format0Bounded, Format1Bounded, Format2Bounded

\* When they say the same, the two receivers are counted alike.
LEMMA SameAnswerSameCount ==
    ASSUME obj \in Configurations, obj.ImplementationType = "both", NEW uci \in UCIs,
           NEW rx \in Answers("matlab"), rx \in Answers("ocudu")
    PROVE  Increments("matlab", uci, rx) = Increments("ocudu", uci, rx)
PROOF
<1>1. CASE obj.PUCCHFormat # 0
  BY <1>1 DEF Increments
<1>2. CASE obj.PUCCHFormat = 0
  <2> DEFINE n == obj.NumACKBits
             m == obj.NumSRBits
  <2>1. /\ Increments("matlab", uci, rx) = MatlabF0(uci, rx)
        /\ Increments("ocudu", uci, rx) = OcuduF0(uci, rx)
    BY <1>2 DEF Increments
  <2>2. n \in Nat /\ m \in 0..1 /\ (n = 0 => m = 1)
    BY Configured
  <2>3. uci.ack \in SUBSET (1..n) /\ uci.sr \in SUBSET (1..m)
    BY UCIFields DEF ACKFields, SRFields
  <2>4. rx \in OcuduAnswers
    BY DEF Answers, Used, Receivers
  <2>5. CASE rx.ack = Nothing
    <3>1. rx.sr = Nothing
      BY <2>4, <2>5, Configured DEF OcuduAnswers
    <3>2. IsEmpty(rx.ack, n) /\ IsEmpty(rx.sr, m)
      BY <2>5, <3>1 DEF IsEmpty
    <3>3. SRLength = m
      BY <2>2 DEF SRLength
    <3>4. MatlabF0(uci, rx) = IF obj.isDetectionTest
                              THEN [MissedACKs |-> n, MissedSRs |-> m]
                              ELSE [FalseACKs |-> 0, FalseSRs |-> 0]
      BY <3>2 DEF MatlabF0
    <3>5. OcuduF0(uci, rx) = IF obj.isDetectionTest
                             THEN [MissedACKs |-> n, MissedSRs |-> SRLength]
                             ELSE [FalseACKs |-> 0, FalseSRs |-> 0]
      BY <2>5 DEF OcuduF0
    <3> QED BY <2>1, <3>3, <3>4, <3>5
  <2>6. CASE rx.ack # Nothing
    <3>1. rx.ack \in SUBSET (1..n) /\ rx.sr \in SUBSET (1..m) /\ rx.sr # Nothing
      BY <2>4, <2>6, Configured DEF OcuduAnswers, ACKFields, SRFields
    <3>2. /\ IsEmpty(rx.ack, n) <=> n = 0
          /\ IsEmpty(rx.sr, m) <=> m = 0
      BY <2>6, <3>1, Zenon DEF IsEmpty
    <3>3. n = 0 => Differences(uci.ack, rx.ack) = 0
      BY <2>3, <3>1, EmptyFields
    <3>4. m = 0 => Differences(uci.sr, rx.sr) = 0
      BY <2>3, <3>1, EmptyFields
    <3>5. (IF IsEmpty(rx.ack, n) THEN n ELSE Differences(uci.ack, rx.ack))
            = Differences(uci.ack, rx.ack)
      BY <3>2, <3>3
    <3>6. (IF IsEmpty(rx.sr, m) THEN m ELSE Differences(uci.sr, rx.sr))
            = Differences(uci.sr, rx.sr)
      BY <3>2, <3>4
    <3>7. (IF IsEmpty(rx.ack, n) THEN 0 ELSE n) = n /\ (IF IsEmpty(rx.sr, m) THEN 0 ELSE m) = m
      BY <3>2
    <3>8. SRLength = m
      BY <2>2 DEF SRLength
    <3>9. MatlabF0(uci, rx) = IF obj.isDetectionTest
                              THEN [MissedACKs |-> Differences(uci.ack, rx.ack),
                                    MissedSRs |-> Differences(uci.sr, rx.sr)]
                              ELSE [FalseACKs |-> n, FalseSRs |-> m]
      BY <3>5, <3>6, <3>7 DEF MatlabF0
    <3>10. OcuduF0(uci, rx) = IF obj.isDetectionTest
                              THEN [MissedACKs |-> Differences(uci.ack, rx.ack),
                                    MissedSRs |-> Differences(uci.sr, rx.sr)]
                              ELSE [FalseACKs |-> n, FalseSRs |-> SRLength]
      BY <2>6 DEF OcuduF0
    <3> QED BY <2>1, <3>8, <3>9, <3>10
  <2> QED BY <2>5, <2>6
<1> QED BY <1>1, <1>2

-----------------------------------------------------------------------------
(***************************************************************************)
(* The point.                                                              *)
(***************************************************************************)

\* Counters grow by the amounts of the slot.
LEMMA AddedAmounts ==
    ASSUME NEW inc
    PROVE  /\ \A st \in [Counters -> Nat] : Amounts(inc) \in [Counters -> Nat] =>
                /\ Added(st, inc) \in [Counters -> Nat]
                /\ \A c \in Counters : Added(st, inc)[c] = st[c] + Amounts(inc)[c]
           /\ \A st \in [Sent -> Nat] : SentAmounts(inc) \in [Sent -> Nat] =>
                /\ Added(st, inc) \in [Sent -> Nat]
                /\ \A c \in Sent : Added(st, inc)[c] = st[c] + SentAmounts(inc)[c]
PROOF
<1>1. ASSUME NEW st \in [Counters -> Nat], Amounts(inc) \in [Counters -> Nat]
      PROVE  /\ Added(st, inc) \in [Counters -> Nat]
             /\ \A c \in Counters : Added(st, inc)[c] = st[c] + Amounts(inc)[c]
  <2>1. Added(st, inc) = [c \in Counters |-> IF c \in DOMAIN inc THEN st[c] + inc[c] ELSE st[c]]
    BY DEF Added
  <2>2. \A c \in Counters : Amounts(inc)[c] = IF c \in DOMAIN inc THEN inc[c] ELSE 0
    BY DEF Amounts
  <2>3. \A c \in Counters : Added(st, inc)[c] = st[c] + Amounts(inc)[c]
    BY <2>1, <2>2
  <2> QED BY <1>1, <2>1, <2>3
<1>2. ASSUME NEW st \in [Sent -> Nat], SentAmounts(inc) \in [Sent -> Nat]
      PROVE  /\ Added(st, inc) \in [Sent -> Nat]
             /\ \A c \in Sent : Added(st, inc)[c] = st[c] + SentAmounts(inc)[c]
  <2>1. Added(st, inc) = [c \in Sent |-> IF c \in DOMAIN inc THEN st[c] + inc[c] ELSE st[c]]
    BY DEF Added
  <2>2. \A c \in Sent : SentAmounts(inc)[c] = IF c \in DOMAIN inc THEN inc[c] ELSE 0
    BY DEF SentAmounts
  <2>3. \A c \in Sent : Added(st, inc)[c] = st[c] + SentAmounts(inc)[c]
    BY <2>1, <2>2
  <2> QED BY <1>2, <2>1, <2>3
<1> QED BY <1>1, <1>2

\* A slot preserves the invariant.
LEMMA SlotPreservesInv == ASSUME Inv, Slot  PROVE Inv'
PROOF
<1>1. PICK uci \in UCIs :
        \E mat \in Answers("matlab"), ocu \in Answers("ocudu") :
          LET rx == [r \in Receivers |-> IF r = "matlab" THEN mat ELSE ocu]
          IN  /\ sent' = Added(sent, UCIEncode(uci))
              /\ stats' = [r \in Receivers |->
                    IF Used(r) THEN Added(stats[r], Increments(r, uci, rx[r])) ELSE stats[r]]
              /\ agree' = (agree /\ mat = ocu)
  BY Zenon DEF Slot
<1>2. PICK mat \in Answers("matlab"), ocu \in Answers("ocudu") :
          LET rx == [r \in Receivers |-> IF r = "matlab" THEN mat ELSE ocu]
          IN  /\ sent' = Added(sent, UCIEncode(uci))
              /\ stats' = [r \in Receivers |->
                    IF Used(r) THEN Added(stats[r], Increments(r, uci, rx[r])) ELSE stats[r]]
              /\ agree' = (agree /\ mat = ocu)
  BY <1>1, Zenon
<1> DEFINE rx == [r \in Receivers |-> IF r = "matlab" THEN mat ELSE ocu]
           e == SentAmounts(UCIEncode(uci))
           a(r) == Amounts(Increments(r, uci, rx[r]))
<1>3. /\ obj' = obj /\ obj \in Configurations /\ nslot' = nslot + 1 /\ nslot \in 0..NSlots-1
      /\ sent \in [Sent -> Nat] /\ stats \in [Receivers -> [Counters -> Nat]]
      /\ obj.NumACKBits \in Nat /\ NSlots \in Nat
  BY Configured, LimitsAssumption DEF Slot, Inv, TypeOK
<1>4. /\ agree' \in BOOLEAN /\ over' \in BOOLEAN
      /\ ~over' => nslot' # NSlots
  <2>1. over' = PointEnds(nslot', stats') /\ agree' = (agree /\ mat = ocu)
    BY <1>2, Zenon DEF Slot
  <2> QED BY <2>1, Zenon DEF PointEnds
<1>5. \A r \in Receivers : rx[r] \in Answers(r)
  BY DEF Receivers
<1>6. \A r \in Receivers : Bounded(a(r), e)
  BY <1>3, <1>5, AllFormatsBounded
<1>7. e \in [Sent -> Nat] /\ \A r \in Receivers : a(r) \in [Counters -> Nat]
  BY <1>6 DEF Bounded, Receivers
<1>8. sent' = Added(sent, UCIEncode(uci))
  BY <1>2
<1>9. sent' \in [Sent -> Nat] /\ \A s \in Sent : sent'[s] = sent[s] + e[s]
  BY <1>3, <1>7, <1>8, AddedAmounts
<1>10. ASSUME NEW r \in Receivers
       PROVE  /\ stats'[r] \in [Counters -> Nat]
              /\ \A c \in Counters : \/ stats'[r][c] = stats[r][c] + a(r)[c]
                                     \/ stats'[r][c] = stats[r][c]
  <2>1. stats'[r] = IF Used(r) THEN Added(stats[r], Increments(r, uci, rx[r])) ELSE stats[r]
    BY <1>2
  <2>2. CASE Used(r)
    BY <1>3, <1>7, <2>1, <2>2, AddedAmounts
  <2>3. CASE ~Used(r)
    BY <1>3, <2>1, <2>3
  <2> QED BY <2>2, <2>3
<1>11. stats' \in [Receivers -> [Counters -> Nat]]
  <2>1. stats' = [r \in Receivers |->
            IF Used(r) THEN Added(stats[r], Increments(r, uci, rx[r])) ELSE stats[r]]
    BY <1>2
  <2>2. stats' = [r \in Receivers |-> stats'[r]]
    BY <2>1
  <2> QED BY <1>10, <2>2
<1>12. TypeOK'
  BY <1>3, <1>4, <1>9, <1>11 DEF TypeOK
<1>13. ASSUME NEW r \in Receivers
       PROVE  /\ obj.PUCCHFormat = 0 =>
                    /\ stats'[r]["MissedACKs"] <= sent'["ACKs"]
                    /\ stats'[r]["MissedSRs"] <= nslot + 1
                    /\ stats'[r]["FalseACKs"] <= (nslot + 1) * obj.NumACKBits
                    /\ stats'[r]["FalseSRs"] <= nslot + 1
              /\ obj.PUCCHFormat = 1 =>
                    /\ stats'[r]["MissedACKs"] <= sent'["ACKs"]
                    /\ stats'[r]["NACK2ACKs"] <= sent'["NACKs"]
                    /\ stats'[r]["MissedOccasions"] <= sent'["Occasions"]
                    /\ stats'[r]["FalseACKs"] <= sent'["Occasions"]
              /\ stats'[r]["Blocks"] <= nslot + 1
  <2> DEFINE n == obj.NumACKBits
             b == a(r)
             old == stats[r]
             new == stats'[r]
  <2>1. Bounded(b, e) /\ b \in [Counters -> Nat]
    BY <1>6, <1>7
  <2>2. old \in [Counters -> Nat] /\ new \in [Counters -> Nat]
    BY <1>3, <1>10
  <2>3. \A c \in Counters : new[c] = old[c] + b[c] \/ new[c] = old[c]
    BY <1>10
  <2>4. /\ obj.PUCCHFormat = 0 =>
                /\ old["MissedACKs"] <= sent["ACKs"]
                /\ old["MissedSRs"] <= nslot
                /\ old["FalseACKs"] <= nslot * n
                /\ old["FalseSRs"] <= nslot
        /\ obj.PUCCHFormat = 1 =>
                /\ old["MissedACKs"] <= sent["ACKs"]
                /\ old["NACK2ACKs"] <= sent["NACKs"]
                /\ old["MissedOccasions"] <= sent["Occasions"]
                /\ old["FalseACKs"] <= sent["Occasions"]
        /\ old["Blocks"] <= nslot
    BY DEF Inv, CountersBounded
  <2> HIDE DEF a, b, e, old, new, n
  <2>5. CASE obj.PUCCHFormat = 0
    <3>1. (nslot + 1) * n = nslot * n + n /\ nslot * n \in Nat
      BY <1>3 DEF n
    <3>2. new["FalseACKs"] <= (nslot + 1) * n
      <4>1. b["FalseACKs"] \in Nat /\ b["FalseACKs"] <= n /\ n \in Nat
        BY <1>3, <2>1, <2>5 DEF Bounded, Counters, n
      <4>2. old["FalseACKs"] \in Nat /\ old["FalseACKs"] <= nslot * n
        BY <2>2, <2>4, <2>5 DEF Counters
      <4>3. new["FalseACKs"] = old["FalseACKs"] + b["FalseACKs"] \/ new["FalseACKs"] = old["FalseACKs"]
        BY <2>3 DEF Counters
      <4> HIDE DEF n
      <4> DEFINE p == nslot * n
                 q == (nslot + 1) * n
      <4>4. q = p + n /\ p \in Nat /\ old["FalseACKs"] <= p
        BY <3>1, <4>2
      <4> HIDE DEF p, q
      <4>5. new["FalseACKs"] <= q
        BY <4>1, <4>2, <4>3, <4>4
      <4> QED BY <4>5 DEF q
    <3>3. /\ new["MissedACKs"] <= sent'["ACKs"]
          /\ new["MissedSRs"] <= nslot + 1
          /\ new["FalseSRs"] <= nslot + 1
          /\ new["Blocks"] <= nslot + 1
      BY <1>3, <1>7, <1>9, <2>1, <2>2, <2>3, <2>4, <2>5 DEF Bounded, Counters, Sent
    <3> QED BY <2>5, <3>2, <3>3 DEF new, n
  <2>6. CASE obj.PUCCHFormat = 1
    <3>1. /\ new["MissedACKs"] <= sent'["ACKs"]
          /\ new["NACK2ACKs"] <= sent'["NACKs"]
          /\ new["MissedOccasions"] <= sent'["Occasions"]
          /\ new["FalseACKs"] <= sent'["Occasions"]
          /\ new["Blocks"] <= nslot + 1
      BY <1>3, <1>7, <1>9, <2>1, <2>2, <2>3, <2>4, <2>6 DEF Bounded, Counters, Sent
    <3> QED BY <2>6, <3>1 DEF new
  <2>7. CASE obj.PUCCHFormat \notin {0, 1}
    <3>1. new["Blocks"] <= nslot + 1
      BY <1>3, <2>1, <2>2, <2>3, <2>4 DEF Bounded, Counters
    <3> QED BY <2>7, <3>1 DEF new
  <2> QED BY <2>5, <2>6, <2>7
<1>14. CountersBounded'
  BY <1>3, <1>13 DEF CountersBounded
<1> QED BY <1>4, <1>12, <1>14 DEF Inv

\* At first all counters are 0.
LEMMA InitInv == ASSUME Init  PROVE Inv
PROOF
<1>1. NSlots \in Nat \ {0} /\ obj.NumACKBits \in Nat
  BY LimitsAssumption, Configured DEF Init
<1>2. TypeOK
  <2>1. sent \in [Sent -> Nat] /\ stats \in [Receivers -> [Counters -> Nat]]
    BY DEF Init
  <2>2. nslot \in 0..NSlots
    BY <1>1 DEF Init
  <2>3. over \in BOOLEAN /\ agree \in BOOLEAN
    BY Zenon DEF Init
  <2> QED BY <2>1, <2>2, <2>3 DEF Init, TypeOK
<1>3. CountersBounded
  BY <1>1 DEF Init, CountersBounded, Counters, Sent
<1> QED BY <1>1, <1>2, <1>3 DEF Init, Inv

\* Receivers that are comparable before a slot are so after it.
LEMMA SlotKeepsComparable ==
    ASSUME Inv, ReceiversAreComparable, Slot  PROVE ReceiversAreComparable'
PROOF
<1>1. PICK uci \in UCIs :
        \E mat \in Answers("matlab"), ocu \in Answers("ocudu") :
          LET rx == [r \in Receivers |-> IF r = "matlab" THEN mat ELSE ocu]
          IN  /\ stats' = [r \in Receivers |->
                    IF Used(r) THEN Added(stats[r], Increments(r, uci, rx[r])) ELSE stats[r]]
              /\ agree' = (agree /\ mat = ocu)
  BY Zenon DEF Slot
<1>2. PICK mat \in Answers("matlab"), ocu \in Answers("ocudu") :
          LET rx == [r \in Receivers |-> IF r = "matlab" THEN mat ELSE ocu]
          IN  /\ stats' = [r \in Receivers |->
                    IF Used(r) THEN Added(stats[r], Increments(r, uci, rx[r])) ELSE stats[r]]
              /\ agree' = (agree /\ mat = ocu)
  BY <1>1, Zenon
<1>3. obj' = obj /\ obj \in Configurations
  BY DEF Slot, Inv, TypeOK
<1>4. ASSUME obj.ImplementationType = "both", agree'  PROVE stats'["matlab"] = stats'["ocudu"]
  <2>1. agree /\ mat = ocu
    BY <1>2, <1>4, Zenon
  <2>2. stats["matlab"] = stats["ocudu"]
    BY <1>4, <2>1, Zenon DEF ReceiversAreComparable
  <2>3. Increments("matlab", uci, mat) = Increments("ocudu", uci, ocu)
    BY <1>3, <1>4, <2>1, SameAnswerSameCount
  <2>4. Used("matlab") /\ Used("ocudu")
    BY <1>4 DEF Used
  <2>5. /\ stats'["matlab"] = Added(stats["matlab"], Increments("matlab", uci, mat))
        /\ stats'["ocudu"] = Added(stats["ocudu"], Increments("ocudu", uci, ocu))
    BY <1>2, <2>4 DEF Receivers
  <2> QED BY <2>2, <2>3, <2>5
<1> QED BY <1>3, <1>4 DEF ReceiversAreComparable

-----------------------------------------------------------------------------
(***************************************************************************)
(* The theorems.                                                           *)
(***************************************************************************)

\* The invariant holds in all reachable states.
THEOREM InvHolds == Spec => []Inv
PROOF
<1>1. Init => Inv
  BY InitInv
<1>2. Inv /\ [Slot]_vars => Inv'
  <2>1. Inv /\ UNCHANGED vars => Inv'
    BY DEF vars, Inv, TypeOK, CountersBounded
  <2> QED BY <2>1, SlotPreservesInv
<1> QED BY <1>1, <1>2, PTL DEF Spec

\* Counters are numbers of bits, blocks and occasions, and no more slots are simulated
\* than asked for.
THEOREM TypeCorrect == Spec => []TypeOK
PROOF
<1>1. Inv => TypeOK
  BY DEF Inv
<1> QED BY <1>1, InvHolds, PTL

\* Every rate that getStatistics displays is at most one, for any number of bits and slots,
\* except that the false SR rate of Format 0 may reach the number of ACK bits.
THEOREM RatesAreRates == Spec => []RatesAreProbabilities
PROOF
<1>1. Inv => RatesAreProbabilities
  <2> SUFFICES ASSUME Inv, NEW r \in Receivers, NEW name \in DOMAIN Rates(r)
               PROVE  Rates(r)[name][1] <= (IF name = "FalseSRDetectionRate"
                                            THEN obj.NumACKBits ELSE 1) * Rates(r)[name][2]
    BY DEF RatesAreProbabilities
  <2> DEFINE c == stats[r]
  <2>1. /\ nslot \in Nat /\ obj.NumACKBits \in Nat
        /\ \A x \in Counters : c[x] \in Nat
        /\ \A x \in Sent : sent[x] \in Nat
    BY ConfigurationsAssumption, LimitsAssumption DEF Inv, TypeOK
  <2>2. \A n, m \in Nat : n <= m => n <= 1 * m
    OBVIOUS
  <2>3. CASE obj.PUCCHFormat = 0 /\ obj.isDetectionTest
    <3>1. Rates(r) = [ACKDetectionRate |-> <<c["MissedACKs"], sent["ACKs"]>>,
                      SRDetectionRate |-> <<c["MissedSRs"], nslot>>]
      BY <2>3 DEF Rates
    <3>2. c["MissedACKs"] <= sent["ACKs"] /\ c["MissedSRs"] <= nslot
      BY <2>3 DEF Inv, CountersBounded
    <3> QED BY <2>1, <2>2, <3>1, <3>2 DEF Counters, Sent
  <2>4. CASE obj.PUCCHFormat = 0 /\ ~obj.isDetectionTest
    <3>1. Rates(r) = [FalseACKDetectionRate |-> <<c["FalseACKs"], nslot * obj.NumACKBits>>,
                      FalseSRDetectionRate |-> <<c["FalseACKs"], nslot>>]
      BY <2>4 DEF Rates
    <3>2. c["FalseACKs"] <= nslot * obj.NumACKBits
      BY <2>4 DEF Inv, CountersBounded
    <3>3. nslot * obj.NumACKBits = obj.NumACKBits * nslot /\ nslot * obj.NumACKBits \in Nat
      BY <2>1
    <3>4. c["FalseACKs"] \in Nat
      BY <2>1 DEF Counters
    <3>5. CASE name = "FalseACKDetectionRate"
      BY <2>2, <3>1, <3>2, <3>3, <3>4, <3>5
    <3>6. CASE name = "FalseSRDetectionRate"
      BY <3>1, <3>2, <3>3, <3>6
    <3> QED BY <3>1, <3>5, <3>6
  <2>5. CASE obj.PUCCHFormat = 1 /\ obj.isDetectionTest
    <3>0. obj.PUCCHFormat # 0
      BY <2>5
    <3>1. Rates(r) = [ACKDetectionRate |-> <<c["MissedACKs"], sent["ACKs"]>>,
                      NACK2ACKDetectionRate |-> <<c["NACK2ACKs"], sent["NACKs"]>>,
                      PUCCHDetectionRate |-> <<c["MissedOccasions"], sent["Occasions"]>>]
      BY <2>5, <3>0, Zenon DEF Rates
    <3>2. /\ c["MissedACKs"] <= sent["ACKs"] /\ c["NACK2ACKs"] <= sent["NACKs"]
          /\ c["MissedOccasions"] <= sent["Occasions"]
      BY <2>5 DEF Inv, CountersBounded
    <3> QED BY <2>1, <2>2, <3>1, <3>2 DEF Counters, Sent
  <2>6. CASE obj.PUCCHFormat = 1 /\ ~obj.isDetectionTest
    <3>0. obj.PUCCHFormat # 0
      BY <2>6
    <3>1. Rates(r) = [FalseACKDetectionRate |-> <<c["FalseACKs"], sent["Occasions"]>>]
      BY <2>6, <3>0, Zenon DEF Rates
    <3>2. c["FalseACKs"] <= sent["Occasions"]
      BY <2>6 DEF Inv, CountersBounded
    <3> QED BY <2>1, <2>2, <3>1, <3>2 DEF Counters, Sent
  <2>7. CASE obj.PUCCHFormat \notin 0..1
    <3>0. obj.PUCCHFormat # 0 /\ obj.PUCCHFormat # 1
      BY <2>7
    <3>1. Rates(r) = [BlockErrorRate |-> <<c["Blocks"], nslot>>]
      BY <2>7, <3>0, Zenon DEF Rates
    <3>2. c["Blocks"] <= nslot
      BY DEF Inv, CountersBounded
    <3> QED BY <2>1, <2>2, <3>1, <3>2 DEF Counters
  <2> QED BY <2>3, <2>4, <2>5, <2>6, <2>7
<1> QED BY <1>1, InvHolds, PTL

\* updateStatsMATLAB and updateStatsOCUDU count the same answers in the same way.
THEOREM ReceiversCompare == Spec => []ReceiversAreComparable
PROOF
<1>1. Init => ReceiversAreComparable
  BY DEF Init, ReceiversAreComparable, Receivers
<1>2. Inv /\ ReceiversAreComparable /\ [Slot]_vars => ReceiversAreComparable'
  <2>1. ReceiversAreComparable /\ UNCHANGED vars => ReceiversAreComparable'
    BY DEF vars, ReceiversAreComparable
  <2> QED BY <2>1, SlotKeepsComparable
<1> QED BY <1>1, <1>2, InvHolds, PTL DEF Spec
=============================================================================
