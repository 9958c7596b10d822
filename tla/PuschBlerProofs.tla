--------------------------- MODULE PuschBlerProofs ---------------------------
(***************************************************************************)
(* Proofs about PuschBler, for any number of HARQ processes, redundancy    *)
(* versions, codeblocks, transport blocks, slots and calls.                *)
(*                                                                         *)
(* Two facts carry the proofs.  A process sends a block until a decoder in *)
(* use gets it or the redundancy versions are used up, so that its state   *)
(* says whether its block is counted.  And each slot touches the soft      *)
(* buffers of one process only, so that what the others hold stays theirs. *)
(*                                                                         *)
(* A third fact, that the pool has room for all that the processes hold,   *)
(* is why no call fails half way unless it plots.  That the arrays of      *)
(* successive calls combine is checked, not proved, here; what joinArrays  *)
(* does to arrays of any length is RowsAreJoined of PucchPerfProofs.       *)
(***************************************************************************)
EXTENDS PuschBler, SoftbufferPoolProofs

\* Types, of what the proofs need.
TypesOK ==
    /\ prop \in Properties
    /\ locked \in BOOLEAN
    /\ EncodeULSCH \in [Processes -> Blocks]
    /\ DecodeULSCH \in [Processes -> SUBSET Blocks]
    /\ pc \in {"idle", "point", "slot"}
    /\ nslot \in Nat
    /\ harqEntity \in [Processes -> [rv : Nat, NewData : BOOLEAN, SequenceTimeout : BOOLEAN]]
    /\ trBlk \in Blocks
    /\ ctr \in Counters

\* Calls run on valid configurations, and leave nothing of their counting behind.
CallsOK ==
    /\ pc # "idle" => locked
    /\ locked => Valid(prop)
    /\ pc = "idle" => ctr = ZeroCounters /\ harqEntity = [p \in Processes |-> NewHARQ]

\* No process is beyond the last redundancy version; without HARQ none repeats.
VersionsOK ==
    /\ \A p \in Processes : harqEntity[p].rv \in 1..Len(rvSeq)
    /\ ~prop.EnableHARQ => \A p \in Processes : harqEntity[p].NewData

\* The MATLAB decoder that is not used has empty soft buffers.
UnusedIsEmpty == pc = "slot" /\ ~Used("matlab") => \A p \in Processes : DecodeULSCH[p] = {}

Counting == EveryBlockIsCountedOnce /\ ThroughputIsBounded /\ ReceivedOrMissedAtOnce

\* The inductive invariant.
Inv ==
    /\ TypesOK /\ CallsOK /\ VersionsOK
    /\ BlocksDoNotMix /\ UnusedIsEmpty
    /\ Counting

-----------------------------------------------------------------------------
(***************************************************************************)
(* HARQ.                                                                   *)
(***************************************************************************)

\* It is always the turn of one of the processes.
LEMMA ATurnForEach ==
    ASSUME TypesOK
    PROVE  HARQProcessID \in Processes
BY NHARQAssumption DEF TypesOK, HARQProcessID, Processes

\* There are finitely many HARQ processes.
LEMMA ProcessesAreFinite == IsFiniteSet(Processes)
BY NHARQAssumption, FS_Interval DEF Processes

\* The sequence of redundancy versions: all of them, or the first one.
LEMMA RVSequence ==
    ASSUME TypesOK
    PROVE  /\ rvSeq \in Seq(0..3) /\ Len(rvSeq) \in Nat \ {0}
           /\ ~prop.EnableHARQ => Len(rvSeq) = 1
           /\ \A i, j \in 1..Len(rvSeq) : rvSeq[i] = rvSeq[j] => i = j
PROOF
<1>1. RVs \in Seq(0..3) /\ Len(RVs) \in Nat \ {0}
      /\ \A i, j \in 1..Len(RVs) : RVs[i] = RVs[j] => i = j
  BY RVsAssumption DEF IsInjective
<1>2. CASE prop.EnableHARQ
  BY <1>1, <1>2 DEF rvSeq
<1>3. CASE ~prop.EnableHARQ
  <2>1. rvSeq = SubSeq(RVs, 1, 1)
    BY <1>3 DEF rvSeq
  <2>2. Len(rvSeq) = 1 /\ rvSeq \in Seq(0..3)
    BY <1>1, <2>1
  <2> QED BY <2>2
<1> QED BY <1>2, <1>3

\* A transmission is the last one if and only if its version is.
LEMMA LastIsLast ==
    ASSUME TypesOK, VersionsOK
    PROVE  isLastRetransmission <=> This.rv = Len(rvSeq)
BY ATurnForEach, RVSequence DEF VersionsOK, isLastRetransmission, This

\* updateAndAdvance: the process has new data next time if and only if its block was
\* received, or this was its last transmission; the version stays in bounds.
LEMMA UpdateOK ==
    ASSUME TypesOK, VersionsOK, NEW err \in BOOLEAN
    PROVE  /\ Update(This, err) \in [rv : Nat, NewData : BOOLEAN, SequenceTimeout : BOOLEAN]
           /\ Update(This, err).rv \in 1..Len(rvSeq)
           /\ Update(This, err).NewData <=> (~err \/ isLastRetransmission)
           /\ Update(This, err).SequenceTimeout => err
           /\ err /\ Update(This, err).NewData => Update(This, err).SequenceTimeout
PROOF
<1>1. This.rv \in 1..Len(rvSeq) /\ Len(rvSeq) \in Nat \ {0}
  BY ATurnForEach, RVSequence DEF VersionsOK, This
<1>2. CASE ~err
  <2>1. Update(This, err) = NewHARQ
    BY <1>2, Zenon DEF Update
  <2>2. /\ Update(This, err) \in [rv : Nat, NewData : BOOLEAN, SequenceTimeout : BOOLEAN]
        /\ Update(This, err).rv \in 1..Len(rvSeq)
        /\ Update(This, err).NewData /\ ~Update(This, err).SequenceTimeout
    BY <1>1, <2>1 DEF NewHARQ
  <2> QED BY <1>2, <2>2, Zenon
<1>3. CASE err /\ This.rv = Len(rvSeq)
  <2>1. Update(This, err) = [NewHARQ EXCEPT !.SequenceTimeout = TRUE]
    BY <1>3, Zenon DEF Update
  <2>2. Update(This, err) = [rv |-> 1, NewData |-> TRUE, SequenceTimeout |-> TRUE]
    BY <2>1 DEF NewHARQ
  <2>4. /\ Update(This, err) \in [rv : Nat, NewData : BOOLEAN, SequenceTimeout : BOOLEAN]
        /\ Update(This, err).rv \in 1..Len(rvSeq)
        /\ Update(This, err).NewData /\ Update(This, err).SequenceTimeout
    BY <1>1, <2>2
  <2>3. isLastRetransmission
    BY <1>3, LastIsLast, Zenon
  <2> QED BY <1>3, <2>4, <2>3, Zenon
<1>4. CASE err /\ This.rv # Len(rvSeq)
  <2>1. Update(This, err) = [rv |-> This.rv + 1, NewData |-> FALSE, SequenceTimeout |-> FALSE]
    BY <1>4, Zenon DEF Update
  <2>2. /\ Update(This, err) \in [rv : Nat, NewData : BOOLEAN, SequenceTimeout : BOOLEAN]
        /\ Update(This, err).rv \in 1..Len(rvSeq)
        /\ ~Update(This, err).NewData /\ ~Update(This, err).SequenceTimeout
    BY <1>1, <2>1, <1>4 DEF NewHARQ
  <2>3. ~isLastRetransmission
    BY <1>4, LastIsLast, Zenon
  <2> QED BY <1>4, <2>2, <2>3, Zenon
<1> QED BY <1>2, <1>3, <1>4

-----------------------------------------------------------------------------
(***************************************************************************)
(* One slot.                                                               *)
(***************************************************************************)

\* What a slot transmits is a block, and the last one again if it is not new.
LEMMA TransmittedOK ==
    ASSUME TypesOK, NEW tb \in Transmitted
    PROVE  tb \in Blocks /\ (~This.NewData => tb = EncodeULSCH[HARQProcessID])
BY ATurnForEach DEF TypesOK, Transmitted

\* The OCUDU decoder finds a clean buffer.
LEMMA OcuduBufferIsClean ==
    ASSUME TypesOK, BlocksDoNotMix, pc = "slot", Used("ocudu"), NEW tb \in Transmitted
    PROVE  Clean(Reserve(StepPool, HARQProcessID, NCodeblocks).buf[HARQProcessID],
                 This.NewData, tb)
PROOF
<1> DEFINE P == HARQProcessID
<1>0. P \in Processes /\ NCodeblocks \in Nat \ {0} /\ This.NewData \in BOOLEAN
  BY ATurnForEach, NCodeblocksAssumption, MaxNCBAssumption DEF TypesOK, This
<1>1. CASE pool = NoPool
  <2>1. ~Holds(StepPool, P, NCodeblocks)
    BY <1>1 DEF StepPool, EmptyPool, Holds
  <2> QED BY <2>1, NewBufferIsClean
<1>2. CASE pool # NoPool /\ This.NewData
  <2>1. StepPool = ClearFlags(pool, P, NCodeblocks)
    BY <1>2 DEF StepPool
  <2>2. Clean(Reserve(StepPool, P, NCodeblocks).buf[P], TRUE, tb)
    BY <1>0, <2>1, ClearedBufferIsClean
  <2> QED BY <1>0, <1>2, <2>2
<1>3. CASE pool # NoPool /\ ~This.NewData
  <2>1. StepPool = pool
    BY <1>3 DEF StepPool
  <2>2. CASE Holds(pool, P, NCodeblocks)
    <3>1. Reserve(StepPool, P, NCodeblocks).buf[P] = pool.buf[P] /\ P \in DOMAIN pool.buf
      BY <2>1, <2>2 DEF Reserve, Holds
    <3>2. tb = EncodeULSCH[P]
      BY <1>3, TransmittedOK
    <3>3. /\ pool.buf[P].soft \subseteq {tb}
          /\ \A i \in DOMAIN pool.buf[P].cb : pool.buf[P].cb[i] \in {tb, NoBlock}
      BY <1>0, <1>3, <3>1, <3>2 DEF BlocksDoNotMix, This
    <3> QED BY <3>1, <3>3 DEF Clean
  <2>3. CASE ~Holds(pool, P, NCodeblocks)
    BY <2>1, <2>3, NewBufferIsClean
  <2> QED BY <2>2, <2>3
<1> QED BY <1>1, <1>2, <1>3

\* Its answer is the block sent, or a miss, and the buffer it leaves is clean; those of
\* other processes are what they were.
LEMMA OcuduOutcome ==
    ASSUME TypesOK, BlocksDoNotMix, pc = "slot", Used("ocudu"), NEW tb \in Transmitted,
           NEW o \in OcuduOutcomes(tb)
    PROVE  /\ o.CRCOK \in BOOLEAN
           /\ o.block = IF o.CRCOK THEN tb ELSE NoBlock
           /\ \A x \in DOMAIN o.pool.buf :
                IF x = HARQProcessID THEN Clean(o.pool.buf[x], FALSE, tb)
                ELSE pool # NoPool /\ x \in DOMAIN pool.buf /\ o.pool.buf[x] = pool.buf[x]
PROOF
<1> DEFINE P == HARQProcessID
<1>0. P \in Processes /\ NCodeblocks \in Nat \ {0} /\ This.NewData \in BOOLEAN
  BY ATurnForEach, NCodeblocksAssumption, MaxNCBAssumption DEF TypesOK, This
<1>1. PICK out \in StepOutcomes(StepPool, P, This.NewData, tb, NCodeblocks) :
        o = [pool |-> out.pool, CRCOK |-> out.stats.end = "decoded", block |-> out.stats.block]
  BY DEF OcuduOutcomes
<1>2. /\ P \in DOMAIN out.pool.buf => Clean(out.pool.buf[P], FALSE, tb)
      /\ out.stats.end = "decoded" => out.stats.block = tb
      /\ out.stats.end # "decoded" => out.stats.block = NoBlock
  <2>1. tb \in Blocks
    BY TransmittedOK
  <2>2. Clean(Reserve(StepPool, P, NCodeblocks).buf[P], This.NewData, tb)
    BY OcuduBufferIsClean
  <2>3. out \in StepOutcomes(StepPool, P, This.NewData, tb, NCodeblocks)
    BY <1>1
  <2>4. IsClean(out, P, tb)
    BY <1>0, <2>1, <2>2, <2>3, CleanDecoding
  <2> QED BY <2>4 DEF IsClean
<1>3. ASSUME NEW x \in DOMAIN o.pool.buf, x # P
      PROVE  pool # NoPool /\ x \in DOMAIN pool.buf /\ o.pool.buf[x] = pool.buf[x]
  <2>1. x \in DOMAIN StepPool.buf /\ o.pool.buf[x] = StepPool.buf[x]
    BY <1>1, <1>3, OtherBuffers
  <2>2. CASE pool = NoPool
    BY <2>1, <2>2 DEF StepPool, EmptyPool
  <2>3. CASE pool # NoPool /\ This.NewData
    <3>1. StepPool = ClearFlags(pool, P, NCodeblocks)
      BY <2>3 DEF StepPool
    <3>2. x \in DOMAIN pool.buf /\ StepPool.buf[x] = pool.buf[x]
      <4>1. x # P /\ x \in DOMAIN ClearFlags(pool, P, NCodeblocks).buf
        BY <1>3, <2>1, <3>1
      <4>2. x \in DOMAIN pool.buf /\ ClearFlags(pool, P, NCodeblocks).buf[x] = pool.buf[x]
        BY <4>1, ClearFlagsOthers
      <4> QED BY <3>1, <4>2
    <3> QED BY <2>1, <2>3, <3>2
  <2>4. CASE pool # NoPool /\ ~This.NewData
    BY <2>1, <2>4 DEF StepPool
  <2> QED BY <2>2, <2>3, <2>4
<1> QED BY <1>1, <1>2, <1>3

\* The MATLAB decoder, used or not.
LEMMA MatlabOutcome ==
    ASSUME TypesOK, BlocksDoNotMix, UnusedIsEmpty, pc = "slot", NEW tb \in Transmitted,
           NEW m \in MatlabOutcomes(tb)
    PROVE  /\ m.CRCOK \in BOOLEAN
           /\ m.block = IF m.CRCOK THEN tb ELSE NoBlock
           /\ m.soft \subseteq {tb}
           /\ m.CRCOK => m.soft = {}
           /\ ~Used("matlab") => m.soft = {} /\ m.CRCOK = FALSE
PROOF
<1>0. HARQProcessID \in Processes
  BY ATurnForEach
<1>1. MatlabSoft \subseteq {tb}
  BY <1>0, TransmittedOK DEF MatlabSoft, BlocksDoNotMix, This
<1>2. CASE Used("matlab")
  <2>1. m \in MatlabDecodings(MatlabSoft, tb)
    BY <1>2 DEF MatlabOutcomes
  <2>2. CASE m = [soft |-> MatlabSoft \cup {tb}, CRCOK |-> FALSE, block |-> NoBlock]
    BY <1>1, <1>2, <2>2
  <2>3. CASE m = [soft |-> {}, CRCOK |-> TRUE, block |-> tb]
    BY <1>2, <2>3
  <2> QED BY <2>1, <2>2, <2>3 DEF MatlabDecodings
<1>3. CASE ~Used("matlab")
  <2>1. m = [soft |-> MatlabSoft, CRCOK |-> FALSE, block |-> NoBlock]
    BY <1>3 DEF MatlabOutcomes
  <2>2. MatlabSoft = {}
    BY <1>0, <1>3 DEF UnusedIsEmpty, MatlabSoft
  <2> QED BY <2>1, <2>2
<1> QED BY <1>2, <1>3

\* An unused OCUDU decoder decodes nothing.
LEMMA OcuduUnused ==
    ASSUME ~Used("ocudu"), NEW tb, NEW o \in OcuduOutcomes(tb)
    PROVE  o.pool = pool /\ o.CRCOK = FALSE /\ o.block = NoBlock
BY DEF OcuduOutcomes

-----------------------------------------------------------------------------
(***************************************************************************)
(* What the counters count.                                                *)
(***************************************************************************)
LEMMA ToNatIs ==
    /\ \A b : ToNat(b) = 0 \/ ToNat(b) = 1
    /\ \A b : b => ToNat(b) = 1
    /\ \A b : ~b => ToNat(b) = 0
BY Zenon DEF ToNat

\* A process joins or leaves a set of processes.
LEMMA OneMoreOrLess ==
    ASSUME NEW F \in SUBSET Processes, NEW P \in Processes
    PROVE  /\ Cardinality(F) \in Nat
           /\ P \in F => /\ Cardinality(F \cup {P}) = Cardinality(F)
                         /\ Cardinality(F \ {P}) = Cardinality(F) - 1
           /\ P \notin F => /\ Cardinality(F \cup {P}) = Cardinality(F) + 1
                            /\ Cardinality(F \ {P}) = Cardinality(F)
PROOF
<1>1. IsFiniteSet(F)
  BY ProcessesAreFinite, FS_Subset
<1> QED BY <1>1, FS_AddElement, FS_RemoveElement, FS_CardinalityType

InFlight == {p \in Processes : ~harqEntity[p].NewData}

\* HARQEntity moves a process in or out of flight as the counters do.
LEMMA SlotCountsBlocks ==
    ASSUME TypesOK, EveryBlockIsCountedOnce, pc = "slot",
           NEW h, NEW err \in BOOLEAN,
           h.NewData <=> (~err \/ isLastRetransmission),
           harqEntity' = [harqEntity EXCEPT ![HARQProcessID] = h],
           ctr'.newBlocks = ctr.newBlocks + ToNat(This.NewData),
           ctr'.totalBlocks = ctr.totalBlocks + ToNat(~err \/ isLastRetransmission)
    PROVE  EveryBlockIsCountedOnce'
PROOF
<1> DEFINE P == HARQProcessID
           F == InFlight
           G == {p \in Processes : ~harqEntity'[p].NewData}
<1>0. P \in Processes /\ F \in SUBSET Processes /\ ctr.newBlocks \in Nat /\ ctr.totalBlocks \in Nat
  BY ATurnForEach DEF InFlight, TypesOK, Counters
<1>1. ctr.newBlocks = ctr.totalBlocks + Cardinality(F)
  BY DEF EveryBlockIsCountedOnce, InFlight
<1>2. harqEntity'[P] = h /\ \A p \in Processes : p # P => harqEntity'[p] = harqEntity[p]
  BY <1>0 DEF TypesOK
<1>3. P \in F <=> ~This.NewData
  BY <1>0 DEF InFlight, This
<1> HIDE DEF P
<1>4. h.NewData => G = F \ {P}
  BY <1>0, <1>2, Zenon DEF InFlight
<1>5. ~h.NewData => G = F \cup {P}
  BY <1>0, <1>2, Zenon DEF InFlight
<1> HIDE DEF F, G
<1>6. Cardinality(F) \in Nat
      /\ (P \in F => Cardinality(F \cup {P}) = Cardinality(F)
                     /\ Cardinality(F \ {P}) = Cardinality(F) - 1)
      /\ (P \notin F => Cardinality(F \cup {P}) = Cardinality(F) + 1
                        /\ Cardinality(F \ {P}) = Cardinality(F))
  BY <1>0, OneMoreOrLess
<1>7. ctr'.newBlocks = ctr'.totalBlocks + Cardinality(G)
  <2>1. CASE h.NewData /\ This.NewData
    <3>1. ToNat(This.NewData) = 1 /\ ToNat(~err \/ isLastRetransmission) = 1 /\ P \notin F
      BY <1>3, <2>1, ToNatIs, Zenon
    <3>2. G = F \ {P}
      BY <1>4, <2>1, Zenon
    <3> QED BY <1>0, <1>1, <1>6, <3>1, <3>2
  <2>2. CASE h.NewData /\ ~This.NewData
    <3>1. ToNat(This.NewData) = 0 /\ ToNat(~err \/ isLastRetransmission) = 1 /\ P \in F
      BY <1>3, <2>2, ToNatIs, Zenon
    <3>2. G = F \ {P}
      BY <1>4, <2>2, Zenon
    <3> QED BY <1>0, <1>1, <1>6, <3>1, <3>2
  <2>3. CASE ~h.NewData /\ This.NewData
    <3>1. ToNat(This.NewData) = 1 /\ ToNat(~err \/ isLastRetransmission) = 0 /\ P \notin F
      BY <1>3, <2>3, ToNatIs, Zenon
    <3>2. G = F \cup {P}
      BY <1>5, <2>3, Zenon
    <3> QED BY <1>0, <1>1, <1>6, <3>1, <3>2
  <2>4. CASE ~h.NewData /\ ~This.NewData
    <3>1. ToNat(This.NewData) = 0 /\ ToNat(~err \/ isLastRetransmission) = 0 /\ P \in F
      BY <1>3, <2>4, ToNatIs, Zenon
    <3>2. G = F \cup {P}
      BY <1>5, <2>4, Zenon
    <3> QED BY <1>0, <1>1, <1>6, <3>1, <3>2
  <2> QED BY <2>1, <2>2, <2>3, <2>4, Zenon
<1> QED BY <1>7 DEF EveryBlockIsCountedOnce, G

\* Every decoder misses a block or gets it, at its last transmission.
LEMMA SlotCreditsDecoders ==
    ASSUME TypesOK, CallsOK, VersionsOK, Counting, pc = "slot",
           NEW crcOK \in [Decoders -> BOOLEAN], NEW block, NEW tb \in Blocks,
           \A d \in Decoders : block[d] = IF crcOK[d] THEN tb ELSE NoBlock,
           prop' = prop,
           This.NewData => trBlk' = tb,
           ctr' = Count(crcOK, block, trBlk')
    PROVE  ThroughputIsBounded' /\ ReceivedOrMissedAtOnce'
PROOF
<1> DEFINE last == isLastRetransmission
           err == blkerrBoth(crcOK)
           missed(d) == Missed(crcOK[d], block[d], trBlk')
<1>0. /\ HARQProcessID \in Processes /\ prop \in Properties
      /\ ctr.totalBlocks \in Nat
      /\ \A d \in Decoders : ctr.throughput[d] \in Nat /\ ctr.missed[d] \in Nat
  BY ATurnForEach DEF TypesOK, Counters
<1>1. /\ ctr'.totalBlocks = ctr.totalBlocks + ToNat(~err \/ last)
      /\ \A d \in Decoders :
            /\ ctr'.throughput[d] = ctr.throughput[d] + ToNat(Used(d) /\ crcOK[d])
            /\ ctr'.missed[d] = ctr.missed[d] + ToNat(Used(d) /\ missed(d))
  BY Zenon DEF Count
<1>2. \A d \in Decoders : Used(d)' <=> Used(d)
  BY DEF Used
<1> HIDE DEF last, err, missed
<1>3. ASSUME ~prop.EnableHARQ  PROVE  last /\ This.NewData
  <2>1. This.rv \in 1..Len(rvSeq) /\ Len(rvSeq) = 1 /\ This.NewData
    BY <1>0, <1>3, RVSequence DEF VersionsOK, This
  <2> QED BY <2>1, LastIsLast DEF last
<1>4. ASSUME NEW d \in Decoders
      PROVE  ctr'.throughput[d] <= ctr'.totalBlocks
  <2>1. ctr.throughput[d] <= ctr.totalBlocks
    BY DEF Counting, ThroughputIsBounded
  <2>2. CASE Used(d) /\ crcOK[d]
    <3>1. ~err \/ last
      <4>1. CASE ~prop.EnableHARQ
        BY <1>3, <4>1
      <4>2. CASE prop.EnableHARQ
        <5>1. prop.ImplementationType # "both"
          BY <4>2 DEF CallsOK, Valid
        <5>2. \A e \in Decoders : Used(e) => e = d
          BY <5>1, <2>2 DEF Used, Decoders
        <5> QED BY <2>2, <5>2, Zenon DEF err, blkerrBoth
      <4> QED BY <4>1, <4>2
    <3>2. ToNat(~err \/ last) = 1 /\ ToNat(Used(d) /\ crcOK[d]) = 1
      BY <2>2, <3>1, ToNatIs, Zenon
    <3> QED BY <1>0, <1>1, <2>1, <3>2
  <2>3. CASE ~(Used(d) /\ crcOK[d])
    <3>1. /\ ToNat(~err \/ last) = 0 \/ ToNat(~err \/ last) = 1
          /\ ToNat(Used(d) /\ crcOK[d]) = 0
      BY <2>3, ToNatIs, Zenon
    <3> QED BY <1>0, <1>1, <2>1, <3>1
  <2> QED BY <2>2, <2>3, Zenon
<1>5. ASSUME ~prop.EnableHARQ, NEW d \in Decoders, Used(d)
      PROVE  ctr'.totalBlocks = ctr'.throughput[d] + ctr'.missed[d]
  <2>1. last /\ trBlk' = tb
    BY <1>3, <1>5, Zenon
  <2>2. ctr.totalBlocks = ctr.throughput[d] + ctr.missed[d]
    BY <1>5 DEF Counting, ReceivedOrMissedAtOnce, ReceivedOrMissed
  <2>3. ToNat(~err \/ last) = 1
    BY <2>1, ToNatIs, Zenon
  <2>4. CASE crcOK[d]
    <3>1. ~missed(d)
      BY <2>1, <2>4, Zenon DEF missed, Missed
    <3>2. ToNat(Used(d) /\ crcOK[d]) = 1 /\ ToNat(Used(d) /\ missed(d)) = 0
      BY <1>5, <2>4, <3>1, ToNatIs, Zenon
    <3> QED BY <1>0, <1>1, <2>2, <2>3, <3>2
  <2>5. CASE ~crcOK[d]
    <3>1. block[d] = NoBlock /\ NoBlock # tb
      BY <2>5, NoBlockAssumption
    <3>2. missed(d)
      BY <2>1, <3>1, Zenon DEF missed, Missed, last
    <3>3. ToNat(Used(d) /\ crcOK[d]) = 0 /\ ToNat(Used(d) /\ missed(d)) = 1
      BY <1>5, <2>5, <3>2, ToNatIs, Zenon
    <3> QED BY <1>0, <1>1, <2>2, <2>3, <3>3
  <2> QED BY <2>4, <2>5, Zenon
<1>6. ThroughputIsBounded'
  BY <1>4 DEF ThroughputIsBounded
<1>7. ReceivedOrMissedAtOnce'
  BY <1>2, <1>5 DEF ReceivedOrMissedAtOnce, ReceivedOrMissed
<1> QED BY <1>6, <1>7

\* A slot leaves its own buffers clean, and those of other processes alone.
LEMMA SlotKeepsBlocksApart ==
    ASSUME TypesOK, BlocksDoNotMix, UnusedIsEmpty, pc = "slot",
           NEW tb \in Transmitted, NEW mat \in MatlabOutcomes(tb), NEW ocu \in OcuduOutcomes(tb),
           NEW h, NEW err \in BOOLEAN,
           ~err => \A d \in Decoders : Used(d) => IF d = "matlab" THEN mat.CRCOK ELSE ocu.CRCOK,
           err /\ h.NewData => h.SequenceTimeout,
           harqEntity' = [harqEntity EXCEPT ![HARQProcessID] = h],
           EncodeULSCH' = [EncodeULSCH EXCEPT ![HARQProcessID] = tb],
           DecodeULSCH' = [DecodeULSCH EXCEPT ![HARQProcessID] = mat.soft],
           pool' = IF Used("ocudu") THEN ocu.pool ELSE pool,
           prop' = prop
    PROVE  BlocksDoNotMix' /\ UnusedIsEmpty'
PROOF
<1> DEFINE P == HARQProcessID
<1>0. P \in Processes
  BY ATurnForEach
<1>1. \A d \in Decoders : Used(d)' <=> Used(d)
  BY DEF Used
<1>2. mat.soft \subseteq {tb} /\ (~Used("matlab") => mat.soft = {}) /\ (mat.CRCOK => mat.soft = {})
  BY MatlabOutcome
<1>3. /\ harqEntity'[P] = h /\ EncodeULSCH'[P] = tb /\ DecodeULSCH'[P] = mat.soft
      /\ \A p \in Processes : p # P => /\ harqEntity'[p] = harqEntity[p]
                                       /\ EncodeULSCH'[p] = EncodeULSCH[p]
                                       /\ DecodeULSCH'[p] = DecodeULSCH[p]
  BY <1>0 DEF TypesOK
<1>4. ASSUME Used("ocudu"), NEW x \in DOMAIN pool'.buf
      PROVE  IF x = P THEN Clean(pool'.buf[x], FALSE, tb)
             ELSE x \in DOMAIN pool.buf /\ pool'.buf[x] = pool.buf[x]
  <2>1. pool' = ocu.pool
    BY <1>4
  <2> QED BY <1>4, <2>1, OcuduOutcome
<1> HIDE DEF P
<1>5. h.NewData => h.SequenceTimeout \/ mat.soft = {}
  <2>1. CASE err
    BY <2>1, Zenon
  <2>2. CASE ~err
    <3>1. Used("matlab") => mat.CRCOK
      BY <2>2, Zenon DEF Decoders
    <3> QED BY <1>2, <3>1, Zenon
  <2> QED BY <2>1, <2>2, Zenon
<1>6. ASSUME NEW p \in Processes
      PROVE  IF harqEntity'[p].NewData
             THEN harqEntity'[p].SequenceTimeout \/ DecodeULSCH'[p] = {}
             ELSE /\ DecodeULSCH'[p] \subseteq {EncodeULSCH'[p]}
                  /\ Used("ocudu") /\ p \in DOMAIN pool'.buf =>
                        /\ pool'.buf[p].soft \subseteq {EncodeULSCH'[p]}
                        /\ \A i \in DOMAIN pool'.buf[p].cb :
                              pool'.buf[p].cb[i] \in {EncodeULSCH'[p], NoBlock}
  <2>1. CASE p = P
    <3>1. Used("ocudu") /\ p \in DOMAIN pool'.buf =>
              /\ pool'.buf[p].soft \subseteq {tb}
              /\ \A i \in DOMAIN pool'.buf[p].cb : pool'.buf[p].cb[i] \in {tb, NoBlock}
      BY <1>4, <2>1 DEF Clean
    <3>2. harqEntity'[p] = h /\ EncodeULSCH'[p] = tb /\ DecodeULSCH'[p] = mat.soft
      BY <1>3, <2>1
    <3> QED BY <1>2, <1>5, <3>1, <3>2, Zenon
  <2>2. CASE p # P
    <3>1. /\ harqEntity'[p] = harqEntity[p] /\ EncodeULSCH'[p] = EncodeULSCH[p]
          /\ DecodeULSCH'[p] = DecodeULSCH[p]
      BY <1>3, <2>2
    <3>2. Used("ocudu") /\ p \in DOMAIN pool'.buf =>
              p \in DOMAIN pool.buf /\ pool'.buf[p] = pool.buf[p]
      BY <1>4, <2>2, Zenon
    <3>3. IF harqEntity[p].NewData
          THEN harqEntity[p].SequenceTimeout \/ DecodeULSCH[p] = {}
          ELSE /\ DecodeULSCH[p] \subseteq {EncodeULSCH[p]}
               /\ Used("ocudu") /\ p \in DOMAIN pool.buf =>
                        /\ pool.buf[p].soft \subseteq {EncodeULSCH[p]}
                        /\ \A i \in DOMAIN pool.buf[p].cb :
                              pool.buf[p].cb[i] \in {EncodeULSCH[p], NoBlock}
      BY Zenon DEF BlocksDoNotMix
    <3> QED BY <3>1, <3>2, <3>3, Zenon
  <2> QED BY <2>1, <2>2, Zenon
<1>7. BlocksDoNotMix'
  BY <1>1, <1>6, Zenon DEF BlocksDoNotMix, Decoders
<1>8. UnusedIsEmpty'
  <2>1. ASSUME ~Used("matlab"), NEW p \in Processes
        PROVE  DecodeULSCH'[p] = {}
    BY <1>2, <1>3, <2>1 DEF UnusedIsEmpty
  <2> QED BY <1>1, <2>1, Zenon DEF UnusedIsEmpty, Decoders
<1> QED BY <1>7, <1>8

-----------------------------------------------------------------------------
(***************************************************************************)
(* The actions.                                                            *)
(***************************************************************************)
LEMMA SlotPreservesInv == ASSUME Inv, Slot  PROVE Inv'
PROOF
<1>0. TypesOK /\ CallsOK /\ VersionsOK /\ BlocksDoNotMix /\ UnusedIsEmpty /\ Counting
      /\ EveryBlockIsCountedOnce /\ pc = "slot"
  BY DEF Inv, Counting, Slot
<1>1. /\ prop' = prop /\ locked' = locked
      /\ nslot' = nslot + 1 /\ pc' \in {"point", "slot"}
  BY <1>0, Zenon DEF Slot
<1>2. PICK tb \in Transmitted :
        \E mat \in MatlabOutcomes(tb), ocu \in OcuduOutcomes(tb) : Transmit(tb, mat, ocu)
  BY Zenon DEF Slot
<1>22. PICK mat \in MatlabOutcomes(tb), ocu \in OcuduOutcomes(tb) : Transmit(tb, mat, ocu)
  BY <1>2
<1> DEFINE P == HARQProcessID
           crcOK == [d \in Decoders |-> IF d = "matlab" THEN mat.CRCOK ELSE ocu.CRCOK]
           block == [d \in Decoders |-> IF d = "matlab" THEN mat.block ELSE ocu.block]
           err == blkerrBoth(crcOK)
           h == Update(This, err)
<1>3. P \in Processes /\ tb \in Blocks
  BY <1>0, ATurnForEach, TransmittedOK
<1>4. /\ mat.CRCOK \in BOOLEAN
      /\ mat.block = IF mat.CRCOK THEN tb ELSE NoBlock
      /\ mat.soft \subseteq {tb}
  BY <1>0, MatlabOutcome
<1>5. /\ ocu.CRCOK \in BOOLEAN
      /\ ocu.block = IF ocu.CRCOK THEN tb ELSE NoBlock
  BY <1>0, OcuduOutcome, OcuduUnused
<1>6. crcOK \in [Decoders -> BOOLEAN]
  BY <1>4, <1>5
<1>7. \A d \in Decoders : block[d] = IF crcOK[d] THEN tb ELSE NoBlock
  BY <1>4, <1>5
<1>8. err \in BOOLEAN
  BY Zenon DEF blkerrBoth
<1>9. ~err => \A d \in Decoders : Used(d) => IF d = "matlab" THEN mat.CRCOK ELSE ocu.CRCOK
  BY Zenon DEF blkerrBoth
<1>10. /\ EncodeULSCH' = [EncodeULSCH EXCEPT ![P] = tb]
       /\ trBlk' = IF This.NewData THEN tb ELSE trBlk
       /\ DecodeULSCH' = [DecodeULSCH EXCEPT ![P] = mat.soft]
       /\ pool' = IF Used("ocudu") THEN ocu.pool ELSE pool
       /\ ctr' = Count(crcOK, block, trBlk')
       /\ harqEntity' = [harqEntity EXCEPT ![P] = h]
  BY <1>22, Zenon DEF Transmit
<1> HIDE DEF P, crcOK, block, err, h
<1>11. /\ h \in [rv : Nat, NewData : BOOLEAN, SequenceTimeout : BOOLEAN]
       /\ h.rv \in 1..Len(rvSeq)
       /\ h.NewData <=> (~err \/ isLastRetransmission)
       /\ err /\ h.NewData => h.SequenceTimeout
  BY <1>0, <1>8, UpdateOK DEF h
<1>12. /\ ctr'.newBlocks = ctr.newBlocks + ToNat(This.NewData)
       /\ ctr'.totalBlocks = ctr.totalBlocks + ToNat(~err \/ isLastRetransmission)
  BY <1>10, Zenon DEF Count, err
<1>13. EveryBlockIsCountedOnce'
  BY <1>0, <1>8, <1>10, <1>11, <1>12, SlotCountsBlocks DEF P
<1>14. ThroughputIsBounded' /\ ReceivedOrMissedAtOnce'
  BY <1>0, <1>1, <1>3, <1>6, <1>7, <1>10, SlotCreditsDecoders
<1>15. BlocksDoNotMix' /\ UnusedIsEmpty'
  BY <1>0, <1>1, <1>8, <1>9, <1>10, <1>11, SlotKeepsBlocksApart DEF P
<1>16. ctr' \in Counters
  <2>1. \A b : ToNat(b) \in Nat
    BY ToNatIs
  <2>2. /\ ctr'.maxThroughput \in Nat
        /\ ctr' = [maxThroughput |-> ctr.maxThroughput + 1,
                   totalBlocks |-> ctr.totalBlocks + ToNat(~err \/ isLastRetransmission),
                   newBlocks |-> ctr.newBlocks + ToNat(This.NewData),
                   throughput |-> [d \in Decoders |->
                        ctr.throughput[d] + ToNat(Used(d) /\ crcOK[d])],
                   missed |-> [d \in Decoders |-> ctr.missed[d]
                        + ToNat(Used(d) /\ Missed(crcOK[d], block[d], trBlk'))]]
    BY <1>0, <1>10 DEF Count, err, TypesOK, Counters
  <2> QED BY <1>0, <2>1, <2>2 DEF TypesOK, Counters
<1>17. TypesOK'
  BY <1>0, <1>1, <1>3, <1>4, <1>10, <1>11, <1>16 DEF TypesOK
<1>18. CallsOK'
  BY <1>0, <1>1, <1>10 DEF CallsOK
<1>19. VersionsOK'
  <2>1. rvSeq' = rvSeq
    BY <1>1 DEF rvSeq
  <2>2. \A p \in Processes : harqEntity'[p] = IF p = P THEN h ELSE harqEntity[p]
    BY <1>0, <1>3, <1>10 DEF TypesOK
  <2>3. ~prop.EnableHARQ => h.NewData
    <3>1. ~prop.EnableHARQ => isLastRetransmission
      <4>1. ~prop.EnableHARQ => This.rv = Len(rvSeq)
        BY <1>0, <1>3, RVSequence DEF VersionsOK, This, P
      <4>2. isLastRetransmission <=> This.rv = Len(rvSeq)
        BY <1>0, LastIsLast
      <4> QED BY <4>1, <4>2, Zenon
    <3> QED BY <1>11, <3>1, Zenon
  <2>4. \A p \in Processes : harqEntity'[p].rv \in 1..Len(rvSeq')
    BY <1>0, <1>11, <2>1, <2>2 DEF VersionsOK
  <2>5. ~prop.EnableHARQ => \A p \in Processes : harqEntity'[p].NewData
    BY <1>0, <2>2, <2>3, Zenon DEF VersionsOK
  <2> QED BY <1>1, <2>4, <2>5 DEF VersionsOK
<1> QED BY <1>13, <1>14, <1>15, <1>17, <1>18, <1>19 DEF Inv, Counting

\* Between calls, no block is in flight and nothing is counted.
LEMMA NothingCounted ==
    ASSUME prop' \in Properties, ctr' = ZeroCounters,
           harqEntity' = [p \in Processes |-> NewHARQ]
    PROVE  /\ ctr' \in Counters
           /\ harqEntity' \in [Processes -> [rv : Nat, NewData : BOOLEAN, SequenceTimeout : BOOLEAN]]
           /\ VersionsOK' /\ Counting'
PROOF
<1>1. ctr' \in Counters
  BY DEF ZeroCounters, Counters
<1>2. harqEntity' \in [Processes -> [rv : Nat, NewData : BOOLEAN, SequenceTimeout : BOOLEAN]]
  BY DEF NewHARQ
<1>3. \A p \in Processes : harqEntity'[p].rv = 1 /\ harqEntity'[p].NewData
  BY DEF NewHARQ
<1>4. Len(rvSeq') \in Nat \ {0}
  <2>1. Len(RVs) \in Nat \ {0} /\ Len(SubSeq(RVs, 1, 1)) = 1
    BY RVsAssumption
  <2> QED BY <2>1 DEF rvSeq
<1>5. VersionsOK'
  BY <1>3, <1>4 DEF VersionsOK
<1>6. {p \in Processes : ~harqEntity'[p].NewData} = {}
  BY <1>3, Zenon
<1>7. /\ ctr'.newBlocks = 0 /\ ctr'.totalBlocks = 0
      /\ \A d \in Decoders : ctr'.throughput[d] = 0 /\ ctr'.missed[d] = 0
  BY DEF ZeroCounters
<1>8. EveryBlockIsCountedOnce'
  BY <1>6, <1>7, FS_EmptySet DEF EveryBlockIsCountedOnce
<1>9. ThroughputIsBounded' /\ ReceivedOrMissedAtOnce'
  BY <1>7 DEF ThroughputIsBounded, ReceivedOrMissedAtOnce, ReceivedOrMissed
<1> QED BY <1>1, <1>2, <1>5, <1>8, <1>9 DEF Counting

\* A call returns.
LEMMA ReturnPreservesInv ==
    ASSUME Inv, NEW how, Return(how), prop' = prop, locked' = locked,
           EncodeULSCH' \in [Processes -> Blocks], DecodeULSCH' \in [Processes -> SUBSET Blocks]
    PROVE  Inv'
PROOF
<1>1. /\ pc' = "idle" /\ nslot' = 0 /\ trBlk' = trBlk
      /\ ctr' = ZeroCounters /\ harqEntity' = [p \in Processes |-> NewHARQ]
  BY DEF Return
<1>2. /\ ctr' \in Counters
      /\ harqEntity' \in [Processes -> [rv : Nat, NewData : BOOLEAN, SequenceTimeout : BOOLEAN]]
      /\ VersionsOK' /\ Counting'
  BY <1>1, NothingCounted DEF Inv, TypesOK
<1>3. TypesOK'
  BY <1>1, <1>2 DEF Inv, TypesOK
<1>4. CallsOK'
  BY <1>1 DEF Inv, CallsOK, Valid
<1>5. BlocksDoNotMix' /\ UnusedIsEmpty'
  BY <1>1 DEF BlocksDoNotMix, UnusedIsEmpty
<1> QED BY <1>2, <1>3, <1>4, <1>5 DEF Inv

\* A slot that fails preserves the invariant.
LEMMA SlotFailsPreservesInv == ASSUME Inv, SlotFails  PROVE Inv'
PROOF
<1>1. TypesOK
  BY DEF Inv
<1>2. HARQProcessID \in Processes
  BY <1>1, ATurnForEach
<1>3. PICK tb \in Transmitted : EncodeULSCH' = [EncodeULSCH EXCEPT ![HARQProcessID] = tb]
  BY Zenon DEF SlotFails
<1>4. tb \in Blocks
  BY <1>1, TransmittedOK
<1>5. EncodeULSCH' \in [Processes -> Blocks]
  BY <1>1, <1>3, <1>4 DEF TypesOK
<1>6. MatlabSoft \in SUBSET Blocks
  BY <1>1, <1>2 DEF TypesOK, MatlabSoft
<1>7. DecodeULSCH' \in [Processes -> SUBSET Blocks]
  BY <1>1, <1>6 DEF SlotFails, TypesOK
<1>8. Return("failed") /\ prop' = prop /\ locked' = locked
  BY Zenon DEF SlotFails
<1> QED BY <1>5, <1>7, <1>8, ReturnPreservesInv

\* The beginning of an SNR point preserves the invariant.
LEMMA StartPointPreservesInv == ASSUME Inv, StartPoint  PROVE Inv'
PROOF
<1>1. /\ ctr' = ZeroCounters /\ harqEntity' = [p \in Processes |-> NewHARQ]
      /\ DecodeULSCH' = [p \in Processes |-> {}]
      /\ nslot' = 0 /\ pc' = "slot" /\ pc = "point"
      /\ UNCHANGED <<prop, locked, EncodeULSCH, trBlk>>
  BY DEF StartPoint
<1>2. /\ ctr' \in Counters
      /\ harqEntity' \in [Processes -> [rv : Nat, NewData : BOOLEAN, SequenceTimeout : BOOLEAN]]
      /\ VersionsOK' /\ Counting'
  BY <1>1, NothingCounted DEF Inv, TypesOK
<1>3. TypesOK'
  BY <1>1, <1>2 DEF Inv, TypesOK
<1>4. CallsOK'
  BY <1>1 DEF Inv, CallsOK, Valid
<1>5. BlocksDoNotMix' /\ UnusedIsEmpty'
  <2>1. \A p \in Processes : harqEntity'[p].NewData /\ DecodeULSCH'[p] = {}
    BY <1>1 DEF NewHARQ
  <2> QED BY <2>1 DEF BlocksDoNotMix, UnusedIsEmpty
<1> QED BY <1>2, <1>3, <1>4, <1>5 DEF Inv

\* What is done between calls does not count, and finds all configurations valid.
LEMMA IdlePreservesInv ==
    ASSUME Inv, pc' # "slot", prop' \in Properties,
           locked' \in BOOLEAN, locked' => Valid(prop'), pc' # "idle" => locked',
           pc' \in {"idle", "point"}, pc = "idle",
           DecodeULSCH' \in [Processes -> SUBSET Blocks],
           UNCHANGED <<EncodeULSCH, nslot, harqEntity, trBlk, ctr>>
    PROVE  Inv'
PROOF
<1>1. ctr' = ZeroCounters /\ harqEntity' = [p \in Processes |-> NewHARQ]
  BY DEF Inv, CallsOK
<1>2. VersionsOK' /\ Counting'
  BY <1>1, NothingCounted
<1>3. TypesOK'
  BY DEF Inv, TypesOK
<1>4. CallsOK'
  BY <1>1 DEF CallsOK, Valid
<1>5. BlocksDoNotMix' /\ UnusedIsEmpty'
  BY DEF BlocksDoNotMix, UnusedIsEmpty
<1> QED BY <1>2, <1>3, <1>4, <1>5 DEF Inv

\* Every step preserves the invariant.
LEMMA NextPreservesInv == ASSUME Inv, [Next]_vars  PROVE Inv'
PROOF
<1> DEFINE Empty == [p \in Processes |-> {}]
<1>0. /\ prop \in Properties /\ locked \in BOOLEAN
      /\ DecodeULSCH \in [Processes -> SUBSET Blocks]
      /\ EncodeULSCH \in [Processes -> Blocks]
      /\ Empty \in [Processes -> SUBSET Blocks]
      /\ locked => Valid(prop)
  BY DEF Inv, TypesOK, CallsOK
<1>1. ASSUME NEW SNRIn, Begin(SNRIn)  PROVE Inv'
  <2>1. CASE ~locked /\ ~Valid(prop)
    <3>1. pc = "idle" /\ UNCHANGED <<objvars, locals>>
      BY <1>1, <2>1 DEF Begin
    <3> QED BY <1>0, <2>1, <3>1, IdlePreservesInv DEF objvars, locals
  <2>2. CASE locked \/ Valid(prop)
    <3>1. /\ pc = "idle" /\ pc' = "point" /\ locked' = TRUE
          /\ DecodeULSCH' = DecodeULSCH \/ DecodeULSCH' = Empty
          /\ UNCHANGED <<prop, EncodeULSCH, nslot, harqEntity, trBlk, ctr>>
      BY <1>1, <2>2 DEF Begin
    <3>2. Valid(prop')
      BY <1>0, <2>2, <3>1 DEF Valid
    <3> QED BY <1>0, <3>1, <3>2, IdlePreservesInv
  <2> QED BY <2>1, <2>2
<1>2. CASE StartPoint
  BY <1>2, StartPointPreservesInv
<1>3. CASE Slot
  BY <1>3, SlotPreservesInv
<1>4. CASE SlotFails
  BY <1>4, SlotFailsPreservesInv
<1>5. CASE Export
  <2>1. Return("ok") /\ UNCHANGED <<prop, locked, EncodeULSCH, DecodeULSCH>>
    BY <1>5, Zenon DEF Export
  <2> QED BY <1>0, <2>1, ReturnPreservesInv
<1>6. ASSUME NEW c \in Properties, Configure(c)  PROVE Inv'
  <2>1. /\ pc = "idle" /\ prop' = c
        /\ UNCHANGED <<locked, EncodeULSCH, DecodeULSCH, pc, nslot, harqEntity, trBlk, ctr>>
    BY <1>6 DEF Configure, locals
  <2>2. locked => /\ c.EnableHARQ = prop.EnableHARQ
                  /\ c.ImplementationType = prop.ImplementationType
    BY <1>0, <1>6, PropertiesAssumption DEF Configure, Tunable
  <2>3. locked => Valid(prop')
    BY <1>0, <2>1, <2>2 DEF Valid
  <2> QED BY <1>0, <2>1, <2>3, IdlePreservesInv
<1>7. CASE Reset \/ Release \/ Reload
  <2>1. /\ pc = "idle"
        /\ locked' = locked \/ locked' = FALSE
        /\ DecodeULSCH' = DecodeULSCH \/ DecodeULSCH' = Empty
        /\ UNCHANGED <<prop, EncodeULSCH, pc, nslot, harqEntity, trBlk, ctr>>
    BY <1>7 DEF Reset, Release, Reload, locals
  <2>2. locked' => Valid(prop')
    BY <1>0, <2>1 DEF Valid
  <2> QED BY <1>0, <2>1, <2>2, IdlePreservesInv
<1>8. CASE UNCHANGED vars
  BY <1>8 DEF vars, objvars, locals, Inv, TypesOK, CallsOK, Valid, VersionsOK, rvSeq,
        BlocksDoNotMix, UnusedIsEmpty, Used, Counting, EveryBlockIsCountedOnce,
        ThroughputIsBounded, ReceivedOrMissedAtOnce, ReceivedOrMissed
<1> QED BY <1>1, <1>2, <1>3, <1>4, <1>5, <1>6, <1>7, <1>8 DEF Next, Step

\* At first nothing is simulated.
LEMMA InitInv == ASSUME Init  PROVE Inv
PROOF
<1>1. (CHOOSE tb \in Blocks : TRUE) \in Blocks
  BY BlocksAssumption
<1>2. TypesOK
  BY <1>1 DEF Init, TypesOK, NewHARQ, ZeroCounters, Counters
<1>3. CallsOK
  BY DEF Init, CallsOK
<1>4. \A p \in Processes : harqEntity[p].rv = 1 /\ harqEntity[p].NewData
  BY DEF Init, NewHARQ
<1>5. VersionsOK
  BY <1>2, <1>4, RVSequence DEF VersionsOK
<1>6. BlocksDoNotMix /\ UnusedIsEmpty /\ EveryBlockIsCountedOnce
  BY DEF Init, BlocksDoNotMix, UnusedIsEmpty, EveryBlockIsCountedOnce
<1>7. ThroughputIsBounded /\ ReceivedOrMissedAtOnce
  BY DEF Init, ZeroCounters, ThroughputIsBounded, ReceivedOrMissedAtOnce, ReceivedOrMissed
<1> QED BY <1>2, <1>3, <1>5, <1>6, <1>7 DEF Inv, Counting

-----------------------------------------------------------------------------
(***************************************************************************)
(* The softbuffer pool is large enough.                                    *)
(***************************************************************************)

\* The pool, once there is one, is that of configureSegment, and each of its buffers has the
\* codeblocks of a transport block.
PoolFits ==
    \/ pool = NoPool
    \/ IsPool(pool) /\ pool.cfg = DecoderCfg /\ AllHave(pool, NCodeblocks)

\* The dimensions of the pool are those that the code sets, and they are positive.
LEMMA PoolDimensions ==
    /\ DecoderCfg \in Configs
    /\ IsFiniteSet(BufIds) /\ DecoderCfg.bufs = Cardinality(BufIds)
    /\ DecoderCfg.cbs = NCodeblocks * Cardinality(BufIds)
    /\ NCodeblocks \in 1..MaxNCB /\ NCodeblocks \in Nat \ {0}
PROOF
<1>1. NHARQ \in Nat \ {0} /\ NCodeblocks \in 1..MaxNCB /\ NCodeblocks \in Nat \ {0}
  BY NHARQAssumption, NCodeblocksAssumption, MaxNCBAssumption
<1>2. NCodeblocks * NHARQ \in Nat \ {0}
  BY <1>1
<1>3. IsFiniteSet(BufIds) /\ Cardinality(BufIds) = NHARQ
  <2>1. BufIds = 0..NHARQ - 1
    BY NHARQAssumption DEF Processes
  <2> QED BY <1>1, <2>1, FS_Interval
<1> QED BY <1>1, <1>2, <1>3 DEF DecoderCfg, Configs

\* A pool that was just created.
LEMMA NewPoolFits ==
    LET p == EmptyPool(DecoderCfg)
    IN  IsPool(p) /\ p.cfg = DecoderCfg /\ AllHave(p, NCodeblocks)
PROOF
<1>1. IsPool(EmptyPool(DecoderCfg)) /\ EmptyPool(DecoderCfg).cfg = DecoderCfg
  BY PoolDimensions, EmptyPoolOK
<1>2. AllHave(EmptyPool(DecoderCfg), NCodeblocks)
  BY DEF AllHave, EmptyPool
<1> QED BY <1>1, <1>2

\* The pool that a step works on, with the flags of new data reset.
LEMMA StepPoolFits ==
    ASSUME TypesOK, PoolFits
    PROVE  IsPool(StepPool) /\ StepPool.cfg = DecoderCfg /\ AllHave(StepPool, NCodeblocks)
PROOF
<1>1. HARQProcessID \in BufIds
  BY ATurnForEach, NHARQAssumption
<1>2. CASE pool = NoPool
  <2>1. StepPool = EmptyPool(DecoderCfg)
    BY <1>2 DEF StepPool
  <2> QED BY <2>1, NewPoolFits
<1>3. CASE pool # NoPool /\ This.NewData
  <2>1. StepPool = ClearFlags(pool, HARQProcessID, NCodeblocks)
    BY <1>3 DEF StepPool
  <2>2. IsPool(pool) /\ pool.cfg = DecoderCfg /\ AllHave(pool, NCodeblocks)
    BY <1>3 DEF PoolFits
  <2> QED BY <1>1, <2>1, <2>2, PoolDimensions, ClearFlagsOK, ClearFlagsSize
<1>4. CASE pool # NoPool /\ ~This.NewData
  BY <1>4 DEF StepPool, PoolFits
<1> QED BY <1>2, <1>3, <1>4

\* retrieve_softbuffer always finds a softbuffer.
LEMMA NeverUsedUp ==
    ASSUME TypesOK, PoolFits
    PROVE  ~PoolIsUsedUp
PROOF
<1>1. HARQProcessID \in BufIds
  BY ATurnForEach, NHARQAssumption
<1>2. CanReserve(StepPool, HARQProcessID, NCodeblocks)
  BY <1>1, StepPoolFits, PoolDimensions, RoomForAll
<1>3. CRCsCanBeReset
  BY <1>1, PoolDimensions, RoomForAll DEF PoolFits, CRCsCanBeReset
<1> QED BY <1>2, <1>3 DEF PoolIsUsedUp

\* What a slot leaves in the pool.
LEMMA SlotPool ==
    ASSUME TypesOK, PoolFits, NEW tb \in Transmitted, NEW mat, NEW ocu \in OcuduOutcomes(tb),
           Transmit(tb, mat, ocu)
    PROVE  PoolFits'
PROOF
<1>1. CASE Used("ocudu")
  <2>1. PICK out \in StepOutcomes(StepPool, HARQProcessID, This.NewData, tb, NCodeblocks) :
          ocu.pool = out.pool
    BY <1>1 DEF OcuduOutcomes
  <2>2. pool' = out.pool
    BY <1>1, <2>1 DEF Transmit
  <2>3. HARQProcessID \in BufIds /\ This.NewData \in BOOLEAN /\ tb \in Blocks
    BY ATurnForEach, NHARQAssumption, TransmittedOK DEF TypesOK, This
  <2>4. IsPool(out.pool) /\ out.pool.cfg = DecoderCfg
    BY <2>3, StepPoolFits, PoolDimensions, StepOutcomesOK
  <2>5. AllHave(out.pool, NCodeblocks)
    BY <2>3, StepPoolFits, PoolDimensions, StepOutcomesSize
  <2>6. IsPool(pool') /\ pool'.cfg = DecoderCfg /\ AllHave(pool', NCodeblocks)
    BY <2>2, <2>4, <2>5
  <2> QED BY <2>6 DEF PoolFits
<1>2. CASE ~Used("ocudu")
  <2>1. pool' = pool
    BY <1>2 DEF Transmit
  <2> QED BY <2>1 DEF PoolFits
<1> QED BY <1>1, <1>2

\* Every step keeps it so.
LEMMA PoolStep ==
    ASSUME TypesOK, PoolFits, [Next]_vars
    PROVE  PoolFits'
PROOF
<1>1. ASSUME NEW SNRIn, Begin(SNRIn) PROVE pool' = pool \/ pool' = NoPool
  BY <1>1 DEF Begin, objvars
<1>2. ASSUME Slot PROVE PoolFits'
  <2>1. PICK tb \in Transmitted :
          \E mat \in MatlabOutcomes(tb), ocu \in OcuduOutcomes(tb) : Transmit(tb, mat, ocu)
    BY <1>2, Zenon DEF Slot
  <2> QED BY <2>1, SlotPool
<1>3. ASSUME SlotFails PROVE pool' = pool \/ pool' = StepPool
  BY <1>3 DEF SlotFails
<1>4. ASSUME Reset \/ Release \/ Reload
      PROVE  pool' = NoPool \/ pool' = EmptyPool(DecoderCfg)
  BY <1>4 DEF Reset, Release, Reload
<1>5. \/ pool' = pool \/ pool' = NoPool \/ pool' = StepPool
      \/ pool' = EmptyPool(DecoderCfg) \/ PoolFits'
  BY <1>1, <1>2, <1>3, <1>4 DEF Next, Step, StartPoint, Export, Configure, vars, objvars
<1>6. ASSUME NEW p, pool' = p, IsPool(p) /\ p.cfg = DecoderCfg /\ AllHave(p, NCodeblocks)
      PROVE  PoolFits'
  BY <1>6 DEF PoolFits
<1>7. ASSUME pool' = pool \/ pool' = NoPool PROVE PoolFits'
  BY <1>7 DEF PoolFits
<1> QED BY <1>5, <1>6, <1>7, StepPoolFits, NewPoolFits

-----------------------------------------------------------------------------
(***************************************************************************)
(* A call, its points and its slots.                                       *)
(***************************************************************************)

\* A finite set of SNR values has a least one: a smallest set without one would still lack
\* it when an element is taken away.
LEMMA LeastSNR ==
    ASSUME NEW S \in SUBSET Int, IsFiniteSet(S), S # {}
    PROVE  Min(S) \in S
PROOF
<1> DEFINE HasLeast(T) == \E m \in T : \A x \in T : m <= x
           Lacking == {T \in SUBSET S : T # {} /\ ~HasLeast(T)}
<1>1. Lacking = {}
  <2> SUFFICES ASSUME Lacking # {} PROVE FALSE
    OBVIOUS
  <2>1. Lacking \subseteq FiniteSubsetsOf(S)
    BY FS_Subset DEF FiniteSubsetsOf
  <2> HIDE DEF Lacking
  <2>2. PICK T \in Lacking : \A U \in Lacking : ~(<<U, T>> \in StrictSubsetOrdering(S))
    BY <2>1, FS_StrictSubsetOrderingWellFounded, WFMin
  <2>3. T \in SUBSET S /\ T # {} /\ ~HasLeast(T)
    BY DEF Lacking
  <2>4. PICK x \in T : TRUE
    BY <2>3
  <2>5. T \ {x} \notin Lacking
    BY <2>2, <2>3, <2>4 DEF StrictSubsetOrdering
  <2>6. T \ {x} = {} \/ HasLeast(T \ {x})
    BY <2>3, <2>5 DEF Lacking
  <2>7. CASE T \ {x} = {}
    <3>1. \A y \in T : x <= y
      BY <2>3, <2>4, <2>7
    <3> QED BY <2>3, <2>4, <3>1
  <2>8. CASE HasLeast(T \ {x})
    <3>1. PICK m \in T \ {x} : \A y \in T \ {x} : m <= y
      BY <2>8
    <3>2. CASE m <= x
      <4>1. \A y \in T : m <= y
        BY <3>1, <3>2
      <4> QED BY <2>3, <3>1, <4>1
    <3>3. CASE ~(m <= x)
      <4>1. \A y \in T : x <= y
        BY <2>3, <2>4, <3>1, <3>3
      <4> QED BY <2>3, <2>4, <4>1
    <3> QED BY <3>2, <3>3
  <2> QED BY <2>6, <2>7, <2>8
<1>2. HasLeast(S)
  BY <1>1
<1>3. \E m \in S : \A x \in S : m <= x
  BY <1>2
<1> QED BY <1>3 DEF Min

\* One row in every array for each value of SNRrange, and counters for the points done.
TablesOK ==
    /\ DOMAIN results.ctr = Exported
    /\ \A c \in Exported : DOMAIN results.ctr[c] = DOMAIN results.SNRrange
    /\ DOMAIN done \subseteq SNRs /\ \A s \in DOMAIN done : done[s] \in Counters

\* The lists of points and the number of slots, while a call runs and between calls.
LoopsOK ==
    /\ toDo \subseteq SNRs /\ IsFiniteSet(toDo) /\ snr \in SNRs
    /\ nslot \in 0..NSlots /\ eqSlot \in -1..NSlots - 1
    /\ pc = "slot" => nslot < NSlots
    /\ pc = "idle" => nslot = 0 /\ toDo = {} /\ eqSlot = -1

\* The three ends of a call.
EndsOK == ended \in {"ok", "rejected", "failed"}

\* Each point has a slot at least.
LEMMA SlotsInPoint ==
    ASSUME prop \in Properties
    PROVE  NSlots \in Nat \ {0}
PROOF
<1>1. nFrames \in Nat \ {0} /\ prop.SlotsPerFrame \in Nat \ {0}
  BY BoundsAssumption, PropertiesAssumption
<1>2. nFrames * prop.SlotsPerFrame \in Nat \ {0}
  BY <1>1
<1> QED BY <1>2 DEF NSlots

\* Every step keeps the counters of points that they are known for.
LEMMA TablesStep ==
    ASSUME TypesOK, TypesOK', LoopsOK, TablesOK, [Next]_vars
    PROVE  TablesOK'
PROOF
<1>1. ASSUME NEW SNRIn, Begin(SNRIn) PROVE TablesOK'
  BY <1>1 DEF Begin, objvars, locals, TablesOK
<1>2. ASSUME Slot PROVE TablesOK'
  <2>1. results' = results /\ ctr' \in Counters /\ snr \in SNRs
    BY <1>2 DEF Slot, TypesOK, LoopsOK
  <2>2. done' = done \/ done' = With(done, snr, ctr')
    BY <1>2, Zenon DEF Slot
  <2> QED BY <2>1, <2>2 DEF With, TablesOK
<1>3. ASSUME Return("ok") \/ Return("failed") PROVE DOMAIN done' = {}
  BY <1>3 DEF Return
<1>4. ASSUME SlotFails PROVE TablesOK'
  BY <1>3, <1>4 DEF SlotFails, TablesOK
<1>5. ASSUME Export PROVE TablesOK'
  <2>1. results' = Joined
    BY <1>5, Zenon DEF Export
  <2>2. \A array, new, idx, sorted : DOMAIN joinArrays(array, new, idx, sorted) = DOMAIN sorted
    BY DEF joinArrays
  <2>3. /\ DOMAIN results'.ctr = Exported
        /\ \A c \in Exported : DOMAIN results'.ctr[c] = DOMAIN results'.SNRrange
    BY <2>1, <2>2 DEF Joined
  <2>4. DOMAIN done' = {}
    BY <1>3, <1>5 DEF Export
  <2> QED BY <2>3, <2>4 DEF TablesOK
<1>6. ASSUME Reset \/ Release PROVE TablesOK'
  BY <1>6 DEF Reset, Release, NoResults, locals, TablesOK
<1> QED BY <1>1, <1>2, <1>4, <1>5, <1>6
        DEF Next, Step, StartPoint, Configure, Reload, vars, objvars, locals, TablesOK

\* Steps keep the loops over SNR values and slots within their bounds.
LEMMA LoopsStep ==
    ASSUME TypesOK, CallsOK, LoopsOK, [Next]_vars
    PROVE  LoopsOK'
PROOF
<1>0. NSlots \in Nat \ {0} /\ IsFiniteSet({})
  BY SlotsInPoint, FS_EmptySet DEF TypesOK
<1>1. ASSUME NEW SNRIn \in SUBSET SNRs, IsFiniteSet(SNRIn), Begin(SNRIn) PROVE LoopsOK'
  <2>1. CASE ~locked /\ ~Valid(prop)
    BY <1>1, <2>1 DEF Begin, objvars, locals, LoopsOK, NSlots
  <2>2. CASE locked \/ Valid(prop)
    BY <1>0, <1>1, <2>2 DEF Begin, LoopsOK, NSlots
  <2> QED BY <2>1, <2>2
<1>2. ASSUME StartPoint PROVE LoopsOK'
  <2>1. snr' \in toDo
    BY <1>2, LeastSNR, SNRsAssumption DEF StartPoint, LoopsOK
  <2>2. toDo' \subseteq toDo /\ IsFiniteSet(toDo')
    BY <1>2, FS_Subset DEF StartPoint, LoopsOK
  <2> QED BY <1>0, <1>2, <2>1, <2>2 DEF StartPoint, LoopsOK, NSlots
<1>3. ASSUME Slot PROVE LoopsOK'
  <2>1. /\ pc = "slot" /\ nslot' = nslot + 1
        /\ UNCHANGED <<prop, toDo, snr>>
    BY <1>3 DEF Slot
  <2>2. eqSlot' = eqSlot \/ eqSlot' = nslot
    BY <1>3 DEF Slot, Transmit
  <2>3. (nslot' # NSlots /\ pc' = "slot") \/ pc' = "point"
    <3>1. CASE PointEnds(nslot', ctr')
      BY <1>3, <3>1, Zenon DEF Slot
    <3>2. CASE ~PointEnds(nslot', ctr')
      BY <1>3, <2>1, <3>2, Zenon DEF Slot, PointEnds
    <3> QED BY <3>1, <3>2
  <2>4. NSlots' = NSlots
    BY <2>1 DEF NSlots
  <2> QED BY <1>0, <2>1, <2>2, <2>3, <2>4 DEF LoopsOK
<1>4. ASSUME NEW how, Return(how), prop' = prop PROVE LoopsOK'
  BY <1>0, <1>4 DEF Return, LoopsOK, NSlots
<1>5. ASSUME SlotFails \/ Export PROVE LoopsOK'
  BY <1>4, <1>5 DEF SlotFails, Export
<1>6. ASSUME NEW c \in Properties, Configure(c) PROVE LoopsOK'
  <2>1. NSlots' \in Nat \ {0}
    <3>1. prop' \in Properties
      BY <1>6 DEF Configure
    <3>2. nFrames \in Nat \ {0} /\ prop'.SlotsPerFrame \in Nat \ {0}
      BY <3>1, BoundsAssumption, PropertiesAssumption
    <3>3. nFrames * prop'.SlotsPerFrame \in Nat \ {0}
      BY <3>2
    <3> QED BY <3>3 DEF NSlots
  <2>2. /\ pc' = "idle" /\ nslot' = 0 /\ toDo' = {} /\ eqSlot' = -1
        /\ snr' \in SNRs
    BY <1>6 DEF Configure, locals, LoopsOK
  <2>3. nslot' \in 0..NSlots' /\ eqSlot' \in -1..NSlots' - 1
    <3>1. \A n \in Nat \ {0} : 0 \in 0..n /\ -1 \in -1..n - 1
      OBVIOUS
    <3>2. 0 \in 0..NSlots' /\ -1 \in -1..NSlots' - 1
      BY <2>1, <3>1
    <3> QED BY <2>2, <3>2
  <2>4. toDo' \subseteq SNRs /\ IsFiniteSet(toDo')
    BY <1>0, <2>2
  <2> QED BY <2>2, <2>3, <2>4 DEF LoopsOK
<1>7. ASSUME Reset \/ Release \/ Reload PROVE LoopsOK'
  BY <1>7 DEF Reset, Release, Reload, locals, LoopsOK, NSlots
<1>8. ASSUME UNCHANGED vars PROVE LoopsOK'
  BY <1>8 DEF vars, objvars, locals, LoopsOK, NSlots
<1>9. ASSUME Step PROVE LoopsOK'
  BY <1>1, <1>2, <1>3, <1>5, <1>9 DEF Step
<1> QED BY <1>6, <1>7, <1>8, <1>9 DEF Next

\* Calls end in one of the three ways.
LEMMA EndsStep ==
    ASSUME EndsOK, [Next]_vars
    PROVE  EndsOK'
PROOF
<1>1. ASSUME NEW SNRIn, Begin(SNRIn) PROVE EndsOK'
  BY <1>1 DEF Begin, EndsOK
<1> QED BY <1>1
        DEF Next, Step, StartPoint, Slot, SlotFails, Export, Return, Configure, Reset, Release,
            Reload, vars, EndsOK

-----------------------------------------------------------------------------
(***************************************************************************)
(* The theorems.                                                           *)
(***************************************************************************)

\* The invariant holds in all reachable states.
THEOREM InvHolds == Spec => []Inv
PROOF
<1>1. Init => Inv
  BY InitInv
<1>2. Inv /\ [Next]_vars => Inv'
  BY NextPreservesInv
<1> QED BY <1>1, <1>2, PTL DEF Spec

\* stepImpl never lets two transport blocks meet in a soft buffer or in the CRC flags,
\* with either decoder, any number of processes and any pattern of failures and calls.
THEOREM BlocksAreSeparate == Spec => []BlocksDoNotMix
PROOF
<1>1. Inv => BlocksDoNotMix
  BY DEF Inv
<1> QED BY <1>1, InvHolds, PTL

\* totalBlocksCtr counts each block once, when HARQEntity is done with it.
THEOREM CountedOnce == Spec => []EveryBlockIsCountedOnce
PROOF
<1>1. Inv => EveryBlockIsCountedOnce
  BY DEF Inv, Counting
<1> QED BY <1>1, InvHolds, PTL

\* No decoder's throughput counter exceeds the number of blocks: the restriction of
\* checkHARQandDecType is what it takes.
THEOREM ThroughputBound == Spec => []ThroughputIsBounded
PROOF
<1>1. Inv => ThroughputIsBounded
  BY DEF Inv, Counting
<1> QED BY <1>1, InvHolds, PTL

\* Without HARQ, received and missed blocks add up to all blocks, for each decoder.
THEOREM NoHARQAccounting == Spec => []ReceivedOrMissedAtOnce
PROOF
<1>1. Inv => ReceivedOrMissedAtOnce
  BY DEF Inv, Counting
<1> QED BY <1>1, InvHolds, PTL

\* The inductive invariant of what follows.
CallInv == Inv /\ PoolFits /\ LoopsOK /\ TablesOK /\ EndsOK

\* All of it holds before the first call ...
LEMMA CallInvInit == ASSUME Init  PROVE CallInv
PROOF
<1>1. Inv
  BY InitInv
<1>2. NSlots \in Nat \ {0} /\ IsFiniteSet({})
  BY <1>1, SlotsInPoint, FS_EmptySet DEF Inv, TypesOK
<1>3. (CHOOSE s \in SNRs : TRUE) \in SNRs
  BY SNRsAssumption
<1>4. LoopsOK
  BY <1>2, <1>3 DEF Init, LoopsOK
<1> QED BY <1>1, <1>4 DEF Init, NoResults, CallInv, PoolFits, TablesOK, EndsOK

\* ... and ever after.
LEMMA CallInvHolds == Spec => []CallInv
PROOF
<1>1. CallInv /\ [Next]_vars => CallInv'
  <2> SUFFICES ASSUME CallInv, [Next]_vars PROVE CallInv'
    OBVIOUS
  <2>1. Inv' /\ TypesOK /\ TypesOK' /\ CallsOK
    BY NextPreservesInv DEF CallInv, Inv
  <2> QED BY <2>1, PoolStep, LoopsStep, TablesStep, EndsStep DEF CallInv
<1> QED BY <1>1, CallInvInit, PTL DEF Spec

\* The properties of the object and the local variables of stepImpl keep their types: the
\* slot number stays within the point, redundancy versions within their sequence, and the
\* next point is one that the user asked for.
THEOREM TypesHold == Spec => []TypeOK
PROOF
<1>1. CallInv => TypeOK
  <2> SUFFICES ASSUME CallInv PROVE TypeOK
    OBVIOUS
  <2>1. TypesOK /\ VersionsOK /\ PoolFits /\ LoopsOK /\ TablesOK /\ EndsOK
    BY DEF CallInv, Inv
  <2>2. Len(rvSeq) <= Len(RVs) /\ Len(rvSeq) \in Nat /\ Len(RVs) \in Nat
    <3>1. CASE prop.EnableHARQ
      BY <3>1, RVsAssumption DEF rvSeq
    <3>2. CASE ~prop.EnableHARQ
      BY <2>1, <3>2, RVSequence, RVsAssumption
    <3> QED BY <3>1, <3>2
  <2>3. harqEntity \in [Processes -> HARQStates]
    <3>1. \A p \in Processes : harqEntity[p].rv \in 1..Len(RVs)
      BY <2>1, <2>2 DEF VersionsOK
    <3> QED BY <2>1, <3>1 DEF TypesOK, HARQStates
  <2>4. pool = NoPool \/ IsPool(pool)
    BY <2>1 DEF PoolFits
  <2> QED BY <2>1, <2>3, <2>4 DEF TypeOK, TypesOK, LoopsOK, TablesOK, EndsOK
<1> QED BY <1>1, CallInvHolds, PTL

\* configureSegment makes the softbuffer pool large enough for all HARQ processes, whatever
\* they have in flight: only a simulation with diagnostics can fail.
THEOREM StepsAlwaysSucceed == Spec => StepsSucceed
PROOF
<1>1. ASSUME CallInv, [Next]_vars, pc = "slot", pc' = "idle" PROVE prop.DisplayDiagnostics
  <2>1. SlotFails
    BY <1>1 DEF Next, Step, Begin, StartPoint, Slot, Export, Configure, Reset, Release, Reload,
          vars, objvars, locals
  <2>2. ~PoolIsUsedUp
    BY <1>1, NeverUsedUp DEF CallInv, Inv
  <2> QED BY <2>1, <2>2 DEF SlotFails, PlotFails
<1>2. CallInv /\ [Next]_vars => [pc = "slot" /\ pc' = "idle" => prop.DisplayDiagnostics]_vars
  BY <1>1
<1> QED BY <1>2, CallInvHolds, PTL DEF Spec, StepsSucceed
=============================================================================
