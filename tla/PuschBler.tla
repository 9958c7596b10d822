----------------------------- MODULE PuschBler -----------------------------
(***************************************************************************)
(* The PUSCHBLER simulator (PUSCHBLER.m): for every SNR point, a loop over *)
(* slots in which HARQ processes take turns.  Each slot sends a transport  *)
(* block, new or again, decodes it with the MATLAB decoder, the OCUDU      *)
(* decoder or both, and counts.                                            *)
(*                                                                         *)
(* Everything between the encoder and the decoders (channel, estimation,   *)
(* demodulation) is abstracted to the decoders' freedom to fail.  External *)
(* are the HARQEntity of the 5G Toolbox (not distributed with this code),  *)
(* the soft buffers of nrULSCHDecoder and, in SoftbufferPool, those of the *)
(* OCUDU library.  A decoder never returns a block that was not sent.      *)
(***************************************************************************)
EXTENDS SoftbufferPool, JoinArrays, Functions

CONSTANTS
    NHARQ,          \* NHARQProcesses (16 in setupImpl).
    RVs,            \* Redundancy versions with HARQ ([0 2 3 1] in stepImpl).
    NCodeblocks,    \* segmentCfg.NumCodeblocks.
    SNRs,           \* The SNR values that users may simulate.
    nFrames,        \* What users pass to step.
    QuickLimit,     \* Missed blocks that end a quick simulation (100).
    Properties,     \* Configurations the users choose from.
    NoPool          \* The OCUDU decoder is not set up.

Processes == 0..NHARQ-1
Decoders == {"matlab", "ocudu"}

ASSUME NHARQAssumption == NHARQ \in Nat \ {0} /\ BufIds = Processes
ASSUME BlocksAssumption == Blocks # {}
ASSUME RVsAssumption == RVs \in Seq(0..3) /\ Len(RVs) > 0 /\ IsInjective(RVs)
ASSUME NCodeblocksAssumption == NCodeblocks \in 1..MaxNCB
ASSUME SNRsAssumption == SNRs \subseteq Int /\ SNRs # {}
ASSUME BoundsAssumption == nFrames \in Nat \ {0} /\ QuickLimit \in Nat \ {0}
ASSUME PropertiesAssumption ==
    Properties \subseteq [ImplementationType : {"matlab", "ocudu", "both"},
                          EnableHARQ : BOOLEAN,
                          QuickSimulation : BOOLEAN,
                          DisplayDiagnostics : BOOLEAN,
                          SlotsPerFrame : Nat \ {0}]

VARIABLES
    prop,           \* The properties of the object.
    locked,         \* isLocked(obj).
    EncodeULSCH,    \* [Processes -> Blocks]: the block each process sends.
    DecodeULSCH,    \* [Processes -> SUBSET Blocks]: MATLAB's soft buffers.
    pool,           \* Softbuffers of DecodeULSCHocudu (see PuschDecoder).
    results,        \* SNRrange and the arrays of exported counters.
    \* Local variables of stepImpl.
    pc,             \* "idle", "point" (start of a point), "slot" (in a point).
    toDo,           \* SNR values left.
    snr,            \* SNR value being simulated.
    nslot,          \* Number of slots simulated.
    harqEntity,     \* [Processes -> HARQ process states].
    trBlk,          \* The last transport block generated.
    eqSlot,         \* Slot puschEq is about, -1 if puschEq is undefined.
    ctr,            \* Counters of the point.
    done,           \* SNR -> counters: the points simulated by this call.
    ended           \* How the last call ended: "ok", "rejected" or "failed".

objvars == <<prop, locked, EncodeULSCH, DecodeULSCH, pool, results>>
locals == <<pc, toDo, snr, nslot, harqEntity, trBlk, eqSlot, ctr, done>>
vars == <<objvars, locals, ended>>

\* The counters of a point.  Amounts of bits are divided by the TBS.  newBlocks
\* is not in the code: it counts the blocks transmitted, ignoring repetitions.
Counters ==
    [maxThroughput : Nat, totalBlocks : Nat, newBlocks : Nat,
     throughput : [Decoders -> Nat], missed : [Decoders -> Nat]]

ZeroCounters ==
    [maxThroughput |-> 0, totalBlocks |-> 0, newBlocks |-> 0,
     throughput |-> [d \in Decoders |-> 0], missed |-> [d \in Decoders |-> 0]]

\* A row of the exported arrays, one per counter (those of decoder iterations, which
\* are joined like the others, are left out).
RowOf(c) ==
    [MaxThroughputCtr |-> c.maxThroughput, TotalBlocksCtr |-> c.totalBlocks,
     ThroughputMATLABCtr |-> c.throughput["matlab"],
     ThroughputOCUDUCtr |-> c.throughput["ocudu"],
     MissedBlocksMATLABCtr |-> c.missed["matlab"],
     MissedBlocksOCUDUCtr |-> c.missed["ocudu"]]

Exported == DOMAIN RowOf(ZeroCounters)

NoResults == [SNRrange |-> <<>>, ctr |-> [c \in Exported |-> <<>>]]

\* The SubcarrierSpacing decides how long a frame is.
NSlots == nFrames * prop.SlotsPerFrame

HARQStates == [rv : 1..Len(RVs), NewData : BOOLEAN, SequenceTimeout : BOOLEAN]

TypeOK ==
    /\ prop \in Properties
    /\ locked \in BOOLEAN
    /\ EncodeULSCH \in [Processes -> Blocks]
    /\ DecodeULSCH \in [Processes -> SUBSET Blocks]
    /\ pool = NoPool \/ IsPool(pool)
    /\ DOMAIN results.ctr = Exported
    /\ \A c \in Exported : DOMAIN results.ctr[c] = DOMAIN results.SNRrange
    /\ pc \in {"idle", "point", "slot"}
    /\ toDo \subseteq SNRs /\ snr \in SNRs
    /\ nslot \in 0..NSlots /\ eqSlot \in -1..NSlots-1
    /\ harqEntity \in [Processes -> HARQStates]
    /\ trBlk \in Blocks
    /\ ctr \in Counters
    /\ DOMAIN done \subseteq SNRs /\ \A s \in DOMAIN done : done[s] \in Counters
    /\ ended \in {"ok", "rejected", "failed"}

Used(d) == prop.ImplementationType \in {d, "both"}

rvSeq == IF prop.EnableHARQ THEN RVs ELSE SubSeq(RVs, 1, 1)

-----------------------------------------------------------------------------
(***************************************************************************)
(* HARQEntity and nrULSCHDecoder (external).                               *)
(***************************************************************************)
NewHARQ == [rv |-> 1, NewData |-> TRUE, SequenceTimeout |-> FALSE]

\* updateAndAdvance: the next state of the process whose CRC error is err.
Update(h, err) ==
    CASE ~err -> NewHARQ
      [] err /\ h.rv = Len(rvSeq) -> [NewHARQ EXCEPT !.SequenceTimeout = TRUE]
      [] OTHER -> [rv |-> h.rv + 1, NewData |-> FALSE, SequenceTimeout |-> FALSE]

\* The process whose turn it is.
HARQProcessID == nslot % NHARQ

\* nrULSCHDecoder combines, and clears the soft buffer of a block it decodes.
MatlabDecodings(soft, tb) ==
    {[soft |-> soft \cup {tb}, CRCOK |-> FALSE, block |-> NoBlock]} \cup
        (IF soft \cup {tb} = {tb}
         THEN {[soft |-> {}, CRCOK |-> TRUE, block |-> tb]} ELSE {})

-----------------------------------------------------------------------------
\* Mutant: codeblocks for a single process.
DecoderCfgOneProcess == [bufs |-> NHARQ, cbs |-> NCodeblocks]

\* configureSegment: the dimensions of the softbuffer pool.
DecoderCfg == [bufs |-> NHARQ, cbs |-> NCodeblocks * NHARQ]

Init ==
    /\ prop \in Properties
    /\ locked = FALSE
    /\ EncodeULSCH \in [Processes -> {CHOOSE tb \in Blocks : TRUE}]
    /\ DecodeULSCH = [p \in Processes |-> {}]
    /\ pool = NoPool
    /\ results = NoResults
    /\ pc = "idle" /\ toDo = {} /\ snr \in {CHOOSE s \in SNRs : TRUE}
    /\ nslot = 0 /\ harqEntity = [p \in Processes |-> NewHARQ]
    /\ trBlk \in {CHOOSE tb \in Blocks : TRUE} /\ eqSlot = -1
    /\ ctr = ZeroCounters /\ done = [s \in {} |-> ZeroCounters]
    /\ ended = "ok"

\* The properties that may change while the object is locked.
Tunable == {"QuickSimulation", "DisplayDiagnostics"}

\* The user sets properties between two calls; of a locked object, tunable ones only.
Configure(c) ==
    /\ pc = "idle"
    /\ locked => \A name \in DOMAIN prop \ Tunable : c[name] = prop[name]
    /\ prop' = c
    /\ UNCHANGED <<locked, EncodeULSCH, DecodeULSCH, pool, results, locals, ended>>

\* Mutant: both decoders with HARQ are accepted.
ValidAlways(c) == c \in Properties

\* validatePropertiesImpl (checkHARQandDecType).
Valid(c) == ~(c.EnableHARQ /\ c.ImplementationType = "both")

\* step(obj, SNRIn, nFrames) is called: setup if needed, then the local variables.
Begin(SNRIn) ==
    /\ pc = "idle"
    /\ IF ~locked /\ ~Valid(prop)
       THEN /\ ended' = "rejected"
            /\ UNCHANGED <<objvars, locals>>
       ELSE /\ locked' = TRUE
            /\ IF locked
               THEN UNCHANGED <<DecodeULSCH, pool>>
               ELSE /\ DecodeULSCH' = [p \in Processes |-> {}]
                    /\ pool' = NoPool
            /\ pc' = "point"
            /\ toDo' = SNRIn
            /\ done' = [s \in {} |-> ZeroCounters]
            /\ eqSlot' = -1
            /\ UNCHANGED <<prop, EncodeULSCH, results, snr, nslot, harqEntity,
                           trBlk, ctr, ended>>

\* Mutant: the MATLAB decoder keeps the soft buffers of the previous point.
StartPointNoReset ==
    /\ pc = "point" /\ toDo # {}
    /\ snr' = Min(toDo)
    /\ toDo' = toDo \ {snr'}
    /\ harqEntity' = [p \in Processes |-> NewHARQ]
    /\ nslot' = 0
    /\ ctr' = ZeroCounters
    /\ pc' = "slot"
    /\ UNCHANGED <<objvars, trBlk, eqSlot, done, ended>>

\* The beginning of a simulation point.
StartPoint ==
    /\ pc = "point" /\ toDo # {}
    /\ snr' = Min(toDo)
    /\ toDo' = toDo \ {snr'}
    /\ DecodeULSCH' = [p \in Processes |-> {}]
    /\ harqEntity' = [p \in Processes |-> NewHARQ]
    /\ nslot' = 0
    /\ ctr' = ZeroCounters
    /\ pc' = "slot"
    /\ UNCHANGED <<prop, locked, EncodeULSCH, pool, results, trBlk, eqSlot,
                   done, ended>>

-----------------------------------------------------------------------------
(***************************************************************************)
(* One slot.                                                               *)
(***************************************************************************)
This == harqEntity[HARQProcessID]

\* The blocks the process may send: a new random block or the last one again.
Transmitted ==
    IF This.NewData THEN Blocks \ {EncodeULSCH[HARQProcessID]}
                    ELSE {EncodeULSCH[HARQProcessID]}

\* The MATLAB soft buffer when decoding starts: flushed after a time out.
MatlabSoft ==
    IF This.NewData /\ This.SequenceTimeout THEN {} ELSE DecodeULSCH[HARQProcessID]

\* resetCRCS does nothing until the OCUDU decoder is set up by its first step.
CRCsCanBeReset ==
    pool # NoPool => CanReserve(pool, HARQProcessID, NCodeblocks)

\* Mutant: the CRC flags of the last block are kept.
StepPoolNoReset == IF pool = NoPool THEN EmptyPool(DecoderCfg) ELSE pool

\* The pool the OCUDU decoder works on: CRC flags are reset before new data.
StepPool ==
    IF pool = NoPool THEN EmptyPool(DecoderCfg)
    ELSE IF This.NewData THEN ClearFlags(pool, HARQProcessID, NCodeblocks)
    ELSE pool

MatlabOutcomes(tb) ==
    IF Used("matlab") THEN MatlabDecodings(MatlabSoft, tb)
    ELSE {[soft |-> MatlabSoft, CRCOK |-> FALSE, block |-> NoBlock]}

OcuduOutcomes(tb) ==
    IF Used("ocudu")
    THEN {[pool |-> o.pool, CRCOK |-> o.stats.end = "decoded", block |-> o.stats.block] :
            o \in StepOutcomes(StepPool, HARQProcessID, This.NewData, tb, NCodeblocks)}
    ELSE {[pool |-> pool, CRCOK |-> FALSE, block |-> NoBlock]}

\* Mutant: the sequence with HARQ, even without HARQ.
isLastRVWithHARQ == RVs[This.rv] = RVs[Len(RVs)]

\* This is the last attempt at the block.
isLastRetransmission == rvSeq[This.rv] = rvSeq[Len(rvSeq)]

ToNat(b) == IF b THEN 1 ELSE 0

\* isCountBLER && any(decbits ~= trBlk).
Missed(crcOK, block, ref) == (isLastRetransmission \/ crcOK) /\ block # ref

\* The block has to be sent again if any decoder in use missed it.
blkerrBoth(crcOK) == \E d \in Decoders : Used(d) /\ ~crcOK[d]

\* The counters after a slot.
Count(crcOK, block, ref) ==
    [maxThroughput |-> ctr.maxThroughput + 1,
     totalBlocks |-> ctr.totalBlocks
                        + ToNat(~blkerrBoth(crcOK) \/ isLastRetransmission),
     newBlocks |-> ctr.newBlocks + ToNat(This.NewData),
     throughput |-> [d \in Decoders |->
        ctr.throughput[d] + ToNat(Used(d) /\ crcOK[d])],
     missed |-> [d \in Decoders |->
        ctr.missed[d] + ToNat(Used(d) /\ Missed(crcOK[d], block[d], ref))]]

QuickStop(c) ==
    prop.QuickSimulation /\ \A d \in Decoders : Used(d) => c.missed[d] >= QuickLimit

\* Mutant: a quick simulation stops by quick stop only.
PointEndsQuick(n, c) == IF prop.QuickSimulation THEN QuickStop(c) ELSE n = NSlots

\* The point ends after n slots with counters c.
PointEnds(n, c) == n = NSlots \/ QuickStop(c)

\* puschEq, which only the MATLAB branch sets, is plotted before it is defined.
PlotFails == prop.DisplayDiagnostics /\ eqSlot = -1

\* The pool has no softbuffer for this process.
PoolIsUsedUp ==
    \/ This.NewData /\ ~CRCsCanBeReset
    \/ Used("ocudu") /\ ~CanReserve(StepPool, HARQProcessID, NCodeblocks)

\* tb is sent and decoded: what the encoder, the decoders, the counters and the HARQ
\* process become.
Transmit(tb, mat, ocu) ==
    LET crcOK == [d \in Decoders |-> IF d = "matlab" THEN mat.CRCOK ELSE ocu.CRCOK]
        block == [d \in Decoders |-> IF d = "matlab" THEN mat.block ELSE ocu.block]
    IN  /\ EncodeULSCH' = [EncodeULSCH EXCEPT ![HARQProcessID] = tb]
        /\ trBlk' = IF This.NewData THEN tb ELSE trBlk
        /\ DecodeULSCH' = [DecodeULSCH EXCEPT ![HARQProcessID] = mat.soft]
        /\ pool' = IF Used("ocudu") THEN ocu.pool ELSE pool
        /\ eqSlot' = IF Used("matlab") THEN nslot ELSE eqSlot
        /\ ctr' = Count(crcOK, block, trBlk')
        /\ harqEntity' =
               [harqEntity EXCEPT ![HARQProcessID] = Update(This, blkerrBoth(crcOK))]

\* A slot that does not fail.
Slot ==
    /\ pc = "slot"
    /\ ~PlotFails /\ ~PoolIsUsedUp
    /\ \E tb \in Transmitted :
       \E mat \in MatlabOutcomes(tb), ocu \in OcuduOutcomes(tb) : Transmit(tb, mat, ocu)
    /\ nslot' = nslot + 1
    /\ IF PointEnds(nslot', ctr')
       THEN pc' = "point" /\ done' = With(done, snr, ctr')
       ELSE UNCHANGED <<pc, done>>
    /\ UNCHANGED <<prop, locked, results, toDo, snr, ended>>

\* The local variables die with the call.
Return(how) ==
    /\ ended' = how
    /\ pc' = "idle" /\ toDo' = {}
    /\ nslot' = 0 /\ harqEntity' = [p \in Processes |-> NewHARQ]
    /\ eqSlot' = -1
    /\ ctr' = ZeroCounters /\ done' = [s \in {} |-> ZeroCounters]
    /\ UNCHANGED <<snr, trBlk>>

\* A slot that fails.  The call ends with an error; what was done to the encoder
\* and the decoders remains.
SlotFails ==
    /\ pc = "slot"
    /\ PlotFails \/ PoolIsUsedUp
    /\ \E tb \in Transmitted :
          EncodeULSCH' = [EncodeULSCH EXCEPT ![HARQProcessID] = tb]
    /\ DecodeULSCH' = [DecodeULSCH EXCEPT ![HARQProcessID] = MatlabSoft]
    /\ pool' = IF pool # NoPool /\ CRCsCanBeReset THEN StepPool ELSE pool
    /\ Return("failed")
    /\ UNCHANGED <<prop, locked, results>>

\* The results of earlier calls joined with those of this one, array by array.
Joined ==
    LET SNRIn == Ascending(DOMAIN done)
        repeatedIdx == RepeatedIdx(results.SNRrange, SNRIn)
        range == RemoveIdx(results.SNRrange, repeatedIdx) \o SNRIn
        sortedIdx == SortedIdx(range)
    IN  [SNRrange |-> [i \in DOMAIN sortedIdx |-> range[sortedIdx[i]]],
         ctr |-> [c \in Exported |->
                    joinArrays(results.ctr[c],
                               [i \in DOMAIN SNRIn |-> RowOf(done[SNRIn[i]])[c]],
                               repeatedIdx, sortedIdx)]]

\* Export results: the values simulated again are taken out of SNRrange and of each
\* array, those of the call put at the end, and all sorted alike.
Export ==
    /\ pc = "point" /\ toDo = {}
    /\ results' = Joined
    /\ Return("ok")
    /\ UNCHANGED <<prop, locked, EncodeULSCH, DecodeULSCH, pool>>

-----------------------------------------------------------------------------
(***************************************************************************)
(* The other methods.                                                      *)
(***************************************************************************)

\* resetImpl, of a locked object.
Reset ==
    /\ pc = "idle" /\ locked
    /\ DecodeULSCH' = [p \in Processes |-> {}]
    /\ pool' = IF pool = NoPool THEN NoPool ELSE EmptyPool(DecoderCfg)
    /\ results' = NoResults
    /\ ended' = "ok"
    /\ UNCHANGED <<prop, locked, EncodeULSCH, locals>>

\* releaseImpl.
Release ==
    /\ pc = "idle" /\ locked
    /\ locked' = FALSE
    /\ DecodeULSCH' = [p \in Processes |-> {}]
    /\ pool' = NoPool
    /\ results' = NoResults
    /\ ended' = "ok"
    /\ UNCHANGED <<prop, EncodeULSCH, locals>>

\* The object is saved and loaded: the OCUDU decoder comes back with a new pool.
Reload ==
    /\ pc = "idle"
    /\ pool' = IF pool = NoPool THEN NoPool ELSE EmptyPool(DecoderCfg)
    /\ ended' = "ok"
    /\ UNCHANGED <<prop, locked, EncodeULSCH, DecodeULSCH, results, locals>>

Step ==
    \/ \E SNRIn \in (SUBSET SNRs) \ {{}} : IsFiniteSet(SNRIn) /\ Begin(SNRIn)
    \/ StartPoint \/ Slot \/ SlotFails \/ Export

Next ==
    \/ Step
    \/ \E c \in Properties : Configure(c)
    \/ Reset \/ Release \/ Reload

Spec == Init /\ [][Next]_vars

-----------------------------------------------------------------------------
(***************************************************************************)
(* Properties.                                                             *)
(***************************************************************************)

\* Decoding never mixes blocks: what is in a soft buffer when a process sends
\* again is what that process sent before, no CRC flag of an earlier block survives
\* into the retransmissions of the next, and a process that has new data finds its
\* MATLAB soft buffer empty unless it is about to flush it.
BlocksDoNotMix ==
    pc = "slot" =>
        \A p \in Processes :
            IF harqEntity[p].NewData
            THEN harqEntity[p].SequenceTimeout \/ DecodeULSCH[p] = {}
            ELSE /\ DecodeULSCH[p] \subseteq {EncodeULSCH[p]}
                 /\ Used("ocudu") /\ p \in DOMAIN pool.buf =>
                        LET b == pool.buf[p]
                        IN  /\ b.soft \subseteq {EncodeULSCH[p]}
                            /\ \A i \in DOMAIN b.cb : b.cb[i] \in {EncodeULSCH[p], NoBlock}

\* Only the plots of the diagnostics end a call half way: the softbuffer pool is large
\* enough for all HARQ processes, whatever they have in flight and whatever the calls
\* before, failed ones included, left in it.
StepsSucceed ==
    [][pc = "slot" /\ pc' = "idle" => prop.DisplayDiagnostics]_vars

\* HARQEntity and the counters agree on when a block is finished: every block
\* transmitted is counted once, or it is still in flight.
EveryBlockIsCountedOnce ==
    pc = "slot" =>
        ctr.newBlocks = ctr.totalBlocks
            + Cardinality({p \in Processes : ~harqEntity[p].NewData})

\* No decoder is credited twice with the same block, whatever the other did.
ThroughputIsBounded ==
    \A d \in Decoders : ctr.throughput[d] <= ctr.totalBlocks

\* Each finished block was either received or missed by each decoder in use
\* (MissedBlocksOCUDUCtr counts "missed transport blocks, after all allowed
\* retransmissions").
ReceivedOrMissed ==
    \A d \in Decoders :
        Used(d) => ctr.totalBlocks = ctr.throughput[d] + ctr.missed[d]

\* Without HARQ that is what the counters say.
ReceivedOrMissedAtOnce == ~prop.EnableHARQ => ReceivedOrMissed

\* The rows that the arrays show for an SNR value.
RowsFor(s) ==
    {[c \in Exported |-> results.ctr[c][i]] :
        i \in {j \in DOMAIN results.SNRrange : results.SNRrange[j] = s}}

\* "Successive calls of the step method will result in a combined set of simulation
\* results": a successful call shows what it counted for each value it simulated, and
\* for the others, at new positions, what was there; a failed one changes nothing.
ResultsCombine ==
    [][pc # "idle" =>
        \A s \in SNRs :
            RowsFor(s)' = IF pc' = "idle" /\ ended' = "ok" /\ s \in DOMAIN done
                          THEN {RowOf(done[s])} ELSE RowsFor(s)]_vars
=============================================================================
