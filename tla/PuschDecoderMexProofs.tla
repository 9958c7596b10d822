----------------------- MODULE PuschDecoderMexProofs -----------------------
(***************************************************************************)
(* Proofs about PuschDecoderMex, for any number of decoders, keys,         *)
(* softbuffer identifiers and transport blocks.                            *)
(*                                                                         *)
(* In a session where no call fails midway (Spec), locked objects and live *)
(* pools correspond one to one.  LockedHasPool and ExclusivePools need     *)
(* each other to be inductive: release erases the pool of one key, and     *)
(* only because no other object holds that key do the others keep theirs.  *)
(***************************************************************************)
EXTENDS PuschDecoderMex, SoftbufferPoolProofs

\* The inductive invariant.
Inv ==
    /\ TypeOK
    /\ LockedHasPool
    /\ ExclusivePools
    /\ NoSpuriousAbort
    /\ PoolMatchesConfig

-----------------------------------------------------------------------------
\* A reply of any call is a reply.
LEMMA ReplyOK ==
    ASSUME NEW o \in Decoders,
           NEW call \in {"configure", "setup", "step", "resetCRCS",
                         "reset", "release", "load"},
           NEW end \in {"done", "full", "rejected", "nopool", "failed"},
           reply' = Reply(o, call, end)
    PROVE  ReplyTypeOK' /\ reply'.end = end
  BY DEF ReplyTypeOK, Reply

\* Storing a pool under a key that is not in the storage.
LEMMA StoreOK ==
    ASSUME IsStore(storage), NEW k \in Keys \ DOMAIN storage,
           NEW p, IsPool(p), storage' = With(storage, k, p)
    PROVE  /\ IsStore(storage')
           /\ DOMAIN storage' = DOMAIN storage \cup {k}
           /\ storage'[k] = p
           /\ \A x \in DOMAIN storage : storage'[x] = storage[x]
  BY DEF IsStore, With

\* Erasing a key.
LEMMA EraseOK ==
    ASSUME IsStore(storage), NEW k, storage' = Without(storage, k)
    PROVE  /\ IsStore(storage')
           /\ DOMAIN storage' = DOMAIN storage \ {k}
           /\ \A x \in DOMAIN storage' : storage'[x] = storage[x]
  BY DEF IsStore, Without

\* Giving a key that is in the storage another pool.
LEMMA UpdateOK ==
    ASSUME NEW f, IsStore(f), NEW k \in DOMAIN f, NEW p, IsPool(p),
           NEW g, g = [f EXCEPT ![k] = p]
    PROVE  /\ IsStore(g)
           /\ DOMAIN g = DOMAIN f
           /\ g[k] = p
           /\ \A x \in DOMAIN f \ {k} : g[x] = f[x]
  BY DEF IsStore

\* setup(): releasing the first pool leaves the storage as it was.
LEMMA SetupStore ==
    ASSUME NEW f, IsStore(f), NEW first \in FreeKeys(f), NEW p
    PROVE  Without(With(f, first, p), first) = f
  BY DEF IsStore, FreeKeys, With, Without

-----------------------------------------------------------------------------
(***************************************************************************)
(* The invariant is preserved by each call.                                *)
(***************************************************************************)

LEMMA InitInv == Init => Inv
  <1> SUFFICES ASSUME Init PROVE Inv
    OBVIOUS
  <1>1. ReplyTypeOK /\ NoSpuriousAbort
    BY DEF Init, ReplyTypeOK, Reply, NoSpuriousAbort
  <1>2. ObjectsTypeOK /\ StorageTypeOK
    BY DEF Init, ObjectsTypeOK, StorageTypeOK, IsStore
  <1>3. LockedHasPool /\ ExclusivePools /\ PoolMatchesConfig
    BY DEF Init, LockedHasPool, ExclusivePools, PoolMatchesConfig, KnownKey
  <1> QED  BY <1>1, <1>2, <1>3 DEF Inv, TypeOK

\* Setting properties of an object does not touch the storage.
LEMMA ConfigureInv ==
    ASSUME Inv, NEW o \in Decoders, NEW cfg \in UserConfigs, Configure(o, cfg)
    PROVE  Inv'
  <1>1. ReplyTypeOK' /\ NoSpuriousAbort'
    BY ReplyOK DEF Configure, NoSpuriousAbort
  <1>2. ObjectsTypeOK' /\ StorageTypeOK'
    BY DEF Inv, TypeOK, Configure, ObjectsTypeOK, StorageTypeOK
  <1>3. LockedHasPool' /\ ExclusivePools'
    BY DEF Inv, Configure, LockedHasPool, ExclusivePools
  <1>4. PoolMatchesConfig'
    BY KeysAssumption
    DEF Inv, TypeOK, ObjectsTypeOK, StorageTypeOK, IsStore, Configure,
        LockedHasPool, PoolMatchesConfig, KnownKey
  <1> QED  BY <1>1, <1>2, <1>3, <1>4 DEF Inv, TypeOK

\* setup stores a new pool under a key that no object holds.
LEMMA SetupInv ==
    ASSUME Inv, NEW o \in Decoders, Setup(o)
    PROVE  Inv'
  <1>1. ReplyTypeOK' /\ NoSpuriousAbort'
    BY ReplyOK DEF Setup, NoSpuriousAbort
  <1> PICK p : p = EmptyPool(config[o])
    OBVIOUS
  <1>2. IsPool(p) /\ p.cfg = config[o]
    BY EmptyPoolOK, UserConfigsAssumption DEF Inv, TypeOK, ObjectsTypeOK
  <1>3. PICK k \in FreeKeys(storage) :
            storage' = With(storage, k, p) /\ poolID' = [poolID EXCEPT ![o] = k]
    BY SetupStore DEF Inv, TypeOK, StorageTypeOK, Setup, MexNew, MexRelease
  <1>4. k \in Keys \ DOMAIN storage
    BY DEF FreeKeys
  <1>5. /\ StorageTypeOK'
        /\ DOMAIN storage' = DOMAIN storage \cup {k}
        /\ storage'[k] = p
        /\ \A x \in DOMAIN storage : storage'[x] = storage[x]
    <2>1. IsStore(storage)
      BY DEF Inv, TypeOK, StorageTypeOK
    <2> QED  BY <1>2, <1>3, <1>4, <2>1, StoreOK DEF StorageTypeOK
  <1>6. ObjectsTypeOK'
    BY <1>3, <1>4 DEF Inv, TypeOK, Setup, ObjectsTypeOK
  <1>7. LockedHasPool' /\ ExclusivePools' /\ PoolMatchesConfig'
    BY <1>2, <1>3, <1>4, <1>5, KeysAssumption
    DEF Inv, TypeOK, Setup, ObjectsTypeOK, LockedHasPool, ExclusivePools,
        PoolMatchesConfig, KnownKey
  <1> QED  BY <1>1, <1>5, <1>6, <1>7 DEF Inv, TypeOK

\* step writes the pool of its object alone.
LEMMA StepInv ==
    ASSUME Inv, NEW o \in Decoders, NEW id \in BufIds, NEW new \in BOOLEAN,
           NEW tb \in Blocks, NEW n \in 1..MaxNCB, Step(o, id, new, tb, n)
    PROVE  Inv'
  <1>1. KnownKey(o)
    BY DEF Inv, LockedHasPool, Step, KnownKey
  <1>2. ObjectsTypeOK' /\ UNCHANGED <<locked, config, poolID>>
    BY DEF Inv, TypeOK, ObjectsTypeOK, Step
  <1>3. CASE UNCHANGED storage /\ \E e \in {"full", "rejected"} : reply' = Reply(o, "step", e)
    BY <1>2, <1>3, ReplyOK
    DEF Inv, TypeOK, StorageTypeOK, LockedHasPool, ExclusivePools,
        NoSpuriousAbort, PoolMatchesConfig, KnownKey
  <1>4. ASSUME NEW out \in StepOutcomes(storage[poolID[o]], id, new, tb, n),
               storage' = [storage EXCEPT ![poolID[o]] = out.pool],
               reply' = StatsReply(o, out.stats)
        PROVE  Inv'
    <2>1. /\ IsPool(out.pool)
          /\ out.pool.cfg = storage[poolID[o]].cfg
          /\ out.stats.end \in {"decoded", "missed"}
          /\ out.stats.block \in Blocks \cup {NoBlock}
      BY <1>1, StepOutcomesOK DEF Inv, TypeOK, StorageTypeOK, IsStore, KnownKey
    <2>2. ReplyTypeOK' /\ NoSpuriousAbort'
      BY <1>4, <2>1 DEF ReplyTypeOK, NoSpuriousAbort, StatsReply
    <2>3. /\ StorageTypeOK'
          /\ DOMAIN storage' = DOMAIN storage
          /\ \A x \in DOMAIN storage : storage'[x].cfg = storage[x].cfg
      BY <1>1, <1>4, <2>1, UpdateOK DEF Inv, TypeOK, StorageTypeOK, KnownKey
    <2>4. LockedHasPool' /\ ExclusivePools' /\ PoolMatchesConfig'
      BY <1>2, <2>3
      DEF Inv, LockedHasPool, ExclusivePools, PoolMatchesConfig, KnownKey
    <2> QED  BY <1>2, <2>2, <2>3, <2>4 DEF Inv, TypeOK
  <1> QED  BY <1>1, <1>3, <1>4 DEF Step

\* resetCRCS writes the pool of its object alone.
LEMMA ResetCRCsInv ==
    ASSUME Inv, NEW o \in Decoders, NEW id \in BufIds, NEW n \in 1..MaxNCB,
           ResetCRCs(o, id, n)
    PROVE  Inv'
  <1>1. ObjectsTypeOK' /\ UNCHANGED <<locked, config, poolID>>
    BY DEF Inv, TypeOK, ObjectsTypeOK, ResetCRCs
  <1>2. ReplyTypeOK' /\ NoSpuriousAbort'
    BY ReplyOK DEF Inv, ResetCRCs, NoSpuriousAbort, LockedHasPool, KnownKey
  <1>3. CASE UNCHANGED storage
    BY <1>1, <1>2, <1>3
    DEF Inv, TypeOK, StorageTypeOK, LockedHasPool, ExclusivePools,
        PoolMatchesConfig, KnownKey
  <1>4. CASE /\ KnownKey(o)
             /\ storage' = [storage EXCEPT ![poolID[o]] = ClearFlags(@, id, n)]
    <2> PICK p : p = ClearFlags(storage[poolID[o]], id, n)
      OBVIOUS
    <2>1. IsPool(p) /\ p.cfg = storage[poolID[o]].cfg
      BY <1>4, ClearFlagsOK DEF Inv, TypeOK, StorageTypeOK, IsStore, KnownKey
    <2>2. storage' = [storage EXCEPT ![poolID[o]] = p]
      BY <1>4
    <2>3. /\ StorageTypeOK'
          /\ DOMAIN storage' = DOMAIN storage
          /\ \A x \in DOMAIN storage : storage'[x].cfg = storage[x].cfg
      <3>1. IsStore(storage) /\ poolID[o] \in DOMAIN storage
        BY <1>4 DEF Inv, TypeOK, StorageTypeOK, KnownKey
      <3> QED  BY <2>1, <2>2, <3>1, UpdateOK DEF StorageTypeOK
    <2>4. LockedHasPool' /\ ExclusivePools' /\ PoolMatchesConfig'
      BY <1>1, <2>3
      DEF Inv, LockedHasPool, ExclusivePools, PoolMatchesConfig, KnownKey
    <2> QED  BY <1>1, <1>2, <2>3, <2>4 DEF Inv, TypeOK
  <1> QED  BY <1>3, <1>4 DEF ResetCRCs

\* reset replaces the pool of its object.
LEMMA ResetInv ==
    ASSUME Inv, NEW o \in Decoders, Reset(o)
    PROVE  Inv'
  <1>1. ReplyTypeOK' /\ NoSpuriousAbort'
    BY ReplyOK DEF Inv, Reset, NoSpuriousAbort, LockedHasPool, KnownKey
  <1>2. CASE UNCHANGED <<poolID, storage>>
    BY <1>1, <1>2
    DEF Inv, TypeOK, ObjectsTypeOK, StorageTypeOK, Reset, LockedHasPool,
        ExclusivePools, PoolMatchesConfig, KnownKey
  <1> PICK p : p = EmptyPool(config[o])
    OBVIOUS
  <1>3. IsPool(p) /\ p.cfg = config[o]
    BY EmptyPoolOK, UserConfigsAssumption DEF Inv, TypeOK, ObjectsTypeOK
  <1>4. ASSUME locked[o], NEW k \in FreeKeys(Without(storage, poolID[o])),
               storage' = With(Without(storage, poolID[o]), k, p),
               poolID' = [poolID EXCEPT ![o] = k]
        PROVE  Inv'
    <2>1. IsStore(storage)
      BY DEF Inv, TypeOK, StorageTypeOK
    <2>2. k \in Keys \ (DOMAIN storage \ {poolID[o]})
      BY DEF FreeKeys, Without
    <2>3. /\ StorageTypeOK'
          /\ DOMAIN storage' = (DOMAIN storage \ {poolID[o]}) \cup {k}
          /\ storage'[k] = p
          /\ \A x \in DOMAIN storage \ {poolID[o]} : storage'[x] = storage[x]
      BY <1>3, <1>4, <2>1, <2>2 DEF StorageTypeOK, IsStore, With, Without
    <2>4. ObjectsTypeOK'
      BY <1>4, <2>2 DEF Inv, TypeOK, Reset, ObjectsTypeOK
    <2>5. LockedHasPool' /\ ExclusivePools' /\ PoolMatchesConfig'
      BY <1>3, <1>4, <2>2, <2>3, KeysAssumption
      DEF Inv, TypeOK, Reset, ObjectsTypeOK, LockedHasPool, ExclusivePools,
          PoolMatchesConfig, KnownKey
    <2> QED  BY <1>1, <2>3, <2>4, <2>5 DEF Inv, TypeOK
  <1> QED  BY <1>2, <1>4 DEF Reset, MexNew, MexRelease

\* release erases the pool of its object alone.
LEMMA ReleaseInv ==
    ASSUME Inv, NEW o \in Decoders, Release(o)
    PROVE  Inv'
  <1>1. ReplyTypeOK' /\ NoSpuriousAbort'
    BY ReplyOK DEF Inv, Release, NoSpuriousAbort, LockedHasPool, KnownKey
  <1>2. CASE ~locked[o] \/ poolID[o] = 0
    BY <1>1, <1>2, KeysAssumption
    DEF Inv, TypeOK, ObjectsTypeOK, StorageTypeOK, IsStore, Release,
        LockedHasPool, ExclusivePools, PoolMatchesConfig, KnownKey
  <1>3. CASE locked[o] /\ poolID[o] # 0
    <2>1. /\ storage' = Without(storage, poolID[o])
          /\ poolID' = [poolID EXCEPT ![o] = 0]
          /\ locked' = [locked EXCEPT ![o] = FALSE]
          /\ UNCHANGED config
      BY <1>3 DEF Inv, Release, LockedHasPool, KnownKey, MexRelease
    <2>2. /\ StorageTypeOK'
          /\ DOMAIN storage' = DOMAIN storage \ {poolID[o]}
          /\ \A x \in DOMAIN storage' : storage'[x] = storage[x]
      BY <2>1, EraseOK DEF Inv, TypeOK, StorageTypeOK
    <2>3. ObjectsTypeOK'
      BY <2>1 DEF Inv, TypeOK, ObjectsTypeOK
    <2>4. LockedHasPool' /\ ExclusivePools' /\ PoolMatchesConfig'
      BY <1>3, <2>1, <2>2, KeysAssumption
      DEF Inv, TypeOK, ObjectsTypeOK, StorageTypeOK, IsStore, LockedHasPool,
          ExclusivePools, PoolMatchesConfig, KnownKey
    <2> QED  BY <1>1, <2>2, <2>3, <2>4 DEF Inv, TypeOK
  <1> QED  BY <1>2, <1>3

\* Loading a locked object stores a new pool, as setup does.
LEMMA LoadInv ==
    ASSUME Inv, NEW o \in Decoders, NEW src \in Decoders \ {o}, Load(o, src)
    PROVE  Inv'
  <1>1. ReplyTypeOK' /\ NoSpuriousAbort'
    BY ReplyOK DEF Load, NoSpuriousAbort
  <1>2. CASE ~locked[src]
    BY <1>1, <1>2, KeysAssumption
    DEF Inv, TypeOK, ObjectsTypeOK, StorageTypeOK, IsStore, Load,
        LockedHasPool, ExclusivePools, PoolMatchesConfig, KnownKey
  <1>3. CASE locked[src]
    <2> PICK p : p = EmptyPool(config[src])
      OBVIOUS
    <2>1. IsPool(p) /\ p.cfg = config[src]
      BY EmptyPoolOK, UserConfigsAssumption DEF Inv, TypeOK, ObjectsTypeOK
    <2>2. PICK k \in Keys \ DOMAIN storage :
              storage' = With(storage, k, p) /\ poolID' = [poolID EXCEPT ![o] = k]
      BY <1>3 DEF Load, MexNew, FreeKeys
    <2>3. /\ StorageTypeOK'
          /\ DOMAIN storage' = DOMAIN storage \cup {k}
          /\ storage'[k] = p
          /\ \A x \in DOMAIN storage : storage'[x] = storage[x]
      <3>1. IsStore(storage)
        BY DEF Inv, TypeOK, StorageTypeOK
      <3> QED  BY <2>1, <2>2, <3>1, StoreOK DEF StorageTypeOK
    <2>4. ObjectsTypeOK'
      BY <2>2 DEF Inv, TypeOK, Load, ObjectsTypeOK
    <2>5. LockedHasPool' /\ ExclusivePools' /\ PoolMatchesConfig'
      BY <1>3, <2>1, <2>2, <2>3, KeysAssumption
      DEF Inv, TypeOK, Load, ObjectsTypeOK, LockedHasPool, ExclusivePools,
          PoolMatchesConfig, KnownKey
    <2> QED  BY <1>1, <2>3, <2>4, <2>5 DEF Inv, TypeOK
  <1> QED  BY <1>2, <1>3

\* Every call preserves the invariant.
LEMMA NextInv == Inv /\ [Next]_vars => Inv'
  <1> SUFFICES ASSUME Inv, [Next]_vars PROVE Inv'
    OBVIOUS
  <1>1. CASE UNCHANGED vars
    BY <1>1
    DEF vars, Inv, TypeOK, ObjectsTypeOK, StorageTypeOK, ReplyTypeOK,
        LockedHasPool, ExclusivePools, NoSpuriousAbort, PoolMatchesConfig, KnownKey
  <1>2. ASSUME NEW o \in Decoders, Call(o) PROVE Inv'
    BY <1>2, ConfigureInv, SetupInv, StepInv, ResetCRCsInv, ResetInv, ReleaseInv,
       LoadInv
    DEF Call
  <1> QED  BY <1>1, <1>2 DEF Next

-----------------------------------------------------------------------------
\* Locked objects and live pools correspond one to one, whatever addresses the
\* allocator hands out again, and the MEX function always knows the key it is
\* given (memento.h, pusch_decoder_mex.cpp, ocuduPUSCHDecoder.m).
THEOREM InvHolds == Spec => []Inv
  BY InitInv, NextInv, PTL DEF Spec

\* The objects' properties, the storage and the replies keep their types.
THEOREM TypeCorrect == Spec => []TypeOK
  BY InvHolds, PTL DEF Inv

\* No two objects ever hold the key of the same pool.
THEOREM PoolsAreExclusive == Spec => []ExclusivePools
  BY InvHolds, PTL DEF Inv

\* An object has a pool exactly while it is locked.
THEOREM LockedObjectsHavePools == Spec => []LockedHasPool
  BY InvHolds, PTL DEF Inv

\* No call ever aborts because its key is unknown.
THEOREM KeysAreKnown == Spec => []NoSpuriousAbort
  BY InvHolds, PTL DEF Inv

\* The pool behind an object has the dimensions the object shows: configure()
\* cannot change them under a live pool.
THEOREM PoolsMatchTheirConfig == Spec => []PoolMatchesConfig
  BY InvHolds, PTL DEF Inv

-----------------------------------------------------------------------------
(***************************************************************************)
(* Softbuffers and the segmentation of the blocks in them.                 *)
(***************************************************************************)

\* The blocks in each buffer of a pool have as many codeblocks as the buffer.
Segmented(p) ==
    \A id \in DOMAIN p.buf : \A tb \in p.buf[id].soft : NofCodeblocks[tb] = NCB(p.buf[id])

\* A reserved buffer has the size asked for, and is old only if it had that size before.
LEMMA ReserveSegmented ==
    ASSUME NEW p, IsPool(p), Segmented(p), NEW id \in BufIds, NEW n \in 1..MaxNCB
    PROVE  LET b == Reserve(p, id, n).buf[id]
           IN  NCB(b) = n /\ \A tb \in b.soft : NofCodeblocks[tb] = n
PROOF
<1>1. CASE Holds(p, id, n)
  BY <1>1 DEF Holds, Reserve, Segmented
<1>2. CASE ~Holds(p, id, n)
  <2>1. Reserve(p, id, n).buf[id] = EmptyBuffer(n)
    BY <1>2 DEF Reserve, PoolWith, With
  <2> QED BY <2>1, ReserveOK DEF EmptyBuffer
<1> QED BY <1>1, <1>2

\* reset_codeblocks_crc(), for any number of codeblocks: a buffer that gets another size
\* loses its soft bits.
LEMMA ClearFlagsSegmented ==
    ASSUME NEW p, IsPool(p), Segmented(p), NEW id \in BufIds, NEW n \in 1..MaxNCB
    PROVE  Segmented(ClearFlags(p, id, n))
PROOF
<1> DEFINE c == ClearFlags(p, id, n)
           b == Reserve(p, id, n).buf[id]
<1> SUFFICES ASSUME NEW x \in DOMAIN c.buf, NEW tb \in c.buf[x].soft
             PROVE  NofCodeblocks[tb] = NCB(c.buf[x])
  BY DEF Segmented
<1>1. CASE x # id
  <2>1. x \in DOMAIN p.buf /\ c.buf[x] = p.buf[x]
    BY <1>1, ClearFlagsOthers
  <2> QED BY <2>1 DEF Segmented
<1>2. CASE x = id
  <2>1. c.buf[x].soft = b.soft /\ DOMAIN c.buf[x].cb = 1..n
    BY <1>2 DEF ClearFlags, PoolWith, With
  <2>2. NCB(c.buf[x]) = n
    BY <2>1, SizeOfCodeblocks DEF NCB
  <2>3. \A t \in b.soft : NofCodeblocks[t] = n
    BY ReserveSegmented
  <2> QED BY <2>1, <2>2, <2>3
<1> QED BY <1>1, <1>2

\* A step, which passes the check of method_step only with the block's own segmentation.
LEMMA StepSegmented ==
    ASSUME NEW p, IsPool(p), Segmented(p), NEW id \in BufIds, NEW new \in BOOLEAN,
           NEW tb \in Blocks, NEW n \in 1..MaxNCB, n = NofCodeblocks[tb],
           NEW out \in StepOutcomes(p, id, new, tb, n)
    PROVE  Segmented(out.pool)
PROOF
<1> DEFINE q == Reserve(p, id, n)
<1> SUFFICES ASSUME NEW x \in DOMAIN out.pool.buf, NEW t \in out.pool.buf[x].soft
             PROVE  NofCodeblocks[t] = NCB(out.pool.buf[x])
  BY DEF Segmented
<1>1. CASE x # id
  <2>1. x \in DOMAIN p.buf /\ out.pool.buf[x] = p.buf[x]
    BY <1>1, OtherBuffers
  <2> QED BY <2>1 DEF Segmented
<1>2. CASE x = id
  <2>1. PICK b \in Decodings(q.buf[id], new, tb) :
          \/ out = [pool |-> PoolWith(q, id, b), stats |-> Outcome(b)]
          \/ out = [pool |-> PoolWithout(q, id), stats |-> Outcome(b)]
    BY DEF StepOutcomes
  <2>2. out.pool.buf[x] = b
    BY <1>2, <2>1 DEF PoolWithout, Without, PoolWith, With
  <2>3. DOMAIN b.cb = DOMAIN q.buf[id].cb /\ b.soft \subseteq q.buf[id].soft \cup {tb}
    BY <2>1 DEF Decodings, Combined
  <2>4. NCB(q.buf[id]) = n /\ \A u \in q.buf[id].soft : NofCodeblocks[u] = n
    BY ReserveSegmented
  <2>5. NCB(b) = n
    BY <2>3, <2>4 DEF NCB
  <2> QED BY <2>2, <2>3, <2>4, <2>5
<1> QED BY <1>1, <1>2

\* What a call leaves under each key: a pool it found there, a new one, or one that a step
\* or resetCRCS worked on.
LEMMA CallSegmented ==
    ASSUME Inv, NEW o \in Decoders, Call(o), SegmentationMatches
    PROVE  SegmentationMatches'
PROOF
<1> DEFINE Same(k) == k \in DOMAIN storage /\ storage'[k] = storage[k]
           New(k) == \E cfg : storage'[k] = EmptyPool(cfg)
<1>0. \A k \in DOMAIN storage : IsPool(storage[k]) /\ Segmented(storage[k])
  BY DEF Inv, TypeOK, StorageTypeOK, IsStore, SegmentationMatches, Segmented
<1>1. ASSUME NEW cfg, Configure(o, cfg) PROVE \A k \in DOMAIN storage' : Same(k)
  BY <1>1 DEF Configure
<1>2. ASSUME Setup(o) PROVE \A k \in DOMAIN storage' : Same(k) \/ New(k)
  BY <1>2 DEF Setup, MexNew, MexRelease, With, Without
<1>3. ASSUME NEW id \in BufIds, NEW new \in BOOLEAN, NEW tb \in Blocks, NEW n \in 1..MaxNCB,
             Step(o, id, new, tb, n)
      PROVE  \A k \in DOMAIN storage' : Same(k) \/ Segmented(storage'[k])
  <2>1. CASE UNCHANGED storage
    BY <2>1
  <2>2. CASE ~UNCHANGED storage
    <3>1. n = NofCodeblocks[tb] /\ KnownKey(o)
      BY <1>3, <2>2 DEF Step
    <3>2. PICK out \in StepOutcomes(storage[poolID[o]], id, new, tb, n) :
            storage' = [storage EXCEPT ![poolID[o]] = out.pool]
      BY <1>3, <2>2 DEF Step
    <3>3. Segmented(out.pool)
      BY <1>0, <3>1, StepSegmented DEF KnownKey
    <3> QED BY <3>2, <3>3
  <2> QED BY <2>1, <2>2
<1>4. ASSUME NEW id \in BufIds, NEW n \in 1..MaxNCB, ResetCRCs(o, id, n)
      PROVE  \A k \in DOMAIN storage' : Same(k) \/ Segmented(storage'[k])
  <2>1. CASE UNCHANGED storage
    BY <2>1
  <2>2. CASE ~UNCHANGED storage
    <3>1. KnownKey(o)
      BY <1>4, <2>2 DEF ResetCRCs
    <3>2. storage' = [storage EXCEPT ![poolID[o]] = ClearFlags(@, id, n)]
      BY <1>4, <2>2 DEF ResetCRCs
    <3>3. Segmented(ClearFlags(storage[poolID[o]], id, n))
      BY <1>0, <3>1, ClearFlagsSegmented DEF KnownKey
    <3> QED BY <3>2, <3>3
  <2> QED BY <2>1, <2>2
<1>5. ASSUME Reset(o) \/ Release(o) PROVE \A k \in DOMAIN storage' : Same(k) \/ New(k)
  BY <1>5 DEF Reset, Release, MexNew, MexRelease, With, Without
<1>6. ASSUME NEW src \in Decoders \ {o}, Load(o, src)
      PROVE  \A k \in DOMAIN storage' : Same(k) \/ New(k)
  BY <1>6 DEF Load, MexNew, With
<1>7. \A k \in DOMAIN storage' : Same(k) \/ New(k) \/ Segmented(storage'[k])
  BY <1>1, <1>2, <1>3, <1>4, <1>5, <1>6 DEF Call
<1>8. ASSUME NEW cfg PROVE Segmented(EmptyPool(cfg))
  BY DEF EmptyPool, Segmented
<1>9. \A k \in DOMAIN storage' : Segmented(storage'[k])
  BY <1>0, <1>7, <1>8
<1> QED BY <1>9 DEF Segmented, SegmentationMatches

\* Blocks of different segmentations never meet in a softbuffer, although resetCRCS may be
\* called with any number of codeblocks and identifiers are used again.
THEOREM BuffersMatchSegmentation == Spec => []SegmentationMatches
PROOF
<1>1. Init => SegmentationMatches
  BY DEF Init, SegmentationMatches
<1>2. Inv /\ SegmentationMatches /\ [Next]_vars => SegmentationMatches'
  <2>1. ASSUME SegmentationMatches, UNCHANGED vars PROVE SegmentationMatches'
    BY <2>1 DEF vars, SegmentationMatches
  <2> QED BY <2>1, CallSegmented DEF Next
<1> QED BY <1>1, <1>2, InvHolds, PTL DEF Spec

-----------------------------------------------------------------------------
(***************************************************************************)
(* Each object behaves as if it had a decoder of its own.                  *)
(***************************************************************************)

\* The pool of a locked object, seen through the refinement mapping.
LEMMA OwnPoolOf ==
    ASSUME Inv, NEW o \in Decoders
    PROVE  OwnPool[o] = IF locked[o] THEN storage[poolID[o]] ELSE NoPool
  BY DEF OwnPool, Inv, LockedHasPool, KnownKey

\* A call on o that leaves the keys and pools of all other objects alone is, for
\* the abstract objects, an assignment to the pool of o.
LEMMA OwnPoolStep ==
    ASSUME Inv, Inv', NEW o \in Decoders,
           \A x \in Decoders \ {o} :
                /\ locked'[x] = locked[x]
                /\ locked[x] => storage'[poolID'[x]] = storage[poolID[x]]
    PROVE  OwnPool' = [OwnPool EXCEPT ![o] =
                          IF locked'[o] THEN storage'[poolID'[o]] ELSE NoPool]
  <1>1. \A x \in Decoders :
            /\ locked[x] => KnownKey(x)
            /\ locked'[x] => KnownKey(x)'
    BY DEF Inv, LockedHasPool, KnownKey
  <1> QED  BY <1>1 DEF OwnPool

\* Keys of other objects are not the key of o.
LEMMA OtherKeys ==
    ASSUME Inv, NEW o \in Decoders, NEW x \in Decoders \ {o}, locked[x]
    PROVE  poolID[x] \in DOMAIN storage /\ poolID[x] # poolID[o]
  BY KeysAssumption
  DEF Inv, TypeOK, StorageTypeOK, IsStore, LockedHasPool, ExclusivePools

\* Setting properties implements its namesake of the abstract decoder.
LEMMA ConfigureRefines ==
    ASSUME Inv, NEW o \in Decoders, NEW cfg \in UserConfigs, Configure(o, cfg)
    PROVE  Private!Configure(o, cfg)
  BY DEF Configure, Private!Configure, OwnPool, KnownKey, Reply, Private!Reply

\* So does setup: the new pool is the own pool of the object.
LEMMA SetupRefines ==
    ASSUME Inv, Inv', NEW o \in Decoders, Setup(o)
    PROVE  Private!Setup(o)
  <1>1. PICK k \in Keys \ DOMAIN storage :
            /\ storage' = With(storage, k, EmptyPool(config[o]))
            /\ poolID' = [poolID EXCEPT ![o] = k]
    BY SetupStore DEF Inv, TypeOK, StorageTypeOK, Setup, MexNew, MexRelease, FreeKeys
  <1>2. locked' = [locked EXCEPT ![o] = TRUE] /\ UNCHANGED config
    BY DEF Setup
  <1>3. storage'[poolID'[o]] = EmptyPool(config[o])
    BY <1>1 DEF With, Inv, TypeOK, ObjectsTypeOK
  <1>4. \A x \in Decoders \ {o} :
            /\ locked'[x] = locked[x]
            /\ locked[x] => storage'[poolID'[x]] = storage[poolID[x]]
    BY <1>1, <1>2, OtherKeys DEF With, Inv, TypeOK, ObjectsTypeOK
  <1>5. OwnPool' = [OwnPool EXCEPT ![o] = EmptyPool(config[o])]
    BY <1>2, <1>3, <1>4, OwnPoolStep DEF Inv, TypeOK, ObjectsTypeOK
  <1> QED  BY <1>2, <1>5 DEF Setup, Private!Setup, Reply, Private!Reply

\* step works on the own pool of the object.
LEMMA StepRefines ==
    ASSUME Inv, Inv', NEW o \in Decoders, NEW id \in BufIds, NEW new \in BOOLEAN,
           NEW tb \in Blocks, NEW n \in 1..MaxNCB, Step(o, id, new, tb, n)
    PROVE  Private!Step(o, id, new, tb, n)
  <1>1. locked[o] /\ KnownKey(o) /\ OwnPool[o] = storage[poolID[o]]
    BY OwnPoolOf DEF Inv, LockedHasPool, Step, KnownKey
  <1>2. UNCHANGED <<locked, config, poolID>>
    BY DEF Step
  <1>3. UNCHANGED storage => UNCHANGED OwnPool
    BY <1>2 DEF OwnPool, KnownKey
  <1>4. ASSUME NEW out \in StepOutcomes(storage[poolID[o]], id, new, tb, n),
               storage' = [storage EXCEPT ![poolID[o]] = out.pool]
        PROVE  OwnPool' = [OwnPool EXCEPT ![o] = out.pool]
    <2>1. storage'[poolID'[o]] = out.pool
      BY <1>1, <1>2, <1>4 DEF KnownKey
    <2>2. \A x \in Decoders \ {o} :
              /\ locked'[x] = locked[x]
              /\ locked[x] => storage'[poolID'[x]] = storage[poolID[x]]
      BY <1>2, <1>4, OtherKeys
    <2> QED  BY <1>1, <1>2, <2>1, <2>2, OwnPoolStep
  <1>5. CASE n # NofCodeblocks[tb]
    BY <1>1, <1>2, <1>3, <1>5 DEF Step, Private!Step, Reply, Private!Reply
  <1>6. CASE n = NofCodeblocks[tb] /\ ~CanReserve(OwnPool[o], id, n)
    BY <1>1, <1>2, <1>3, <1>6
    DEF Step, Private!Step, Reply, Private!Reply, SoftbufferValid
  <1>7. CASE n = NofCodeblocks[tb] /\ CanReserve(OwnPool[o], id, n)
    <2>1. PICK out \in StepOutcomes(storage[poolID[o]], id, new, tb, n) :
              /\ storage' = [storage EXCEPT ![poolID[o]] = out.pool]
              /\ reply' = StatsReply(o, out.stats)
      BY <1>1, <1>7 DEF Step, SoftbufferValid
    <2>2. OwnPool' = [OwnPool EXCEPT ![o] = out.pool]
      BY <1>4, <2>1
    <2>3. reply' = Private!StatsReply(o, out.stats)
      BY <2>1 DEF StatsReply, Private!StatsReply
    <2> QED  BY <1>1, <1>2, <1>7, <2>1, <2>2, <2>3 DEF Private!Step
  <1> QED  BY <1>5, <1>6, <1>7

\* So does resetCRCS.
LEMMA ResetCRCsRefines ==
    ASSUME Inv, Inv', NEW o \in Decoders, NEW id \in BufIds, NEW n \in 1..MaxNCB,
           ResetCRCs(o, id, n)
    PROVE  Private!ResetCRCs(o, id, n)
  <1>1. UNCHANGED <<locked, config, poolID>>
    BY DEF ResetCRCs
  <1>2. UNCHANGED storage => UNCHANGED OwnPool
    BY <1>1 DEF OwnPool, KnownKey
  <1>3. CASE ~locked[o]
    BY <1>1, <1>2, <1>3 DEF ResetCRCs, Private!ResetCRCs, Reply, Private!Reply
  <1>4. CASE locked[o]
    <2>1. KnownKey(o) /\ OwnPool[o] = storage[poolID[o]]
      BY <1>4, OwnPoolOf DEF Inv, LockedHasPool, KnownKey
    <2>2. CASE ~CanReserve(OwnPool[o], id, n)
      BY <1>1, <1>2, <1>4, <2>1, <2>2
      DEF ResetCRCs, Private!ResetCRCs, Reply, Private!Reply, SoftbufferValid
    <2>3. CASE CanReserve(OwnPool[o], id, n)
      <3>1. /\ storage' = [storage EXCEPT ![poolID[o]] = ClearFlags(OwnPool[o], id, n)]
            /\ reply' = Reply(o, "resetCRCS", "done")
        BY <1>4, <2>1, <2>3 DEF ResetCRCs, SoftbufferValid
      <3>2. storage'[poolID'[o]] = ClearFlags(OwnPool[o], id, n)
        BY <1>1, <2>1, <3>1 DEF KnownKey
      <3>3. \A x \in Decoders \ {o} :
                /\ locked'[x] = locked[x]
                /\ locked[x] => storage'[poolID'[x]] = storage[poolID[x]]
        BY <1>1, <3>1, OtherKeys
      <3>4. OwnPool' = [OwnPool EXCEPT ![o] = ClearFlags(OwnPool[o], id, n)]
        BY <1>1, <1>4, <3>2, <3>3, OwnPoolStep
      <3> QED  BY <1>1, <1>4, <2>3, <3>1, <3>4
               DEF Private!ResetCRCs, Reply, Private!Reply
    <2> QED  BY <2>2, <2>3
  <1> QED  BY <1>3, <1>4

\* reset gives the object an empty own pool.
LEMMA ResetRefines ==
    ASSUME Inv, Inv', NEW o \in Decoders, Reset(o)
    PROVE  Private!Reset(o)
  <1>1. CASE ~locked[o]
    <2>1. UNCHANGED <<locked, config, poolID, storage>>
      BY <1>1 DEF Reset
    <2>2. UNCHANGED OwnPool
      BY <2>1 DEF OwnPool, KnownKey
    <2> QED  BY <1>1, <2>1, <2>2 DEF Reset, Private!Reset, Reply, Private!Reply
  <1>2. CASE locked[o]
    <2>1. poolID[o] # 0 /\ KnownKey(o)
      BY <1>2, KeysAssumption
      DEF Inv, TypeOK, StorageTypeOK, IsStore, LockedHasPool, KnownKey
    <2>2. PICK k \in FreeKeys(Without(storage, poolID[o])) :
              /\ storage' = With(Without(storage, poolID[o]), k, EmptyPool(config[o]))
              /\ poolID' = [poolID EXCEPT ![o] = k]
      BY <1>2, <2>1 DEF Reset, MexNew, MexRelease
    <2>3. UNCHANGED <<locked, config>> /\ reply' = Reply(o, "reset", "done")
      BY <1>2, <2>1 DEF Reset
    <2>4. storage'[poolID'[o]] = EmptyPool(config[o])
      BY <2>2 DEF With, Inv, TypeOK, ObjectsTypeOK
    <2>5. \A x \in Decoders \ {o} :
              /\ locked'[x] = locked[x]
              /\ locked[x] => storage'[poolID'[x]] = storage[poolID[x]]
      BY <2>2, <2>3, OtherKeys DEF FreeKeys, With, Without, Inv, TypeOK, ObjectsTypeOK
    <2>6. OwnPool' = [OwnPool EXCEPT ![o] = EmptyPool(config[o])]
      BY <1>2, <2>3, <2>4, <2>5, OwnPoolStep
    <2> QED  BY <1>2, <2>3, <2>6 DEF Private!Reset, Reply, Private!Reply
  <1> QED  BY <1>1, <1>2

\* release takes the own pool of one object.
LEMMA ReleaseRefines ==
    ASSUME Inv, Inv', NEW o \in Decoders, Release(o)
    PROVE  Private!Release(o)
  <1>1. /\ locked' = [locked EXCEPT ![o] = FALSE]
        /\ UNCHANGED config
        /\ reply' = Reply(o, "release", "done")
        /\ \/ UNCHANGED <<poolID, storage>>
           \/ /\ storage' = Without(storage, poolID[o])
              /\ poolID' = [poolID EXCEPT ![o] = 0]
    BY DEF Inv, LockedHasPool, KnownKey, Release, MexRelease
  <1>2. \A x \in Decoders \ {o} :
            /\ locked'[x] = locked[x]
            /\ locked[x] => storage'[poolID'[x]] = storage[poolID[x]]
    BY <1>1, OtherKeys DEF Without, Inv, TypeOK, ObjectsTypeOK
  <1>3. OwnPool' = [OwnPool EXCEPT ![o] = NoPool]
    BY <1>1, <1>2, OwnPoolStep DEF Inv, TypeOK, ObjectsTypeOK
  <1> QED  BY <1>1, <1>3 DEF Private!Release, Reply, Private!Reply

\* Loading gives one object an empty own pool.
LEMMA LoadRefines ==
    ASSUME Inv, Inv', NEW o \in Decoders, NEW src \in Decoders \ {o}, Load(o, src)
    PROVE  Private!Load(o, src)
  <1>1. /\ ~locked[o]
        /\ config' = [config EXCEPT ![o] = config[src]]
        /\ locked' = [locked EXCEPT ![o] = locked[src]]
        /\ reply' = Reply(o, "load", "done")
    BY DEF Load
  <1>2. CASE locked[src]
    <2>1. PICK k \in Keys \ DOMAIN storage :
              /\ storage' = With(storage, k, EmptyPool(config[src]))
              /\ poolID' = [poolID EXCEPT ![o] = k]
      BY <1>2 DEF Load, MexNew, FreeKeys
    <2>2. locked'[o] /\ storage'[poolID'[o]] = EmptyPool(config[src])
      BY <1>1, <1>2, <2>1 DEF With, Inv, TypeOK, ObjectsTypeOK
    <2>3. \A x \in Decoders \ {o} :
              /\ locked'[x] = locked[x]
              /\ locked[x] => storage'[poolID'[x]] = storage[poolID[x]]
      BY <1>1, <2>1, OtherKeys DEF With, Inv, TypeOK, ObjectsTypeOK
    <2>4. OwnPool' = [OwnPool EXCEPT ![o] = EmptyPool(config[src])]
      BY <2>2, <2>3, OwnPoolStep
    <2> QED  BY <1>1, <1>2, <2>4 DEF Private!Load, Reply, Private!Reply
  <1>3. CASE ~locked[src]
    <2>1. UNCHANGED <<storage, poolID>>
      BY <1>3 DEF Load
    <2>2. ~locked'[o]
      BY <1>1, <1>3 DEF Inv, TypeOK, ObjectsTypeOK
    <2>3. \A x \in Decoders \ {o} :
              /\ locked'[x] = locked[x]
              /\ locked[x] => storage'[poolID'[x]] = storage[poolID[x]]
      BY <1>1, <2>1 DEF Inv, TypeOK, ObjectsTypeOK
    <2>4. OwnPool' = [OwnPool EXCEPT ![o] = NoPool]
      BY <2>2, <2>3, OwnPoolStep
    <2> QED  BY <1>1, <1>3, <2>4 DEF Private!Load, Reply, Private!Reply
  <1> QED  BY <1>2, <1>3

\* Users of a decoder object cannot tell that all objects share one MEX
\* function: each call is the same call on a decoder with a pool of its own.
THEOREM DecodersAreIsolated == Spec => Isolation
  <1>1. Init => Private!Init
    BY DEF Init, Private!Init, OwnPool, Reply, Private!Reply
  <1>2. Inv /\ Inv' /\ [Next]_vars => [Private!Next]_(Private!vars)
    <2> SUFFICES ASSUME Inv, Inv', [Next]_vars PROVE [Private!Next]_(Private!vars)
      OBVIOUS
    <2>1. CASE UNCHANGED vars
      BY <2>1 DEF vars, Private!vars, OwnPool, KnownKey
    <2>2. ASSUME NEW o \in Decoders, Call(o) PROVE Private!Next
      BY <2>2, ConfigureRefines, SetupRefines, StepRefines, ResetCRCsRefines,
         ResetRefines, ReleaseRefines, LoadRefines
      DEF Call, Private!Next
    <2> QED  BY <2>1, <2>2 DEF Next
  <1> QED  BY <1>1, <1>2, InvHolds, PTL DEF Spec, Isolation, Private!Spec

-----------------------------------------------------------------------------
(***************************************************************************)
(* Nothing leaks, whatever fails.                                          *)
(***************************************************************************)

\* The inductive invariant of the session where calls fail midway and the MEX
\* function is cleared: only the keys' types and the owners of the pools.
FaultyInv == ObjectsTypeOK /\ DOMAIN storage \subseteq Keys /\ NoLeak

\* A call that changes only the pools' contents keeps the invariant.
LEMMA SameOwners ==
    ASSUME FaultyInv, UNCHANGED <<locked, poolID>>, config' \in [Decoders -> UserConfigs],
           DOMAIN storage' \subseteq DOMAIN storage
    PROVE  FaultyInv'
  BY DEF FaultyInv, ObjectsTypeOK, NoLeak

\* An unlocked object owns nothing: it may take any key and lock.
LEMMA NewOwner ==
    ASSUME FaultyInv, NEW o \in Decoders, ~locked[o], NEW k \in Keys \cup {0},
           NEW l \in BOOLEAN, poolID' = [poolID EXCEPT ![o] = k],
           locked' = [locked EXCEPT ![o] = l], config' \in [Decoders -> UserConfigs],
           DOMAIN storage' \subseteq DOMAIN storage \cup (IF l THEN {k} \cap Keys ELSE {})
    PROVE  FaultyInv'
  BY DEF FaultyInv, ObjectsTypeOK, NoLeak

\* An object that gives up its pool owns nothing any more.
LEMMA OldOwner ==
    ASSUME FaultyInv, NEW o \in Decoders, NEW k \in Keys \cup {0}, NEW l \in BOOLEAN,
           poolID' = [poolID EXCEPT ![o] = k],
           locked' = [locked EXCEPT ![o] = l], UNCHANGED config,
           DOMAIN storage' \subseteq (DOMAIN storage \ {poolID[o]})
                                    \cup (IF l THEN {k} \cap Keys ELSE {})
    PROVE  FaultyInv'
  BY DEF FaultyInv, ObjectsTypeOK, NoLeak

\* Every call, also one that fails half way, preserves the weaker invariant.
LEMMA FaultyStep ==
    ASSUME FaultyInv, NEW o \in Decoders, Call(o) \/ SetupFails(o) \/ ResetFails(o)
    PROVE  FaultyInv'
  <1>1. ASSUME NEW cfg \in UserConfigs, Configure(o, cfg) PROVE FaultyInv'
    BY <1>1, SameOwners DEF Configure, FaultyInv, ObjectsTypeOK
  <1>2. CASE Setup(o)
    <2>1. PICK k \in Keys : /\ DOMAIN storage' \subseteq DOMAIN storage \cup {k}
                            /\ poolID' = [poolID EXCEPT ![o] = k]
      BY <1>2 DEF Setup, MexNew, MexRelease, FreeKeys, With, Without
    <2> QED  BY <1>2, <2>1, NewOwner DEF Setup, FaultyInv, ObjectsTypeOK
  <1>3. ASSUME NEW id \in BufIds, NEW new \in BOOLEAN, NEW tb \in Blocks,
               NEW n \in 1..MaxNCB, Step(o, id, new, tb, n)
        PROVE  FaultyInv'
    <2>1. DOMAIN storage' \subseteq DOMAIN storage
      BY <1>3 DEF Step
    <2> QED  BY <1>3, <2>1, SameOwners DEF Step, FaultyInv, ObjectsTypeOK
  <1>4. ASSUME NEW id \in BufIds, NEW n \in 1..MaxNCB, ResetCRCs(o, id, n)
        PROVE  FaultyInv'
    <2>1. DOMAIN storage' \subseteq DOMAIN storage
      BY <1>4 DEF ResetCRCs
    <2> QED  BY <1>4, <2>1, SameOwners DEF ResetCRCs, FaultyInv, ObjectsTypeOK
  <1>5. CASE Reset(o)
    <2>1. CASE UNCHANGED <<poolID, storage>>
      BY <1>5, <2>1, SameOwners DEF Reset, FaultyInv, ObjectsTypeOK
    <2>2. CASE ~UNCHANGED <<poolID, storage>>
      <3>1. PICK k \in Keys :
                /\ DOMAIN storage' \subseteq (DOMAIN storage \ {poolID[o]}) \cup {k}
                /\ poolID' = [poolID EXCEPT ![o] = k]
        BY <1>5, <2>2 DEF Reset, MexNew, MexRelease, FreeKeys, With, Without
      <3>2. locked' = [locked EXCEPT ![o] = TRUE] /\ UNCHANGED config
        BY <1>5, <2>2 DEF Reset, FaultyInv, ObjectsTypeOK
      <3> QED  BY <3>1, <3>2, OldOwner
    <2> QED  BY <2>1, <2>2
  <1>6. CASE Release(o)
    <2>1. CASE UNCHANGED <<locked, poolID, storage>>
      BY <1>6, <2>1, SameOwners DEF Release, FaultyInv, ObjectsTypeOK
    <2>2. CASE /\ locked' = [locked EXCEPT ![o] = FALSE]
               /\ UNCHANGED <<poolID, storage>>
               /\ ~locked[o] \/ poolID[o] = 0
      BY <1>6, <2>2, KeysAssumption DEF Release, FaultyInv, ObjectsTypeOK, NoLeak
    <2>3. CASE /\ DOMAIN storage' \subseteq DOMAIN storage \ {poolID[o]}
               /\ poolID' = [poolID EXCEPT ![o] = 0]
               /\ locked' = [locked EXCEPT ![o] = FALSE]
      BY <1>6, <2>3, OldOwner DEF Release
    <2> QED  BY <1>6, <2>1, <2>2, <2>3 DEF Release, MexRelease, Without
  <1>7. ASSUME NEW src \in Decoders \ {o}, Load(o, src) PROVE FaultyInv'
    <2>1. config' \in [Decoders -> UserConfigs]
      BY <1>7 DEF Load, FaultyInv, ObjectsTypeOK
    <2>2. CASE ~locked[src]
      BY <1>7, <2>1, <2>2 DEF Load, FaultyInv, ObjectsTypeOK, NoLeak
    <2>3. CASE locked[src]
      <3>1. PICK k \in Keys : /\ DOMAIN storage' \subseteq DOMAIN storage \cup {k}
                              /\ poolID' = [poolID EXCEPT ![o] = k]
        BY <1>7, <2>3 DEF Load, MexNew, FreeKeys, With
      <3> QED  BY <1>7, <2>1, <2>3, <3>1, NewOwner DEF Load
    <2> QED  BY <2>2, <2>3 DEF FaultyInv, ObjectsTypeOK
  <1>8. CASE SetupFails(o)
    <2>1. CASE UNCHANGED <<poolID, locked>>
      BY <1>8, <2>1, SameOwners DEF SetupFails, FaultyInv, ObjectsTypeOK
    <2>2. CASE \E k \in Keys, l \in BOOLEAN :
                   /\ poolID' = [poolID EXCEPT ![o] = k]
                   /\ locked' = [locked EXCEPT ![o] = l]
      BY <1>8, <2>2, NewOwner DEF SetupFails, FaultyInv, ObjectsTypeOK
    <2> QED  BY <1>8, <2>1, <2>2 DEF SetupFails, FreeKeys
  <1>9. CASE ResetFails(o)
    <2>1. DOMAIN storage' \subseteq DOMAIN storage
      BY <1>9 DEF ResetFails, MexRelease, Without
    <2> QED  BY <1>9, <2>1, SameOwners DEF ResetFails, FaultyInv, ObjectsTypeOK
  <1> QED  BY <1>1, <1>2, <1>3, <1>4, <1>5, <1>6, <1>7, <1>8, <1>9 DEF Call

\* Every pool in the MEX storage belongs to an object in use, even when setup or
\* reset fail midway and the MEX function is cleared.
THEOREM PoolsDoNotLeak == FaultySpec => []NoLeak
  <1>1. Init => FaultyInv
    BY DEF Init, FaultyInv, ObjectsTypeOK, NoLeak
  <1>2. FaultyInv /\ [FaultyNext]_vars => FaultyInv'
    <2> SUFFICES ASSUME FaultyInv, [FaultyNext]_vars PROVE FaultyInv'
      OBVIOUS
    <2>1. CASE UNCHANGED vars
      BY <2>1 DEF vars, FaultyInv, ObjectsTypeOK, NoLeak
    <2>2. CASE ClearMex
      <3>1. DOMAIN storage' \subseteq DOMAIN storage
        BY <2>2 DEF ClearMex
      <3> QED  BY <2>2, <3>1, SameOwners DEF ClearMex, FaultyInv, ObjectsTypeOK
    <2> QED  BY <2>1, <2>2, FaultyStep DEF FaultyNext, Next
  <1>3. FaultyInv => NoLeak
    BY DEF FaultyInv
  <1> QED  BY <1>1, <1>2, <1>3, PTL DEF FaultySpec
=============================================================================
