-------------------------- MODULE PuschDecoderMex --------------------------
(***************************************************************************)
(* The OCUDU PUSCH decoder as MATLAB users see it: any number of           *)
(* ocuduPUSCHDecoder System objects (ocuduPUSCHDecoder.m) in front of the  *)
(* single MexFunction of pusch_decoder_mex.cpp, which keeps the softbuffer *)
(* pool of every object in one memento_storage (memento.h).  An object     *)
(* holds only a key: the address of its pool.  Once a pool is destroyed    *)
(* the allocator may give its address to the next one.                     *)
(*                                                                         *)
(* MATLAB runs one call at a time, so each call is one action; the calls   *)
(* of different objects interleave freely, and a call that fails midway    *)
(* leaves behind what it had already done.                                 *)
(***************************************************************************)
EXTENDS SoftbufferPool

CONSTANTS
    Decoders,       \* ocuduPUSCHDecoder objects of the MATLAB session.
    UserConfigs,    \* Configurations the users choose from.
    NofCodeblocks,  \* compute_nof_codeblocks(): how a block is segmented.
    Keys            \* Addresses the allocator may return (never null).

ASSUME UserConfigsAssumption == UserConfigs \subseteq Configs
ASSUME NofCodeblocksAssumption == NofCodeblocks \in [Blocks -> 1..MaxNCB]
ASSUME KeysAssumption == 0 \notin Keys

VARIABLES
    locked,         \* [Decoders -> BOOLEAN]: isLocked(obj).
    config,         \* [Decoders -> Configs]: the nontunable properties.
    poolID,         \* [Decoders -> Keys \cup {0}]: SoftbufferPoolID.
    storage,        \* memento_storage: live keys -> pools.
    reply           \* How the last call ended.

vars == <<locked, config, poolID, storage, reply>>

Reply(o, call, end) ==
    [obj |-> o, call |-> call, end |-> end, block |-> NoBlock]

\* The reply of a step that decoded something.
StatsReply(o, stats) ==
    [obj |-> o, call |-> "step", end |-> stats.end, block |-> stats.block]

\* Part 1 of the type invariant: the MATLAB objects.
ObjectsTypeOK ==
    /\ locked \in [Decoders -> BOOLEAN]
    /\ config \in [Decoders -> UserConfigs]
    /\ poolID \in [Decoders -> Keys \cup {0}]

\* Part 2: the mementos.
IsStore(f) ==
    /\ f = [k \in DOMAIN f |-> f[k]]
    /\ DOMAIN f \subseteq Keys
    /\ \A k \in DOMAIN f : IsPool(f[k])

StorageTypeOK == IsStore(storage)

\* Part 3: the replies.
ReplyTypeOK ==
    reply \in [obj : Decoders,
               call : {"configure", "setup", "step", "resetCRCS",
                       "reset", "release", "load"},
               end : {"done", "decoded", "missed",
                      "full", "rejected", "nopool", "failed"},
               block : Blocks \cup {NoBlock}]

\* The types of the MATLAB properties, of the MEX storage and of the replies.
TypeOK == ObjectsTypeOK /\ StorageTypeOK /\ ReplyTypeOK

Init ==
    /\ locked = [o \in Decoders |-> FALSE]
    /\ config \in [Decoders -> UserConfigs]
    /\ poolID = [o \in Decoders |-> 0]
    /\ storage = [k \in {} |-> EmptyPool(CHOOSE c \in UserConfigs : TRUE)]
    /\ reply \in {Reply(o, "release", "done") : o \in Decoders}

-----------------------------------------------------------------------------
(***************************************************************************)
(* The methods of the MEX function, as operators on the storage.           *)
(***************************************************************************)

\* Mutant: a null pointer is stored like any other.
FreeKeysNull(store) == (Keys \cup {0}) \ DOMAIN store

\* Addresses the next pool may get, mementos being those of store.
FreeKeys(store) == Keys \ DOMAIN store

\* method_new: a new pool in the storage, under its address.
MexNew(store, k, cfg) == With(store, k, EmptyPool(cfg))

\* Mutant: the whole storage is cleared.
MexReleaseAll(store, k) == [x \in {} |-> store[k]]

\* method_release when it does not abort.
MexRelease(store, k) == Without(store, k)

\* retrieve_softbuffer aborts when the key is unknown ...
KnownKey(o) == poolID[o] \in DOMAIN storage

\* ... or when the pool has no room.
SoftbufferValid(o, id, n) == CanReserve(storage[poolID[o]], id, n)

-----------------------------------------------------------------------------
(***************************************************************************)
(* The methods of the System objects.                                      *)
(***************************************************************************)

\* Mutant: the properties are tunable.
ConfigureTunable(o, cfg) ==
    /\ config' = [config EXCEPT ![o] = cfg]
    /\ reply' = Reply(o, "configure", "done")
    /\ UNCHANGED <<locked, poolID, storage>>

\* Nontunable properties can be set (also by configure()) on unlocked objects.
Configure(o, cfg) ==
    /\ ~locked[o]
    /\ config' = [config EXCEPT ![o] = cfg]
    /\ reply' = Reply(o, "configure", "done")
    /\ UNCHANGED <<locked, poolID, storage>>

\* setup(obj), explicit or by the first step: setupImpl stores the key of a new
\* pool, then resetImpl releases that pool and calls setupImpl again.
Setup(o) ==
    /\ ~locked[o]
    /\ \E first \in FreeKeys(storage) :
         LET once == MexNew(storage, first, config[o])
             released == MexRelease(once, first)
         IN  \E k \in FreeKeys(released) :
                /\ storage' = MexNew(released, k, config[o])
                /\ poolID' = [poolID EXCEPT ![o] = k]
    /\ locked' = [locked EXCEPT ![o] = TRUE]
    /\ reply' = Reply(o, "setup", "done")
    /\ UNCHANGED config

\* Mutant: the number of codeblocks of a step is not compared with the segmentation.
StepUnchecked(o, id, new, tb, n) ==
    /\ locked[o] /\ KnownKey(o)
    /\ SoftbufferValid(o, id, n)
    /\ \E out \in StepOutcomes(storage[poolID[o]], id, new, tb, n) :
          /\ storage' = [storage EXCEPT ![poolID[o]] = out.pool]
          /\ reply' = StatsReply(o, out.stats)
    /\ UNCHANGED <<locked, config, poolID>>

\* stepImpl of a locked object and method_step.
Step(o, id, new, tb, n) ==
    /\ locked[o]
    /\ \/ /\ n # NofCodeblocks[tb]
          /\ reply' = Reply(o, "step", "rejected")
          /\ UNCHANGED storage
       \/ /\ n = NofCodeblocks[tb]
          /\ ~KnownKey(o)
          /\ reply' = Reply(o, "step", "nopool")
          /\ UNCHANGED storage
       \/ /\ n = NofCodeblocks[tb]
          /\ KnownKey(o)
          /\ ~SoftbufferValid(o, id, n)
          /\ reply' = Reply(o, "step", "full")
          /\ UNCHANGED storage
       \/ /\ n = NofCodeblocks[tb]
          /\ KnownKey(o)
          /\ SoftbufferValid(o, id, n)
          /\ \E out \in StepOutcomes(storage[poolID[o]], id, new, tb, n) :
                /\ storage' = [storage EXCEPT ![poolID[o]] = out.pool]
                /\ reply' = StatsReply(o, out.stats)
    /\ UNCHANGED <<locked, config, poolID>>

\* resetCRCS and method_reset_crcs.
ResetCRCs(o, id, n) ==
    /\ \/ /\ ~locked[o]
          /\ reply' = Reply(o, "resetCRCS", "done")
          /\ UNCHANGED storage
       \/ /\ locked[o]
          /\ ~KnownKey(o)
          /\ reply' = Reply(o, "resetCRCS", "nopool")
          /\ UNCHANGED storage
       \/ /\ locked[o]
          /\ KnownKey(o)
          /\ ~SoftbufferValid(o, id, n)
          /\ reply' = Reply(o, "resetCRCS", "full")
          /\ UNCHANGED storage
       \/ /\ locked[o]
          /\ KnownKey(o)
          /\ SoftbufferValid(o, id, n)
          /\ storage' = [storage EXCEPT ![poolID[o]] = ClearFlags(@, id, n)]
          /\ reply' = Reply(o, "resetCRCS", "done")
    /\ UNCHANGED <<locked, config, poolID>>

\* Mutant: the pool is released and no new one created.
ResetReleasesOnly(o) ==
    /\ locked[o] /\ KnownKey(o)
    /\ storage' = MexRelease(storage, poolID[o])
    /\ reply' = Reply(o, "reset", "done")
    /\ UNCHANGED <<locked, config, poolID>>

\* reset(obj), which calls resetImpl if the object is locked: releases the pool,
\* then setupImpl.
Reset(o) ==
    /\ \/ /\ ~locked[o] \/ poolID[o] = 0
          /\ reply' = Reply(o, "reset", "done")
          /\ UNCHANGED <<poolID, storage>>
       \/ /\ locked[o] /\ poolID[o] # 0
          /\ ~KnownKey(o)
          /\ reply' = Reply(o, "reset", "nopool")
          /\ UNCHANGED <<poolID, storage>>
       \/ /\ locked[o] /\ poolID[o] # 0
          /\ KnownKey(o)
          /\ LET released == MexRelease(storage, poolID[o])
             IN  \E k \in FreeKeys(released) :
                    /\ storage' = MexNew(released, k, config[o])
                    /\ poolID' = [poolID EXCEPT ![o] = k]
          /\ reply' = Reply(o, "reset", "done")
    /\ UNCHANGED <<locked, config>>

\* Mutant: the key is not set to zero.
ReleaseKeepsKey(o) ==
    /\ locked[o] /\ KnownKey(o)
    /\ storage' = MexRelease(storage, poolID[o])
    /\ locked' = [locked EXCEPT ![o] = FALSE]
    /\ reply' = Reply(o, "release", "done")
    /\ UNCHANGED <<config, poolID>>

\* Mutant: the key is forgotten, the pool is not released.
ReleaseKeepsPool(o) ==
    /\ locked[o]
    /\ poolID' = [poolID EXCEPT ![o] = 0]
    /\ locked' = [locked EXCEPT ![o] = FALSE]
    /\ reply' = Reply(o, "release", "done")
    /\ UNCHANGED <<config, storage>>

\* release(obj), which calls releaseImpl if the object is locked.  When
\* method_release aborts, SoftbufferPoolID keeps its value and the object stays
\* locked.
Release(o) ==
    /\ \/ /\ ~locked[o] \/ poolID[o] = 0
          /\ locked' = [locked EXCEPT ![o] = FALSE]
          /\ reply' = Reply(o, "release", "done")
          /\ UNCHANGED <<poolID, storage>>
       \/ /\ locked[o] /\ poolID[o] # 0
          /\ ~KnownKey(o)
          /\ reply' = Reply(o, "release", "nopool")
          /\ UNCHANGED <<locked, poolID, storage>>
       \/ /\ locked[o] /\ poolID[o] # 0
          /\ KnownKey(o)
          /\ storage' = MexRelease(storage, poolID[o])
          /\ poolID' = [poolID EXCEPT ![o] = 0]
          /\ locked' = [locked EXCEPT ![o] = FALSE]
          /\ reply' = Reply(o, "release", "done")
    /\ UNCHANGED config

\* Mutant: the key is saved and loaded with the other properties.
LoadSharesKey(o, src) ==
    /\ ~locked[o]
    /\ config' = [config EXCEPT ![o] = config[src]]
    /\ locked' = [locked EXCEPT ![o] = locked[src]]
    /\ poolID' = [poolID EXCEPT ![o] = poolID[src]]
    /\ reply' = Reply(o, "load", "done")
    /\ UNCHANGED storage

\* loadObjectImpl: object o, fresh, is loaded (or cloned) from src.  The key of
\* src is not saved; an object saved in use gets a pool of its own.
Load(o, src) ==
    /\ ~locked[o]
    /\ poolID[o] = 0
    /\ config' = [config EXCEPT ![o] = config[src]]
    /\ locked' = [locked EXCEPT ![o] = locked[src]]
    /\ IF locked[src]
       THEN \E k \in FreeKeys(storage) :
                /\ storage' = MexNew(storage, k, config[src])
                /\ poolID' = [poolID EXCEPT ![o] = k]
       ELSE UNCHANGED <<storage, poolID>>
    /\ reply' = Reply(o, "load", "done")

-----------------------------------------------------------------------------
(***************************************************************************)
(* Calls that fail midway, and the end of the MEX function.                *)
(***************************************************************************)

\* The pool cannot be allocated: method_new aborts and stores nothing.  In
\* setup() either call of setupImpl may be the one that fails; the second leaves
\* the key of the first pool, and MATLAB may or may not leave the object locked.
SetupFails(o) ==
    /\ ~locked[o]
    /\ \/ UNCHANGED <<poolID, locked>>
       \/ /\ \E first \in FreeKeys(storage) : poolID' = [poolID EXCEPT ![o] = first]
          /\ \E l \in BOOLEAN : locked' = [locked EXCEPT ![o] = l]
    /\ reply' = Reply(o, "setup", "failed")
    /\ UNCHANGED <<config, storage>>

\* resetImpl releases the pool and then fails to create the new one: the
\* object keeps the key of the pool that is gone.
ResetFails(o) ==
    /\ locked[o] /\ poolID[o] # 0
    /\ KnownKey(o)
    /\ storage' = MexRelease(storage, poolID[o])
    /\ reply' = Reply(o, "reset", "failed")
    /\ UNCHANGED <<locked, config, poolID>>

\* "clear mex" (or "clear all"): MexFunction is destroyed with its storage; the
\* next call creates a new one.  The System objects are not told.
ClearMex ==
    /\ storage # [k \in {} |-> 0]
    /\ storage' = [k \in {} |-> 0]
    /\ UNCHANGED <<locked, config, poolID, reply>>

-----------------------------------------------------------------------------
Call(o) ==
    \/ \E cfg \in UserConfigs : Configure(o, cfg)
    \/ Setup(o)
    \/ \E id \in BufIds, new \in BOOLEAN, tb \in Blocks, n \in 1..MaxNCB :
            Step(o, id, new, tb, n)
    \/ \E id \in BufIds, n \in 1..MaxNCB : ResetCRCs(o, id, n)
    \/ Reset(o)
    \/ Release(o)
    \/ \E src \in Decoders \ {o} : Load(o, src)

Next == \E o \in Decoders : Call(o)

\* The session as it is meant to run: memory is not exhausted and nobody
\* clears the MEX function under the objects.
Spec == Init /\ [][Next]_vars

FaultyNext ==
    \/ Next
    \/ \E o \in Decoders : SetupFails(o) \/ ResetFails(o)
    \/ ClearMex

\* The same with everything that may go wrong.
FaultySpec == Init /\ [][FaultyNext]_vars

-----------------------------------------------------------------------------
(***************************************************************************)
(* Properties.                                                             *)
(***************************************************************************)

\* A key identifies the pool of one object: no two objects ever work on the
\* same pool, whatever addresses the allocator reuses (SoftbufferPoolID is
\* "Unique identifier of the softbuffer pool used by the current decoder").
ExclusivePools ==
    \A a, b \in Decoders : a # b => poolID[a] # poolID[b] \/ poolID[a] = 0

\* An object has a live pool exactly as long as it is locked, so no call of a
\* locked object aborts for want of a pool, and none leaves a key behind.
LockedHasPool ==
    \A o \in Decoders : IF locked[o] THEN poolID[o] \in DOMAIN storage
                                     ELSE poolID[o] = 0

\* No call ever fails because the MEX does not know the object's key.
NoSpuriousAbort == reply.end # "nopool"

\* Every pool in the MEX storage belongs to some object in use: pools, which
\* nothing but method_release frees, do not leak, even when calls fail midway.
NoLeak ==
    \A k \in DOMAIN storage : \E o \in Decoders : locked[o] /\ poolID[o] = k

\* The pool of a locked object was built with the configuration that object
\* shows now: nontunable properties cannot drift from what the MEX uses.
PoolMatchesConfig ==
    \A o \in Decoders : KnownKey(o) => storage[poolID[o]].cfg = config[o]

\* A softbuffer only ever combines blocks that are segmented as the buffer is,
\* even if the same identifier is used for codewords of different sizes.
SegmentationMatches ==
    \A k \in DOMAIN storage :
        \A id \in DOMAIN storage[k].buf :
            LET b == storage[k].buf[id]
            IN  \A tb \in b.soft : NofCodeblocks[tb] = NCB(b)

-----------------------------------------------------------------------------
(***************************************************************************)
(* The abstract decoders: each object owns its pool.                       *)
(***************************************************************************)
CONSTANT NoPool
OwnPool ==
    [o \in Decoders |->
        IF locked[o] /\ KnownKey(o) THEN storage[poolID[o]] ELSE NoPool]

Private == INSTANCE PuschDecoder WITH pool <- OwnPool

\* The objects behave as if each had a decoder of its own: what one does is
\* never visible through another.
Isolation == Private!Spec
=============================================================================
