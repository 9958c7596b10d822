---------------------------- MODULE PuschDecoder ----------------------------
(***************************************************************************)
(* What the class help of ocuduPUSCHDecoder promises to its users, with no *)
(* MEX behind it: every decoder object owns its softbuffer pool.  The      *)
(* objects are independent; no call on one of them can be observed through *)
(* another.  PuschDecoderMex implements this specification.                *)
(***************************************************************************)
EXTENDS Naturals

CONSTANTS
    Decoders,       \* ocuduPUSCHDecoder objects.
    UserConfigs,    \* Configurations the users choose from.
    BufIds,         \* Softbuffer identifiers.
    Blocks,         \* Transport blocks.
    NoBlock,        \* No transport block.
    MaxNCB,         \* Largest number of codeblocks of a block.
    NofCodeblocks,  \* compute_nof_codeblocks(): how a block is segmented.
    NoPool          \* An object that has no pool.

\* The pools, of which the objects know nothing else.
CONSTANTS
    EmptyPool(_),               \* cfg: a new pool.
    CanReserve(_, _, _),        \* pool, id, n: a softbuffer can be retrieved.
    ClearFlags(_, _, _),        \* pool, id, n: the pool with CRC flags reset.
    StepOutcomes(_, _, _, _, _) \* pool, id, new data, block, n: ways to decode.

VARIABLES
    locked,         \* [Decoders -> BOOLEAN]: isLocked(obj).
    config,         \* [Decoders -> Configs]: the nontunable properties.
    pool,           \* [Decoders -> pools and NoPool]: the object's own pool.
    reply           \* How the last call ended.

vars == <<locked, config, pool, reply>>

\* The reply of a call on o: "done" for calls without outputs, "decoded" or
\* "missed" for step, "full" if no softbuffer could be retrieved, "rejected" if
\* the codeblocks asked for are not those of the transport block.
Reply(o, call, end) ==
    [obj |-> o, call |-> call, end |-> end, block |-> NoBlock]

\* The reply of a step that decoded something.
StatsReply(o, stats) ==
    [obj |-> o, call |-> "step", end |-> stats.end, block |-> stats.block]

Init ==
    /\ locked = [o \in Decoders |-> FALSE]
    /\ config \in [Decoders -> UserConfigs]
    /\ pool = [o \in Decoders |-> NoPool]
    /\ reply \in {Reply(o, "release", "done") : o \in Decoders}

\* Nontunable properties can be set (also by configure()) on unlocked objects.
Configure(o, cfg) ==
    /\ ~locked[o]
    /\ config' = [config EXCEPT ![o] = cfg]
    /\ reply' = Reply(o, "configure", "done")
    /\ UNCHANGED <<locked, pool>>

Setup(o) ==
    /\ ~locked[o]
    /\ locked' = [locked EXCEPT ![o] = TRUE]
    /\ pool' = [pool EXCEPT ![o] = EmptyPool(config[o])]
    /\ reply' = Reply(o, "setup", "done")
    /\ UNCHANGED config

Step(o, id, new, tb, n) ==
    /\ locked[o]
    /\ \/ /\ n # NofCodeblocks[tb]
          /\ reply' = Reply(o, "step", "rejected")
          /\ UNCHANGED pool
       \/ /\ n = NofCodeblocks[tb]
          /\ ~CanReserve(pool[o], id, n)
          /\ reply' = Reply(o, "step", "full")
          /\ UNCHANGED pool
       \/ /\ n = NofCodeblocks[tb]
          /\ CanReserve(pool[o], id, n)
          /\ \E out \in StepOutcomes(pool[o], id, new, tb, n) :
                /\ pool' = [pool EXCEPT ![o] = out.pool]
                /\ reply' = StatsReply(o, out.stats)
    /\ UNCHANGED <<locked, config>>

ResetCRCs(o, id, n) ==
    /\ \/ /\ ~locked[o]
          /\ reply' = Reply(o, "resetCRCS", "done")
          /\ UNCHANGED pool
       \/ /\ locked[o]
          /\ ~CanReserve(pool[o], id, n)
          /\ reply' = Reply(o, "resetCRCS", "full")
          /\ UNCHANGED pool
       \/ /\ locked[o]
          /\ CanReserve(pool[o], id, n)
          /\ pool' = [pool EXCEPT ![o] = ClearFlags(@, id, n)]
          /\ reply' = Reply(o, "resetCRCS", "done")
    /\ UNCHANGED <<locked, config>>

Reset(o) ==
    /\ pool' = IF locked[o] THEN [pool EXCEPT ![o] = EmptyPool(config[o])] ELSE pool
    /\ reply' = Reply(o, "reset", "done")
    /\ UNCHANGED <<locked, config>>

Release(o) ==
    /\ locked' = [locked EXCEPT ![o] = FALSE]
    /\ pool' = [pool EXCEPT ![o] = NoPool]
    /\ reply' = Reply(o, "release", "done")
    /\ UNCHANGED config

\* Object o is loaded from (or cloned from) src: same configuration, same lock
\* state, and an empty pool if it was in use.
Load(o, src) ==
    /\ ~locked[o]
    /\ config' = [config EXCEPT ![o] = config[src]]
    /\ locked' = [locked EXCEPT ![o] = locked[src]]
    /\ pool' = [pool EXCEPT ![o] =
                    IF locked[src] THEN EmptyPool(config[src]) ELSE NoPool]
    /\ reply' = Reply(o, "load", "done")

Next ==
    \E o \in Decoders :
        \/ \E cfg \in UserConfigs : Configure(o, cfg)
        \/ Setup(o)
        \/ \E id \in BufIds, new \in BOOLEAN, tb \in Blocks, n \in 1..MaxNCB :
                Step(o, id, new, tb, n)
        \/ \E id \in BufIds, n \in 1..MaxNCB : ResetCRCs(o, id, n)
        \/ Reset(o)
        \/ Release(o)
        \/ \E src \in Decoders \ {o} : Load(o, src)

Spec == Init /\ [][Next]_vars
=============================================================================
