--------------------------- MODULE SoftbufferPool ---------------------------
(***************************************************************************)
(* The value of an rx_buffer_pool (the softbuffer pool held by one PUSCH   *)
(* decoder memento) and the two things the MEX methods do to it.  The pool *)
(* class and the decoder that works on its buffers live in the OCUDU       *)
(* library, outside this repository: they are modelled by what             *)
(* pusch_decoder_mex.{h,cpp} documents and relies on.                      *)
(*                                                                         *)
(* LLRs are abstracted to the transport blocks they carry: a softbuffer    *)
(* remembers which blocks were combined in it and, per codeblock, the      *)
(* block whose data is protected by a CRC flag (NoBlock if the flag is     *)
(* clear).  run_slot() is never called by the MEX, hence a buffer never    *)
(* expires.                                                                *)
(***************************************************************************)
EXTENDS Naturals, FiniteSets, FiniteSetsExt

CONSTANTS
    BufIds,         \* Softbuffer identifiers: pairs (RNTI, HARQ process ID).
    Blocks,         \* Transport blocks (the data carried by the LLRs).
    NoBlock,        \* "CRC flag not set".
    MaxNCB          \* Bound: largest number of codeblocks of a codeword.

ASSUME NoBlockAssumption == NoBlock \notin Blocks
ASSUME MaxNCBAssumption == MaxNCB \in Nat \ {0}

\* Nontunable properties MaxSoftbuffers and MaxCodeblocks of a decoder.
Configs == [bufs : Nat \ {0}, cbs : Nat \ {0}]

IsBuffer(b) ==
    \E n \in 1..MaxNCB :
        b \in [soft : SUBSET Blocks, cb : [1..n -> Blocks \cup {NoBlock}]]

IsPool(p) ==
    /\ p = [cfg |-> p.cfg, buf |-> p.buf]
    /\ p.cfg \in Configs
    /\ p.buf = [id \in DOMAIN p.buf |-> p.buf[id]]
    /\ DOMAIN p.buf \subseteq BufIds
    /\ \A id \in DOMAIN p.buf : IsBuffer(p.buf[id])

\* A pool as create_rx_buffer_pool() returns it.
EmptyPool(cfg) == [cfg |-> cfg, buf |-> [id \in {} |-> NoBlock]]

NCB(b) == Cardinality(DOMAIN b.cb)

EmptyBuffer(n) == [soft |-> {}, cb |-> [i \in 1..n |-> NoBlock]]

Without(f, x) == [y \in DOMAIN f \ {x} |-> f[y]]

With(f, x, v) == [y \in DOMAIN f \cup {x} |-> IF y = x THEN v ELSE f[y]]

\* A pool with buffer b stored under id, and one without any.
PoolWith(p, id, b) == [cfg |-> p.cfg, buf |-> With(p.buf, id, b)]

PoolWithout(p, id) == [cfg |-> p.cfg, buf |-> Without(p.buf, id)]

UsedCodeblocks(buf) == Cardinality(UNION {{id} \X DOMAIN buf[id].cb : id \in DOMAIN buf})

Holds(p, id, n) == id \in DOMAIN p.buf /\ NCB(p.buf[id]) = n

\* reserve() finds a buffer, old or new, with n codeblocks for id.  A buffer
\* of another size under the same identifier is given up first.
CanReserve(p, id, n) ==
    \/ Holds(p, id, n)
    \/ LET others == Without(p.buf, id)
       IN  /\ Cardinality(DOMAIN others) < p.cfg.bufs
           /\ UsedCodeblocks(others) + n <= p.cfg.cbs

Reserve(p, id, n) ==
    IF Holds(p, id, n) THEN p
    ELSE PoolWith(p, id, EmptyBuffer(n))

\* reset_codeblocks_crc() on a reserved buffer.
ClearFlags(p, id, n) ==
    LET q == Reserve(p, id, n)
    IN  PoolWith(q, id, [soft |-> q.buf[id].soft, cb |-> [i \in 1..n |-> NoBlock]])

-----------------------------------------------------------------------------
(***************************************************************************)
(* Decoding the LLRs of block tb into the reserved buffer b.  New data     *)
(* overwrites the soft bits, a retransmission is combined with them.  A    *)
(* codeblock whose CRC flag is set is not decoded again; any other may     *)
(* pass only if all the LLRs combined in the buffer are of one block.      *)
(***************************************************************************)
Combined(b, new, tb) == IF new THEN {tb} ELSE b.soft \cup {tb}

Clear(b) == {i \in DOMAIN b.cb : b.cb[i] = NoBlock}

Decodings(b, new, tb) ==
    LET soft == Combined(b, new, tb)
        mayPass == IF soft = {tb} THEN Clear(b) ELSE {}
    IN  {[soft |-> soft,
          cb |-> [i \in DOMAIN b.cb |-> IF i \in pass THEN tb ELSE b.cb[i]]] :
            pass \in SUBSET mayPass}

\* The transport block CRC is right: all codeblocks carry one block's data.
CRCOK(b) == \E tb \in Blocks : \A i \in DOMAIN b.cb : b.cb[i] = tb

Decoded(b) == CHOOSE tb \in Blocks : \A i \in DOMAIN b.cb : b.cb[i] = tb

Outcome(b) == IF CRCOK(b) THEN [end |-> "decoded", block |-> Decoded(b)]
                          ELSE [end |-> "missed", block |-> NoBlock]

\* What decoding may leave in the pool and report.  Nothing in this repository
\* tells whether the buffer of a decoded block goes back to the pool: both.
StepOutcomes(p, id, new, tb, n) ==
    LET q == Reserve(p, id, n)
        kept(b) == [pool |-> PoolWith(q, id, b), stats |-> Outcome(b)]
        freed(b) == [pool |-> PoolWithout(q, id), stats |-> Outcome(b)]
        results == Decodings(q.buf[id], new, tb)
    IN  {kept(b) : b \in results} \cup {freed(b) : b \in {r \in results : CRCOK(r)}}
=============================================================================
