------------------------ MODULE SoftbufferPoolProofs ------------------------
(***************************************************************************)
(* What the operations on a pool preserve, whatever the pool holds: it     *)
(* stays a pool, and it keeps the configuration it was created with.       *)
(***************************************************************************)
EXTENDS SoftbufferPool, FiniteSetTheorems, TLAPS

\* A freshly created pool is a pool and has the configuration it was given.
LEMMA EmptyPoolOK ==
    ASSUME NEW cfg \in Configs
    PROVE  IsPool(EmptyPool(cfg)) /\ EmptyPool(cfg).cfg = cfg
  BY DEF IsPool, EmptyPool, Configs

\* Storing one more buffer in a pool, or dropping one, leaves a pool.
LEMMA WithBufferOK ==
    ASSUME NEW p, IsPool(p), NEW id \in BufIds, NEW b, IsBuffer(b)
    PROVE  /\ IsPool(PoolWith(p, id, b))
           /\ PoolWith(p, id, b).cfg = p.cfg
           /\ PoolWith(p, id, b).buf[id] = b
           /\ id \in DOMAIN PoolWith(p, id, b).buf
  BY DEF IsPool, With, PoolWith

\* Giving a buffer back leaves a pool of the same configuration.
LEMMA WithoutBufferOK ==
    ASSUME NEW p, IsPool(p), NEW id
    PROVE  IsPool(PoolWithout(p, id)) /\ PoolWithout(p, id).cfg = p.cfg
  BY DEF IsPool, Without, PoolWithout

\* A new buffer has the number of codeblocks it was asked for.
LEMMA EmptyBufferOK ==
    ASSUME NEW n \in 1..MaxNCB
    PROVE  /\ IsBuffer(EmptyBuffer(n))
           /\ DOMAIN EmptyBuffer(n).cb = 1..n
           /\ NCB(EmptyBuffer(n)) = n
  <1>1. IsBuffer(EmptyBuffer(n)) /\ DOMAIN EmptyBuffer(n).cb = 1..n
    BY DEF IsBuffer, EmptyBuffer
  <1>2. Cardinality(1..n) = n
    BY FS_Interval, MaxNCBAssumption
  <1> QED  BY <1>1, <1>2 DEF NCB

\* The size of a buffer determines the codeblocks it has.
LEMMA BufferSize ==
    ASSUME NEW b, IsBuffer(b)
    PROVE  /\ NCB(b) \in 1..MaxNCB
           /\ b \in [soft : SUBSET Blocks, cb : [1..NCB(b) -> Blocks \cup {NoBlock}]]
  <1>1. PICK m \in 1..MaxNCB :
            b \in [soft : SUBSET Blocks, cb : [1..m -> Blocks \cup {NoBlock}]]
    BY DEF IsBuffer
  <1>2. NCB(b) = m
    <2>1. DOMAIN b.cb = 1..m
      BY <1>1
    <2>2. Cardinality(1..m) = m
      BY FS_Interval, MaxNCBAssumption
    <2> QED  BY <2>1, <2>2 DEF NCB
  <1> QED  BY <1>1, <1>2

\* reserve() returns a buffer with the number of codeblocks asked for.
LEMMA ReserveOK ==
    ASSUME NEW p, IsPool(p), NEW id \in BufIds, NEW n \in 1..MaxNCB
    PROVE  /\ IsPool(Reserve(p, id, n))
           /\ Reserve(p, id, n).cfg = p.cfg
           /\ id \in DOMAIN Reserve(p, id, n).buf
           /\ IsBuffer(Reserve(p, id, n).buf[id])
           /\ NCB(Reserve(p, id, n).buf[id]) = n
  <1>1. CASE Holds(p, id, n)
    BY <1>1 DEF Holds, Reserve, IsPool
  <1>2. CASE ~Holds(p, id, n)
    BY <1>2, EmptyBufferOK, WithBufferOK DEF Reserve
  <1> QED  BY <1>1, <1>2

\* Resetting the CRC flags leaves a pool of the same configuration.
LEMMA ClearFlagsOK ==
    ASSUME NEW p, IsPool(p), NEW id \in BufIds, NEW n \in 1..MaxNCB
    PROVE  IsPool(ClearFlags(p, id, n)) /\ ClearFlags(p, id, n).cfg = p.cfg
  <1> DEFINE q == Reserve(p, id, n)
             b == [soft |-> q.buf[id].soft, cb |-> [i \in 1..n |-> NoBlock]]
  <1>1. IsPool(q) /\ q.cfg = p.cfg /\ id \in DOMAIN q.buf /\ IsBuffer(q.buf[id])
    BY ReserveOK
  <1>2. IsBuffer(b)
    BY <1>1 DEF IsBuffer
  <1>3. IsPool(PoolWith(q, id, b)) /\ PoolWith(q, id, b).cfg = p.cfg
    BY <1>1, <1>2, WithBufferOK
  <1> QED  BY <1>3 DEF ClearFlags

\* Every way of decoding a block into a buffer leaves a buffer.
LEMMA DecodingsOK ==
    ASSUME NEW b, IsBuffer(b), NEW new \in BOOLEAN, NEW tb \in Blocks,
           NEW r \in Decodings(b, new, tb)
    PROVE  IsBuffer(r)
  <1>1. PICK m \in 1..MaxNCB :
            b \in [soft : SUBSET Blocks, cb : [1..m -> Blocks \cup {NoBlock}]]
    BY DEF IsBuffer
  <1>2. Combined(b, new, tb) \in SUBSET Blocks
    BY <1>1 DEF Combined
  <1>3. PICK pass :
            r = [soft |-> Combined(b, new, tb),
                 cb |-> [i \in DOMAIN b.cb |-> IF i \in pass THEN tb ELSE b.cb[i]]]
    BY DEF Decodings
  <1>4. r.cb \in [1..m -> Blocks \cup {NoBlock}]
    BY <1>1, <1>3
  <1> QED  BY <1>1, <1>2, <1>3, <1>4 DEF IsBuffer

\* Decoding reports a block exactly when it reports success.
LEMMA OutcomeOK ==
    ASSUME NEW r
    PROVE  /\ Outcome(r).end \in {"decoded", "missed"}
           /\ Outcome(r).block \in Blocks \cup {NoBlock}
  <1>1. CASE CRCOK(r)
    BY <1>1 DEF Outcome, CRCOK, Decoded
  <1>2. CASE ~CRCOK(r)
    BY <1>2 DEF Outcome
  <1> QED  BY <1>1, <1>2

\* What a step leaves is a pool of the same configuration, and what it reports
\* is a block or a miss.
LEMMA StepOutcomesOK ==
    ASSUME NEW p, IsPool(p), NEW id \in BufIds, NEW new \in BOOLEAN,
           NEW tb \in Blocks, NEW n \in 1..MaxNCB,
           NEW out \in StepOutcomes(p, id, new, tb, n)
    PROVE  /\ IsPool(out.pool)
           /\ out.pool.cfg = p.cfg
           /\ out.stats.end \in {"decoded", "missed"}
           /\ out.stats.block \in Blocks \cup {NoBlock}
  <1> DEFINE q == Reserve(p, id, n)
             results == Decodings(q.buf[id], new, tb)
             kept(b) == [pool |-> PoolWith(q, id, b), stats |-> Outcome(b)]
             freed(b) == [pool |-> PoolWithout(q, id), stats |-> Outcome(b)]
  <1>1. IsPool(q) /\ q.cfg = p.cfg /\ IsBuffer(q.buf[id])
    BY ReserveOK
  <1>2. PICK b \in results : out = kept(b) \/ out = freed(b)
    BY DEF StepOutcomes
  <1>3. IsBuffer(b)
    BY <1>1, <1>2, DecodingsOK
  <1>4. CASE out = kept(b)
    <2>1. IsPool(out.pool) /\ out.pool.cfg = q.cfg
      BY <1>1, <1>3, <1>4, WithBufferOK
    <2> QED  BY <2>1, <1>1, <1>4, OutcomeOK
  <1>5. CASE out = freed(b)
    <2>1. IsPool(out.pool) /\ out.pool.cfg = q.cfg
      BY <1>1, <1>5, WithoutBufferOK
    <2> QED  BY <2>1, <1>1, <1>5, OutcomeOK
  <1> QED  BY <1>2, <1>4, <1>5

-----------------------------------------------------------------------------
(***************************************************************************)
(* What decoding a block finds and leaves in the buffers of a pool,        *)
(* whatever else the pool is.                                              *)
(***************************************************************************)

\* A buffer that may take part in the decoding of tb: no flag is of another block, and
\* the soft bits are of no other block, unless new data overwrites them.
Clean(b, new, tb) ==
    /\ new \/ b.soft \subseteq {tb}
    /\ \A i \in DOMAIN b.cb : b.cb[i] \in {tb, NoBlock}

\* A step leaves the buffers of other identifiers alone.
LEMMA OtherBuffers ==
    ASSUME NEW p, NEW id, NEW new, NEW tb, NEW n,
           NEW out \in StepOutcomes(p, id, new, tb, n),
           NEW x \in DOMAIN out.pool.buf, x # id
    PROVE  x \in DOMAIN p.buf /\ out.pool.buf[x] = p.buf[x]
PROOF
<1> DEFINE q == Reserve(p, id, n)
<1>1. x \in DOMAIN q.buf => x \in DOMAIN p.buf /\ q.buf[x] = p.buf[x]
  BY DEF Reserve, PoolWith, With
<1>2. PICK b : out.pool = PoolWith(q, id, b) \/ out.pool = PoolWithout(q, id)
  BY DEF StepOutcomes
<1>3. x \in DOMAIN q.buf /\ out.pool.buf[x] = q.buf[x]
  BY <1>2 DEF PoolWith, PoolWithout, With, Without
<1> QED BY <1>1, <1>3

\* A reserved buffer has at least one codeblock.
LEMMA ReservedHasCodeblocks ==
    ASSUME NEW p, NEW id, NEW n \in Nat \ {0}
    PROVE  /\ id \in DOMAIN Reserve(p, id, n).buf
           /\ DOMAIN Reserve(p, id, n).buf[id].cb # {}
PROOF
<1>1. CASE Holds(p, id, n)
  BY <1>1, FS_EmptySet DEF Holds, NCB, Reserve
<1>2. CASE ~Holds(p, id, n)
  <2>1. Reserve(p, id, n).buf = With(p.buf, id, EmptyBuffer(n))
    BY <1>2 DEF Reserve, PoolWith
  <2>2. Reserve(p, id, n).buf[id] = EmptyBuffer(n) /\ id \in DOMAIN Reserve(p, id, n).buf
    BY <2>1 DEF With
  <2>3. 1 \in 1..n
    OBVIOUS
  <2> QED BY <2>2, <2>3 DEF EmptyBuffer
<1> QED BY <1>1, <1>2

\* What decoding tb should leave: a clean buffer, and a report of tb or of a miss.
IsClean(out, id, tb) ==
    /\ id \in DOMAIN out.pool.buf => Clean(out.pool.buf[id], FALSE, tb)
    /\ out.stats.end = "decoded" => out.stats.block = tb
    /\ out.stats.end # "decoded" => out.stats.block = NoBlock

\* Decoding tb into a clean buffer leaves a clean buffer, and reports tb or a miss.
LEMMA CleanDecoding ==
    ASSUME NEW p, NEW id, NEW new \in BOOLEAN, NEW tb \in Blocks, NEW n \in Nat \ {0},
           Clean(Reserve(p, id, n).buf[id], new, tb)
    PROVE  \A out \in StepOutcomes(p, id, new, tb, n) : IsClean(out, id, tb)
PROOF
<1> SUFFICES ASSUME NEW out \in StepOutcomes(p, id, new, tb, n)
             PROVE  IsClean(out, id, tb)
  OBVIOUS
<1> USE DEF IsClean
<1> DEFINE q == Reserve(p, id, n)
           b == q.buf[id]
<1>1. PICK r \in Decodings(b, new, tb) :
        /\ out.stats = Outcome(r)
        /\ out.pool = PoolWith(q, id, r) \/ out.pool = PoolWithout(q, id)
  BY DEF StepOutcomes
<1>2. PICK pass :
        r = [soft |-> Combined(b, new, tb),
             cb |-> [i \in DOMAIN b.cb |-> IF i \in pass THEN tb ELSE b.cb[i]]]
  BY <1>1 DEF Decodings
<1>3. r.soft \subseteq {tb}
  BY <1>2 DEF Clean, Combined
<1>4. DOMAIN r.cb = DOMAIN b.cb /\ \A i \in DOMAIN r.cb : r.cb[i] \in {tb, NoBlock}
  BY <1>2 DEF Clean
<1>5. Clean(r, FALSE, tb)
  BY <1>3, <1>4 DEF Clean
<1>6. id \in DOMAIN out.pool.buf => out.pool.buf[id] = r
  BY <1>1 DEF PoolWith, PoolWithout, With, Without
<1>7. CASE CRCOK(r)
  <2>1. PICK i \in DOMAIN r.cb : TRUE
    BY <1>4, ReservedHasCodeblocks
  <2>2. PICK t \in Blocks : \A j \in DOMAIN r.cb : r.cb[j] = t
    BY <1>7 DEF CRCOK
  <2>3. Decoded(r) \in Blocks /\ \A j \in DOMAIN r.cb : r.cb[j] = Decoded(r)
    BY <2>2 DEF Decoded
  <2>4. Decoded(r) = tb
    BY <1>4, <2>1, <2>3, NoBlockAssumption
  <2>5. out.stats.end = "decoded" /\ out.stats.block = tb
    BY <1>1, <1>7, <2>4 DEF Outcome
  <2> QED BY <1>5, <1>6, <2>5
<1>8. CASE ~CRCOK(r)
  <2>1. out.stats.end = "missed" /\ out.stats.block = NoBlock
    BY <1>1, <1>8 DEF Outcome
  <2> QED BY <1>5, <1>6, <2>1
<1> QED BY <1>7, <1>8

\* The buffer that reserve() creates is clean, and so is one whose flags were reset, for
\* new data.
LEMMA NewBufferIsClean ==
    ASSUME NEW p, NEW id, NEW n, NEW new, NEW tb, ~Holds(p, id, n)
    PROVE  Clean(Reserve(p, id, n).buf[id], new, tb)
PROOF
<1>1. Reserve(p, id, n).buf[id] = EmptyBuffer(n)
  BY DEF Reserve, PoolWith, With
<1> QED BY <1>1 DEF Clean, EmptyBuffer

\* A buffer that is reserved after its flags were cleared is clean for new data.
LEMMA ClearedBufferIsClean ==
    ASSUME NEW p, NEW id, NEW n \in Nat, NEW tb
    PROVE  Clean(Reserve(ClearFlags(p, id, n), id, n).buf[id], TRUE, tb)
PROOF
<1> DEFINE r == Reserve(p, id, n)
           c == [soft |-> r.buf[id].soft, cb |-> [i \in 1..n |-> NoBlock]]
           q == PoolWith(r, id, c)
<1>1. ClearFlags(p, id, n) = q
  BY DEF ClearFlags
<1>2. id \in DOMAIN q.buf /\ q.buf[id] = c
  BY DEF PoolWith, With
<1>3. Cardinality(1..n) = n
  BY FS_Interval
<1>4. Reserve(q, id, n).buf[id] = c
  BY <1>2, <1>3 DEF Holds, NCB, Reserve
<1>5. Clean(c, TRUE, tb)
  BY DEF Clean
<1> QED BY <1>1, <1>4, <1>5

\* Clearing flags does not touch the buffers of other identifiers.
LEMMA ClearFlagsOthers ==
    ASSUME NEW p, NEW id, NEW n, NEW x \in DOMAIN ClearFlags(p, id, n).buf, x # id
    PROVE  x \in DOMAIN p.buf /\ ClearFlags(p, id, n).buf[x] = p.buf[x]
PROOF
<1> DEFINE r == Reserve(p, id, n)
<1>1. x \in DOMAIN r.buf /\ ClearFlags(p, id, n).buf[x] = r.buf[x]
  BY DEF ClearFlags, PoolWith, With
<1>2. x \in DOMAIN r.buf => x \in DOMAIN p.buf /\ r.buf[x] = p.buf[x]
  BY DEF Reserve, PoolWith, With
<1> QED BY <1>1, <1>2

-----------------------------------------------------------------------------
(***************************************************************************)
(* A pool whose buffers all have as many codeblocks has room for all       *)
(* identifiers, if it was created for them.                                *)
(***************************************************************************)
AllHave(p, n) == \A id \in DOMAIN p.buf : NCB(p.buf[id]) = n

\* The codeblocks of a buffer with n of them are as many as n.
LEMMA SizeOfCodeblocks ==
    ASSUME NEW n \in 1..MaxNCB
    PROVE  Cardinality(1..n) = n /\ IsFiniteSet(1..n)
BY FS_Interval, MaxNCBAssumption

\* Resetting CRC flags keeps the size, or sets it.
LEMMA ClearFlagsSize ==
    ASSUME NEW p, NEW id, NEW n \in 1..MaxNCB, AllHave(p, n)
    PROVE  AllHave(ClearFlags(p, id, n), n)
PROOF
<1> DEFINE c == ClearFlags(p, id, n)
<1> SUFFICES ASSUME NEW x \in DOMAIN c.buf PROVE NCB(c.buf[x]) = n
  BY DEF AllHave
<1>1. CASE x # id
  <2>1. x \in DOMAIN p.buf /\ c.buf[x] = p.buf[x]
    BY <1>1, ClearFlagsOthers
  <2> QED BY <2>1 DEF AllHave
<1>2. CASE x = id
  <2>1. DOMAIN c.buf[x].cb = 1..n
    BY <1>2 DEF ClearFlags, PoolWith, With
  <2> QED BY <2>1, SizeOfCodeblocks DEF NCB
<1> QED BY <1>1, <1>2

\* Decoding keeps the size.
LEMMA StepOutcomesSize ==
    ASSUME NEW p, IsPool(p), NEW id \in BufIds, NEW new \in BOOLEAN, NEW tb \in Blocks,
           NEW n \in 1..MaxNCB, AllHave(p, n), NEW out \in StepOutcomes(p, id, new, tb, n)
    PROVE  AllHave(out.pool, n)
PROOF
<1> DEFINE q == Reserve(p, id, n)
           results == Decodings(q.buf[id], new, tb)
<1> SUFFICES ASSUME NEW x \in DOMAIN out.pool.buf PROVE NCB(out.pool.buf[x]) = n
  BY DEF AllHave
<1>1. CASE x # id
  BY <1>1, OtherBuffers DEF AllHave
<1>2. CASE x = id
  <2>1. PICK b \in results :
          \/ out = [pool |-> PoolWith(q, id, b), stats |-> Outcome(b)]
          \/ out = [pool |-> PoolWithout(q, id), stats |-> Outcome(b)]
    BY DEF StepOutcomes
  <2>2. out.pool = PoolWith(q, id, b)
    BY <1>2, <2>1 DEF PoolWithout, Without
  <2>3. out.pool.buf[x] = b
    BY <1>2, <2>2 DEF PoolWith, With
  <2>4. DOMAIN b.cb = DOMAIN q.buf[id].cb
    BY <2>1 DEF Decodings
  <2>5. NCB(q.buf[id]) = n
    BY ReserveOK
  <2> QED BY <2>3, <2>4, <2>5 DEF NCB
<1> QED BY <1>1, <1>2

\* A pool with a buffer for each identifier and their codeblocks is never used up.
LEMMA RoomForAll ==
    ASSUME NEW p, IsPool(p), NEW n \in 1..MaxNCB, AllHave(p, n),
           IsFiniteSet(BufIds), p.cfg.bufs = Cardinality(BufIds),
           p.cfg.cbs = n * Cardinality(BufIds), NEW id \in BufIds
    PROVE  CanReserve(p, id, n)
PROOF
<1> DEFINE others == Without(p.buf, id)
           D == DOMAIN p.buf \ {id}
           K == Cardinality(BufIds)
           used == UNION {{x} \X DOMAIN others[x].cb : x \in DOMAIN others}
<1>1. DOMAIN others = D /\ \A x \in D : others[x] = p.buf[x]
  BY DEF Without
<1>2. D \in SUBSET (BufIds \ {id})
  BY DEF IsPool
<1>3. IsFiniteSet(BufIds \ {id}) /\ Cardinality(BufIds \ {id}) = K - 1 /\ K \in Nat
  BY FS_RemoveElement, FS_CardinalityType
<1>4. IsFiniteSet(D) /\ Cardinality(D) <= K - 1 /\ Cardinality(D) \in Nat
  BY <1>2, <1>3, FS_Subset, FS_CardinalityType
<1>5. \A x \in D : DOMAIN others[x].cb = 1..n
  <2> TAKE x \in D
  <2>1. IsBuffer(p.buf[x]) /\ NCB(p.buf[x]) = n
    BY DEF IsPool, AllHave
  <2>2. DOMAIN p.buf[x].cb = 1..n
    BY <2>1, BufferSize
  <2> QED BY <1>1, <2>2
<1>6. used \in SUBSET (D \X (1..n))
  <2> SUFFICES ASSUME NEW x \in D, NEW i \in DOMAIN others[x].cb
               PROVE  <<x, i>> \in D \X (1..n)
    BY <1>1
  <2> QED BY <1>5
<1>7. IsFiniteSet(D \X (1..n)) /\ Cardinality(D \X (1..n)) = Cardinality(D) * n
  <2>1. IsFiniteSet(D) /\ IsFiniteSet(1..n) /\ Cardinality(1..n) = n
    BY <1>4, SizeOfCodeblocks
  <2> HIDE DEF D
  <2>2. /\ IsFiniteSet(D \X (1..n))
        /\ Cardinality(D \X (1..n)) = Cardinality(D) * Cardinality(1..n)
    BY <2>1, FS_Product, Zenon
  <2> QED BY <2>1, <2>2, Zenon
<1>8. Cardinality(used) <= Cardinality(D) * n /\ Cardinality(used) \in Nat
  BY <1>6, <1>7, FS_Subset, FS_CardinalityType
<1>9. n \in Nat
  BY MaxNCBAssumption
<1> HIDE DEF D, K, used, others
<1>10. Cardinality(D) * n <= (K - 1) * n
  BY <1>3, <1>4, <1>9
<1>11. (K - 1) * n + n = n * K
  BY <1>3, <1>9
<1>12. Cardinality(D) * n \in Int /\ (K - 1) * n \in Int
  BY <1>3, <1>4, <1>9
<1>13. Cardinality(used) + n <= n * K
  BY <1>8, <1>9, <1>10, <1>11, <1>12
<1>14. Cardinality(DOMAIN others) < p.cfg.bufs
  BY <1>1, <1>3, <1>4 DEF K
<1>15. UsedCodeblocks(others) + n <= p.cfg.cbs
  BY <1>13 DEF UsedCodeblocks, used, K
<1> QED BY <1>14, <1>15 DEF CanReserve, others
=============================================================================
