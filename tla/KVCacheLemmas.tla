--------------------------- MODULE KVCacheLemmas ----------------------------
(***************************************************************************)
(* Lemmas for KVCacheProofs that know nothing of an action: what the       *)
(* operators of KVCache return, when references tile, what the operations  *)
(* of the pool do to it, and what becomes of the counts, the offsets and   *)
(* the private blocks of a table of lists when one list is replaced or     *)
(* lent to another; and which tokens a list reads, where it keeps texts of *)
(* another and has more behind them.                                       *)
(***************************************************************************)
EXTENDS KVCache, SequenceTheorems, FiniteSetTheorems, TLAPS

-----------------------------------------------------------------------------
(***************************************************************************)
(* Numbers, and filtered lists                                             *)
(***************************************************************************)

LEMMA LeastOf ==
    ASSUME NEW T \in SUBSET Nat, T # {}
    PROVE  \E x \in T : \A y \in T : x <= y
<1> DEFINE R == {p \in Nat \X Nat : p[1] < p[2]}
<1>1. IsWellFoundedOn(R, Nat)
  <2>1. OpToRel(<, Nat) = R
    BY DEF OpToRel
  <2> QED
    BY <2>1, NatLessThanWellFounded
<1>2. PICK x \in T : \A y \in T : ~ (<<y, x>> \in R)
  <2> HIDE DEF R
  <2> QED
    BY <1>1, WFMin, Zenon
<1>3. \A y \in T : ~(y < x)
  BY <1>2
<1> QED
  BY <1>2, <1>3

LEMMA KeptPrefix ==
    ASSUME NEW refs, NEW m \in Nat
    PROVE  Kept(refs, 1 .. m) = [n \in 1 .. m |-> refs[n]]
<1>1. Cardinality(1 .. m) = m
  BY FS_Interval
<1>2. ASSUME NEW n \in 1 .. m
      PROVE  (CHOOSE k \in 1 .. m : Cardinality({j \in 1 .. m : j <= k}) = n) = n
  <2>1. ASSUME NEW k \in 1 .. m PROVE Cardinality({j \in 1 .. m : j <= k}) = k
    <3>1. {j \in 1 .. m : j <= k} = 1 .. k
      OBVIOUS
    <3>2. Cardinality(1 .. k) = k
      BY FS_Interval
    <3> QED
      BY <3>1, <3>2
  <2> QED
    BY <2>1
<1> DEFINE pos(n) == CHOOSE k \in 1 .. m : Cardinality({j \in 1 .. m : j <= k}) = n
<1>3. Kept(refs, 1 .. m) = [n \in 1 .. Cardinality(1 .. m) |-> refs[pos(n)]]
  BY DEF Kept
<1>4. \A n \in 1 .. m : pos(n) = n
  BY <1>2
<1> HIDE DEF pos
<1> QED
  BY <1>1, <1>3, <1>4

LEMMA KeptSuffix ==
    ASSUME NEW refs, NEW m \in Nat, NEW L \in Nat, m <= L
    PROVE  Kept(refs, m + 1 .. L) = [n \in 1 .. L - m |-> refs[m + n]]
<1>1. Cardinality(m + 1 .. L) = L - m
  <2>1. m + 1 \in Int /\ L \in Int
    OBVIOUS
  <2>2. Cardinality(m + 1 .. L) = IF m + 1 > L THEN 0 ELSE L - (m + 1) + 1
    BY <2>1, FS_Interval
  <2> QED
    BY <2>2
<1>2. ASSUME NEW n \in 1 .. L - m
      PROVE  (CHOOSE k \in m + 1 .. L : Cardinality({j \in m + 1 .. L : j <= k}) = n) = m + n
  <2>1. ASSUME NEW k \in m + 1 .. L PROVE Cardinality({j \in m + 1 .. L : j <= k}) = k - m
    <3>1. {j \in m + 1 .. L : j <= k} = m + 1 .. k
      OBVIOUS
    <3>2. m + 1 \in Int /\ k \in Int
      OBVIOUS
    <3>3. Cardinality(m + 1 .. k) = IF m + 1 > k THEN 0 ELSE k - (m + 1) + 1
      BY <3>2, FS_Interval
    <3>4. Cardinality(m + 1 .. k) = k - m
      BY <3>3
    <3> QED
      BY <3>1, <3>4, Zenon
  <2>2. m + n \in m + 1 .. L
    OBVIOUS
  <2> QED
    BY <2>1, <2>2
<1> DEFINE pos(n) == CHOOSE k \in m + 1 .. L : Cardinality({j \in m + 1 .. L : j <= k}) = n
<1>3. Kept(refs, m + 1 .. L) = [n \in 1 .. Cardinality(m + 1 .. L) |-> refs[pos(n)]]
  BY DEF Kept
<1>4. \A n \in 1 .. L - m : pos(n) = m + n
  BY <1>2
<1> HIDE DEF pos
<1> QED
  BY <1>1, <1>3, <1>4

-----------------------------------------------------------------------------
(***************************************************************************)
(* Fresh ids, and tokens cut into blocks                                   *)
(***************************************************************************)

LEMMA FreshIdsProperties ==
    ASSUME NEW n \in Nat, DOMAIN blocks \subseteq BlockIds, Available(n)
    PROVE  /\ FreshIds(n) \in Seq(BlockIds) /\ Len(FreshIds(n)) = n
           /\ \A k \in 1 .. n : FreshIds(n)[k] \in BlockIds /\ FreshIds(n)[k] \notin DOMAIN blocks
           /\ \A j, k \in 1 .. n : FreshIds(n)[j] = FreshIds(n)[k] => j = k
<1> DEFINE free == BlockIds \ DOMAIN blocks
           c == Cardinality(free)
<1>1. IsFiniteSet(free)
  BY CacheAssumption, FS_Subset
<1>2. c \in Nat /\ n <= c /\ ExistsBijection(1 .. c, free)
  BY <1>1, FS_CardinalityType DEF Available
<1>3. PICK f \in [1 .. c -> free] : \A a, b \in 1 .. c : f[a] = f[b] => a = b
  BY <1>2, Zenon DEF ExistsBijection, Bijection, Injection, IsInjective
<1> HIDE DEF c
<1> DEFINE g == [k \in 1 .. n |-> f[k]]
<1>4. \A k \in 1 .. n : k \in 1 .. c
  BY <1>2
<1>5. g \in [1 .. n -> free] /\ IsInjective(g)
  BY <1>3, <1>4 DEF IsInjective
<1>6. FreshIds(n) \in [1 .. n -> free] /\ IsInjective(FreshIds(n))
  BY <1>5 DEF FreshIds
<1> HIDE DEF free
<1>7. free \subseteq BlockIds /\ free \cap DOMAIN blocks = {}
  BY DEF free
<1>8. FreshIds(n) \in Seq(free) /\ Len(FreshIds(n)) = n /\ DOMAIN FreshIds(n) = 1 .. n
  BY <1>6
<1>9. FreshIds(n) \in Seq(BlockIds)
  BY <1>7, <1>8
<1> QED
  BY <1>6, <1>7, <1>8, <1>9 DEF IsInjective

LEMMA CeilDiv ==
    ASSUME NEW a \in Nat, NEW b \in Nat \ {0}
    PROVE  LET n == (a + b - 1) \div b IN
           /\ n \in Nat /\ n * b >= a
           /\ a > 0 => n > 0 /\ (n - 1) * b < a
           /\ a = 0 => n = 0
OBVIOUS

LEMMA TimesMonotone ==
    ASSUME NEW a \in Nat, NEW b \in Nat, NEW c \in Nat, a <= b
    PROVE  a * c \in Nat /\ b * c \in Nat /\ a * c <= b * c
OBVIOUS

\* What append_session and append_branch cut the tokens into.
Cut(contents) ==
    /\ contents \in Seq(Seq(Nat))
    /\ \A k \in 1 .. Len(contents) :
          /\ Len(contents[k]) \in 1 .. BlockSize
          /\ k < Len(contents) => Len(contents[k]) = BlockSize

LEMMA ChunksAreCut ==
    ASSUME NEW ts \in Seq(Nat)
    PROVE  Cut(Chunks(ts)) /\ Len(Chunks(ts)) \in Nat
<1> DEFINE n == (Len(ts) + BlockSize - 1) \div BlockSize
           up(k) == IF k * BlockSize < Len(ts) THEN k * BlockSize ELSE Len(ts)
           chunk(k) == SubSeq(ts, (k - 1) * BlockSize + 1, up(k))
<1>1. BlockSize \in Nat \ {0} /\ Len(ts) \in Nat
  BY CacheAssumption
<1>2. /\ n \in Nat /\ n * BlockSize >= Len(ts)
      /\ Len(ts) > 0 => n > 0 /\ (n - 1) * BlockSize < Len(ts)
      /\ Len(ts) = 0 => n = 0
  BY <1>1, CeilDiv
<1>3. Chunks(ts) = [k \in 1 .. n |-> chunk(k)]
  BY DEF Chunks
<1> HIDE DEF n
<1>4. ASSUME NEW k \in 1 .. n
      PROVE  /\ chunk(k) \in Seq(Nat)
             /\ Len(chunk(k)) \in 1 .. BlockSize
             /\ k < n => Len(chunk(k)) = BlockSize
  <2>1. /\ (k - 1) * BlockSize \in Nat /\ k * BlockSize = (k - 1) * BlockSize + BlockSize
        /\ (k - 1) * BlockSize < Len(ts)
    <3>1. k - 1 \in Nat /\ n - 1 \in Nat /\ k - 1 <= n - 1 /\ Len(ts) > 0
      BY <1>1, <1>2
    <3>2. (k - 1) * BlockSize <= (n - 1) * BlockSize
      BY <3>1, <1>1, TimesMonotone
    <3>3. (k - 1) * BlockSize \in Nat /\ (n - 1) * BlockSize \in Nat
      BY <3>1, <1>1
    <3>4. k * BlockSize = (k - 1) * BlockSize + BlockSize
      BY <1>1
    <3> QED
      BY <3>1, <3>2, <3>3, <3>4, <1>2
  <2>2. k < n => k * BlockSize < Len(ts)
    <3> SUFFICES ASSUME k < n PROVE k * BlockSize < Len(ts)
      OBVIOUS
    <3>1. k <= n - 1 /\ n - 1 \in Nat /\ k \in Nat /\ BlockSize \in Nat /\ Len(ts) > 0
      BY <1>1, <1>2
    <3>2. k * BlockSize <= (n - 1) * BlockSize
      BY <3>1, <1>1, TimesMonotone
    <3>3. k * BlockSize \in Nat /\ (n - 1) * BlockSize \in Nat
      BY <3>1, <1>1
    <3> QED
      BY <3>1, <3>2, <3>3, <1>2
  <2> DEFINE lo == (k - 1) * BlockSize
             hi == k * BlockSize
  <2>3. lo \in Nat /\ hi = lo + BlockSize /\ lo < Len(ts) /\ (k < n => hi < Len(ts))
    BY <2>1, <2>2
  <2>4. chunk(k) = SubSeq(ts, lo + 1, IF hi < Len(ts) THEN hi ELSE Len(ts))
    OBVIOUS
  <2> HIDE DEF lo, hi, chunk
  <2>5. /\ (IF hi < Len(ts) THEN hi ELSE Len(ts)) \in 1 .. Len(ts)
        /\ lo + 1 \in 1 .. Len(ts)
    BY <1>1, <2>3
  <2> DEFINE top == IF hi < Len(ts) THEN hi ELSE Len(ts)
  <2>6. chunk(k) \in Seq(Nat) /\ Len(chunk(k)) = IF lo + 1 <= top THEN top - (lo + 1) + 1 ELSE 0
    BY <2>4, <2>5, SubSeqProperties
  <2> QED
    BY <2>3, <2>5, <2>6, <1>1
<1> HIDE DEF chunk
<1>5. Chunks(ts) \in Seq(Seq(Nat)) /\ Len(Chunks(ts)) = n
  BY <1>2, <1>3, <1>4
<1> QED
  BY <1>2, <1>3, <1>4, <1>5 DEF Cut

-----------------------------------------------------------------------------
(***************************************************************************)
(* References that tile                                                    *)
(***************************************************************************)

\* The references follow one another from token 0, each as long as its block.
Tiled(refs, pool) ==
    \A k \in 1 .. Len(refs) :
        /\ refs[k].block \in DOMAIN pool
        /\ refs[k].end = refs[k].start + Len(pool[refs[k].block].tokens)
        /\ refs[k].start = IF k = 1 THEN 0 ELSE refs[k - 1].end

PoolOK(pool) ==
    /\ DOMAIN pool \subseteq BlockIds
    /\ \A i \in DOMAIN pool : pool[i] \in Block /\ Len(pool[i].tokens) \in 1 .. BlockSize

LEMMA RefFields ==
    ASSUME NEW r \in Ref
    PROVE  /\ r.start \in Nat /\ r.end \in Nat /\ r.valid \in Validity
           /\ r.owner \in Ownership /\ r.block \in BlockIds
BY DEF Ref

NewRefsFor(from, ids, contents) ==
    from \in Nat /\ ids \in Seq(BlockIds) /\ Cut(contents) /\ Len(contents) = Len(ids)

LEMMA NewRefsProperties ==
    ASSUME NEW from, NEW ids, NEW contents, NewRefsFor(from, ids, contents),
           NEW valid \in Validity, NEW owner \in Ownership,
           NEW new, new = NewRefs(from, ids, contents, valid, owner)
    PROVE  /\ new \in Seq(Ref) /\ Len(new) = Len(ids)
           /\ \A k \in 1 .. Len(ids) :
                 /\ new[k].valid = valid /\ new[k].owner = owner /\ new[k].block = ids[k]
                 /\ new[k].end = new[k].start + Len(contents[k])
                 /\ new[k].start = IF k = 1 THEN from ELSE new[k - 1].end
<1> DEFINE ref(k) == [start |-> from + (k - 1) * BlockSize,
                      end |-> from + (k - 1) * BlockSize + Len(contents[k]),
                      valid |-> valid, owner |-> owner, block |-> ids[k]]
<1>0. /\ from \in Nat /\ ids \in Seq(BlockIds)
      /\ Cut(contents) /\ Len(contents) = Len(ids)
  BY DEF NewRefsFor
<1>1. DOMAIN ids = 1 .. Len(ids) /\ Len(ids) \in Nat /\ BlockSize \in Nat \ {0}
  BY <1>0, CacheAssumption
<1>2. new = [k \in 1 .. Len(ids) |-> ref(k)]
  BY <1>1 DEF NewRefs
<1>3. ASSUME NEW k \in 1 .. Len(ids)
      PROVE  /\ (k - 1) * BlockSize \in Nat /\ Len(contents[k]) \in Nat
             /\ ids[k] \in BlockIds
             /\ k < Len(ids) => Len(contents[k]) = BlockSize
  <2>1. k - 1 \in Nat
    OBVIOUS
  <2> QED
    BY <1>0, <1>1, <2>1 DEF Cut
<1>4. ASSUME NEW k \in 1 .. Len(ids) PROVE ref(k) \in Ref
  <2>1. from + (k - 1) * BlockSize \in Nat /\ from + (k - 1) * BlockSize + Len(contents[k]) \in Nat
    BY <1>0, <1>3
  <2> QED
    BY <1>3, <2>1 DEF Ref
<1>5. new \in Seq(Ref) /\ Len(new) = Len(ids)
  <2> HIDE DEF ref
  <2> QED
    BY <1>1, <1>2, <1>4
<1>6. ASSUME NEW k \in 1 .. Len(ids), k # 1
      PROVE  from + (k - 1) * BlockSize = ref(k - 1).end
  <2>1. k - 1 \in 1 .. Len(ids) /\ k - 1 < Len(ids)
    BY <1>1, <1>6
  <2>2. Len(contents[k - 1]) = BlockSize
    BY <1>3, <2>1
  <2>3. (k - 1) * BlockSize = (k - 1 - 1) * BlockSize + BlockSize
    BY <1>1, <2>1
  <2>4. (k - 1 - 1) * BlockSize \in Nat
    BY <1>3, <2>1
  <2> QED
    BY <2>2, <2>3, <2>4, <1>0, <1>1
<1>7. 1 \in Nat /\ (1 - 1) * BlockSize = 0
  BY <1>1
<1>8. ASSUME NEW k \in 1 .. Len(ids), k # 1 PROVE k - 1 \in 1 .. Len(ids)
  BY <1>1, <1>8
<1>9. ASSUME NEW k \in 1 .. Len(ids)
      PROVE  ref(k).start = IF k = 1 THEN from ELSE ref(k - 1).end
  BY <1>0, <1>6, <1>7
<1>10. \A k \in 1 .. Len(ids) : ref(k).valid = valid /\ ref(k).owner = owner
                               /\ ref(k).block = ids[k]
                               /\ ref(k).end = ref(k).start + Len(contents[k])
  OBVIOUS
<1> HIDE DEF ref
<1> QED
  BY <1>2, <1>5, <1>8, <1>9, <1>10

\* Opaque to the provers until expanded.
Joined(base, added) == base \o added
Ending(refs, m, r)  == Append(SubSeq(refs, 1, m), r)

\* References to the blocks ids may follow the list base.
Adds(base, pool, ids, contents) ==
    /\ base \in Seq(Ref) /\ Tiled(base, pool)
    /\ ids \in Seq(BlockIds) /\ Cut(contents) /\ Len(contents) = Len(ids)
    /\ \A k \in 1 .. Len(ids) : ids[k] \in DOMAIN pool /\ pool[ids[k]].tokens = contents[k]

Added(base, pool, ids, valid, owner, new) ==
    /\ new \in Seq(Ref) /\ Len(new) = Len(base) + Len(ids)
    /\ \A k \in 1 .. Len(base) : new[k] = base[k]
    /\ \A k \in 1 .. Len(ids) : /\ new[Len(base) + k].block = ids[k]
                                /\ new[Len(base) + k].valid = valid
                                /\ new[Len(base) + k].owner = owner
    /\ Tiled(new, pool)

LEMMA ConcatTiled ==
    ASSUME NEW base, NEW pool, NEW ids, NEW contents, Adds(base, pool, ids, contents),
           NEW valid, valid \in Validity, NEW owner, owner \in Ownership,
           NEW added, added = NewRefs(End(base), ids, contents, valid, owner)
    PROVE  Added(base, pool, ids, valid, owner, Joined(base, added))
<1> DEFINE new == base \o added
<1>0. /\ base \in Seq(Ref) /\ Tiled(base, pool)
      /\ ids \in Seq(BlockIds) /\ Cut(contents) /\ Len(contents) = Len(ids)
      /\ \A k \in 1 .. Len(ids) : ids[k] \in DOMAIN pool /\ pool[ids[k]].tokens = contents[k]
  BY DEF Adds
<1>1. Len(base) \in Nat /\ Len(ids) \in Nat /\ \A k \in 1 .. Len(base) : base[k] \in Ref
  BY <1>0
<1>2. End(base) \in Nat /\ End(base) = IF Len(base) = 0 THEN 0 ELSE base[Len(base)].end
  BY <1>1, EmptySeq, RefFields DEF End, Last
<1>3. /\ added \in Seq(Ref) /\ Len(added) = Len(ids)
      /\ \A k \in 1 .. Len(ids) :
            /\ added[k].valid = valid /\ added[k].owner = owner /\ added[k].block = ids[k]
            /\ added[k].end = added[k].start + Len(contents[k])
            /\ added[k].start = IF k = 1 THEN End(base) ELSE added[k - 1].end
  <2>1. NewRefsFor(End(base), ids, contents)
    BY <1>0, <1>2 DEF NewRefsFor
  <2> QED
    BY <2>1, NewRefsProperties
<1>4. /\ new \in Seq(Ref) /\ Len(new) = Len(base) + Len(ids)
      /\ \A k \in 1 .. Len(base) : new[k] = base[k]
      /\ \A k \in 1 .. Len(ids) : new[Len(base) + k] = added[k]
  <2>0. base \in Seq(Ref) /\ added \in Seq(Ref)
    BY <1>0, <1>3
  <2>1. new \in Seq(Ref) /\ Len(new) = Len(base) + Len(added)
    BY <2>0, ConcatProperties, Zenon
  <2>2. \A k \in 1 .. Len(base) + Len(added) :
           new[k] = IF k <= Len(base) THEN base[k] ELSE added[k - Len(base)]
    BY <1>0, <1>3, ConcatProperties
  <2>3. \A k \in 1 .. Len(base) : k \in 1 .. Len(base) + Len(added) /\ k <= Len(base)
    BY <1>1, <1>3
  <2>4. \A k \in 1 .. Len(ids) : /\ Len(base) + k \in 1 .. Len(base) + Len(added)
                                 /\ ~(Len(base) + k <= Len(base)) /\ Len(base) + k - Len(base) = k
    BY <1>1, <1>3
  <2> QED
    BY <1>3, <2>1, <2>2, <2>3, <2>4
<1> HIDE DEF new
<1>5. ASSUME NEW k \in 1 .. Len(new)
      PROVE  /\ new[k].block \in DOMAIN pool
             /\ new[k].end = new[k].start + Len(pool[new[k].block].tokens)
             /\ new[k].start = IF k = 1 THEN 0 ELSE new[k - 1].end
  <2>1. CASE k \in 1 .. Len(base)
    <3>1. k # 1 => k - 1 \in 1 .. Len(base)
      BY <1>1, <2>1
    <3> QED
      BY <1>0, <1>4, <2>1, <3>1 DEF Tiled
  <2>2. CASE k \notin 1 .. Len(base)
    <3>1. PICK j \in 1 .. Len(ids) : k = Len(base) + j
      <4>1. k - Len(base) \in 1 .. Len(ids) /\ k = Len(base) + (k - Len(base))
        BY <1>1, <1>4, <2>2
      <4> QED
        BY <4>1
    <3>2. new[k] = added[j]
      BY <1>4, <3>1
    <3>3. new[k].block = ids[j] /\ new[k].end = new[k].start + Len(contents[j])
      BY <1>3, <3>2
    <3>4. new[k].start = IF k = 1 THEN 0 ELSE new[k - 1].end
      <4>1. CASE j = 1
        <5>1. new[k].start = End(base) /\ k - 1 = Len(base)
          BY <1>1, <1>3, <3>1, <3>2, <4>1
        <5>2. CASE Len(base) = 0
          BY <5>1, <5>2, <1>2, <3>1, <4>1
        <5>3. CASE Len(base) # 0
          <6>1. Len(base) \in 1 .. Len(base) /\ k # 1
            BY <5>1, <5>3, <1>1
          <6> QED
            BY <5>1, <5>3, <6>1, <1>2, <1>4
        <5> QED
          BY <5>2, <5>3
      <4>2. CASE j # 1
        <5>1. j - 1 \in 1 .. Len(ids) /\ k - 1 = Len(base) + (j - 1) /\ k # 1
          BY <1>1, <3>1, <4>2
        <5>2. new[k - 1] = added[j - 1]
          BY <5>1, <1>4
        <5> QED
          BY <5>1, <5>2, <1>3, <3>2, <4>2
      <4> QED
        BY <4>1, <4>2
    <3> QED
      BY <1>0, <3>3, <3>4
  <2> QED
    BY <2>1, <2>2
<1>6. Tiled(new, pool)
  BY <1>5 DEF Tiled
<1>7. Joined(base, added) = new
  BY DEF Joined, new
<1>8. Added(base, pool, ids, valid, owner, new)
  BY <1>3, <1>4, <1>6 DEF Added
<1> QED
  BY <1>7, <1>8

LEMMA PrefixTiled ==
    ASSUME NEW refs \in Seq(Ref), NEW pool, Tiled(refs, pool), NEW m \in 0 .. Len(refs), NEW next,
           \A k \in 1 .. m : /\ refs[k].block \in DOMAIN next
                             /\ next[refs[k].block].tokens = pool[refs[k].block].tokens
    PROVE  /\ SubSeq(refs, 1, m) \in Seq(Ref) /\ Len(SubSeq(refs, 1, m)) = m
           /\ \A k \in 1 .. m : SubSeq(refs, 1, m)[k] = refs[k]
           /\ Tiled(SubSeq(refs, 1, m), next)
<1>1. /\ SubSeq(refs, 1, m) \in Seq(Ref) /\ Len(SubSeq(refs, 1, m)) = m
      /\ \A k \in 1 .. m : SubSeq(refs, 1, m)[k] = refs[k]
  <2>1. m \in Nat /\ \A k \in 1 .. m : refs[k] \in Ref
    OBVIOUS
  <2> QED
    BY <2>1, SubSeqProperties
<1>2. \A k \in 1 .. m : k \in 1 .. Len(refs) /\ (k # 1 => k - 1 \in 1 .. m)
  OBVIOUS
<1> DEFINE new == SubSeq(refs, 1, m)
<1> HIDE DEF new
<1>3. ASSUME NEW k \in 1 .. m
      PROVE  /\ new[k].block \in DOMAIN next
             /\ new[k].end = new[k].start + Len(next[new[k].block].tokens)
             /\ new[k].start = IF k = 1 THEN 0 ELSE new[k - 1].end
  <2>1. new[k] = refs[k] /\ (k # 1 => new[k - 1] = refs[k - 1])
    BY <1>1, <1>2 DEF new
  <2> QED
    BY <1>2, <2>1 DEF Tiled
<1>4. Tiled(new, next)
  BY <1>1, <1>3 DEF Tiled, new
<1> QED
  BY <1>1, <1>4 DEF new

\* The references after the first m may be replaced by r.
Ends(refs, pool, next, m, r) ==
    /\ refs \in Seq(Ref) /\ Tiled(refs, pool) /\ m \in 0 .. Len(refs) - 1 /\ r \in Ref
    /\ \A k \in 1 .. m : /\ refs[k].block \in DOMAIN next
                         /\ next[refs[k].block].tokens = pool[refs[k].block].tokens
    /\ r.start = refs[m + 1].start /\ r.block \in DOMAIN next
    /\ r.end = r.start + Len(next[r.block].tokens)

Ended(refs, next, m, r, new) ==
    /\ new \in Seq(Ref) /\ Len(new) = m + 1
    /\ \A k \in 1 .. m : new[k] = refs[k]
    /\ new[m + 1] = r
    /\ Tiled(new, next)
    /\ End(new) = r.end

LEMMA ReplacedTiled ==
    ASSUME NEW refs, NEW pool, NEW next, NEW m, NEW r, Ends(refs, pool, next, m, r)
    PROVE  Ended(refs, next, m, r, Ending(refs, m, r))
<1> DEFINE before == SubSeq(refs, 1, m)
           new == Append(before, r)
<1>0. /\ refs \in Seq(Ref) /\ Tiled(refs, pool) /\ m \in 0 .. Len(refs) - 1 /\ r \in Ref
      /\ \A k \in 1 .. m : /\ refs[k].block \in DOMAIN next
                           /\ next[refs[k].block].tokens = pool[refs[k].block].tokens
      /\ r.start = refs[m + 1].start /\ r.block \in DOMAIN next
      /\ r.end = r.start + Len(next[r.block].tokens)
  BY DEF Ends
<1>1. m \in 0 .. Len(refs) /\ m \in Nat /\ m + 1 \in 1 .. Len(refs)
  BY <1>0
<1>2. /\ before \in Seq(Ref) /\ Len(before) = m
      /\ \A k \in 1 .. m : before[k] = refs[k]
      /\ Tiled(before, next)
  BY <1>0, <1>1, PrefixTiled
<1> HIDE DEF before
<1>3. /\ new \in Seq(Ref) /\ Len(new) = m + 1
      /\ \A k \in 1 .. m : new[k] = refs[k]
      /\ new[m + 1] = r
  BY <1>0, <1>1, <1>2
<1>4. Ending(refs, m, r) = new
  BY DEF Ending, before
<1> HIDE DEF new
<1>5. ASSUME NEW k \in 1 .. m + 1
      PROVE  /\ new[k].block \in DOMAIN next
             /\ new[k].end = new[k].start + Len(next[new[k].block].tokens)
             /\ new[k].start = IF k = 1 THEN 0 ELSE new[k - 1].end
  <2>1. CASE k \in 1 .. m
    <3>1. k # 1 => k - 1 \in 1 .. m
      BY <1>1, <2>1
    <3>2. k \in 1 .. Len(before) /\ before[k] = refs[k] /\ new[k] = refs[k]
      BY <1>2, <1>3, <2>1
    <3>3. k # 1 => before[k - 1] = refs[k - 1] /\ new[k - 1] = refs[k - 1]
      BY <1>2, <1>3, <3>1
    <3> QED
      BY <1>2, <3>2, <3>3 DEF Tiled
  <2>2. CASE k = m + 1
    <3>1. r.start = IF k = 1 THEN 0 ELSE refs[k - 1].end
      BY <1>0, <1>1, <2>2 DEF Tiled
    <3>2. k # 1 => k - 1 \in 1 .. m
      BY <1>1, <2>2
    <3> QED
      BY <1>0, <1>3, <2>2, <3>1, <3>2
  <2> QED
    BY <1>1, <2>1, <2>2
<1>6. Tiled(new, next)
  BY <1>3, <1>5 DEF Tiled
<1>7. End(new) = r.end
  BY <1>1, <1>3, EmptySeq DEF End, Last
<1>8. Ended(refs, next, m, r, new)
  BY <1>3, <1>6, <1>7 DEF Ended
<1> QED
  BY <1>4, <1>8

LEMMA TiledIsOrdered ==
    ASSUME NEW refs \in Seq(Ref), NEW pool, Tiled(refs, pool), PoolOK(pool)
    PROVE  /\ \A k \in 1 .. Len(refs) : refs[k].start < refs[k].end
           /\ \A j, k \in 1 .. Len(refs) : j < k => refs[j].end <= refs[k].start
<1>1. ASSUME NEW k \in 1 .. Len(refs)
      PROVE  refs[k].start < refs[k].end /\ refs[k].start \in Nat /\ refs[k].end \in Nat
  <2>1. Len(pool[refs[k].block].tokens) \in Nat \ {0}
    BY CacheAssumption DEF Tiled, PoolOK
  <2> QED
    BY <2>1, RefFields DEF Tiled
<1>2. ASSUME NEW j \in 1 .. Len(refs), NEW k \in 1 .. Len(refs), j < k
      PROVE  refs[j].end <= refs[k].start
  <2> DEFINE Bad == {n \in 1 .. Len(refs) : j < n /\ ~(refs[j].end <= refs[n].start)}
  <2>1. SUFFICES ASSUME Bad # {} PROVE FALSE
    BY <1>2
  <2>2. PICK n \in Bad : \A i \in Bad : n <= i
    <3>1. Bad \in SUBSET Nat
      OBVIOUS
    <3> QED
      BY <2>1, <3>1, LeastOf
  <2>3. /\ n \in 1 .. Len(refs) /\ n - 1 \in 1 .. Len(refs) /\ n # 1 /\ n - 1 < n
        /\ refs[n].start = refs[n - 1].end
    BY <2>2 DEF Tiled
  <2>4. CASE j = n - 1
    BY <1>1, <2>2, <2>3, <2>4
  <2>5. CASE j # n - 1
    <3>1. j < n - 1 /\ n - 1 \notin Bad
      BY <2>2, <2>3, <2>5
    <3>2. refs[j].end <= refs[n - 1].start
      BY <2>3, <3>1
    <3> QED
      BY <1>1, <2>2, <2>3, <3>2
  <2> QED
    BY <2>4, <2>5
<1> QED
  BY <1>1, <1>2

\* Where a rollback cuts: the references before m + 1 are kept, m + 1 may
\* straddle the cut, those after it are dropped.
LEMMA CutPoint ==
    ASSUME NEW refs \in Seq(Ref), NEW pool, Tiled(refs, pool), PoolOK(pool), NEW from \in Nat
    PROVE  \E m \in 0 .. Len(refs) :
               /\ \A k \in 1 .. m : refs[k].end <= from
               /\ \A k \in m + 1 .. Len(refs) : from < refs[k].end
               /\ \A k \in m + 2 .. Len(refs) : from <= refs[k].start
<1> DEFINE Past == {k \in 1 .. Len(refs) : from < refs[k].end}
<1>0. \A k \in 1 .. Len(refs) : refs[k].end \in Nat /\ refs[k].start \in Nat
  BY RefFields
<1>1. CASE Past = {}
  <2>1. Len(refs) \in 0 .. Len(refs) /\ Len(refs) + 1 .. Len(refs) = {}
        /\ Len(refs) + 2 .. Len(refs) = {}
    OBVIOUS
  <2>2. \A k \in 1 .. Len(refs) : refs[k].end <= from
    BY <1>0, <1>1
  <2> QED
    BY <2>1, <2>2
<1>2. CASE Past # {}
  <2>1. PICK n \in Past : \A k \in Past : n <= k
    <3>1. Past \in SUBSET Nat
      OBVIOUS
    <3> QED
      BY <1>2, <3>1, LeastOf
  <2>2. n \in 1 .. Len(refs) /\ n - 1 \in 0 .. Len(refs) /\ from < refs[n].end
    BY <2>1
  <2>3. \A k \in 1 .. n - 1 : refs[k].end <= from
    BY <1>0, <2>1, <2>2
  <2>4. ASSUME NEW k \in (n - 1) + 2 .. Len(refs) PROVE from <= refs[k].start /\ from < refs[k].end
    <3>1. k \in 1 .. Len(refs) /\ n < k
      BY <2>2
    <3>2. refs[n].end <= refs[k].start /\ refs[k].start < refs[k].end
      BY <2>2, <3>1, TiledIsOrdered
    <3> QED
      BY <1>0, <2>2, <3>1, <3>2
  <2>5. \A k \in (n - 1) + 1 .. Len(refs) : k = n \/ k \in (n - 1) + 2 .. Len(refs)
    BY <2>2
  <2>6. \A k \in (n - 1) + 1 .. Len(refs) : from < refs[k].end
    BY <2>2, <2>4, <2>5
  <2> QED
    BY <2>2, <2>3, <2>4, <2>6
<1> QED
  BY <1>1, <1>2

-----------------------------------------------------------------------------
(***************************************************************************)
(* The operations of the pool                                              *)
(***************************************************************************)

\* How many of the references after m are to block i.
Lost(refs, m, i) == Cardinality({k \in m + 1 .. Len(refs) : refs[k].block = i})

\* The references after the first m.
After(refs, m) == [n \in 1 .. Len(refs) - m |-> refs[m + n]]

LEMMA LostIsFinite ==
    ASSUME NEW refs \in Seq(Ref), NEW m \in Nat, NEW i
    PROVE  /\ IsFiniteSet({k \in m + 1 .. Len(refs) : refs[k].block = i})
           /\ Lost(refs, m, i) \in Nat
<1>1. IsFiniteSet(m + 1 .. Len(refs))
  <2>1. m + 1 \in Int /\ Len(refs) \in Int
    OBVIOUS
  <2> QED
    BY <2>1, FS_Interval
<1>2. {k \in m + 1 .. Len(refs) : refs[k].block = i} \in SUBSET (m + 1 .. Len(refs))
  OBVIOUS
<1>3. IsFiniteSet({k \in m + 1 .. Len(refs) : refs[k].block = i})
  BY <1>1, <1>2, FS_Subset
<1> QED
  BY <1>3, FS_CardinalityType DEF Lost

LEMMA AfterIsLost ==
    ASSUME NEW refs \in Seq(Ref), NEW m \in 0 .. Len(refs), NEW i
    PROVE  RefsTo(After(refs, m), i) = Lost(refs, m, i)
<1> DEFINE A == {k \in m + 1 .. Len(refs) : refs[k].block = i}
           B == {n \in 1 .. Len(refs) - m : refs[m + n].block = i}
           f == [k \in A |-> k - m]
<1>0. m \in Nat
  OBVIOUS
<1>1. IsFiniteSet(A)
  BY <1>0, LostIsFinite
<1>2. f \in [A -> B]
  OBVIOUS
<1>3. \A a, b \in A : f[a] = f[b] => a = b
  OBVIOUS
<1>4. \A n \in B : \E a \in A : f[a] = n
  <2> SUFFICES ASSUME NEW n \in B PROVE \E a \in A : f[a] = n
    OBVIOUS
  <2>1. m + n \in A /\ f[m + n] = n
    OBVIOUS
  <2> QED
    BY <2>1
<1>5. ExistsBijection(A, B)
  <2> HIDE DEF A, B, f
  <2>1. f \in Injection(A, B)
    BY <1>2, <1>3 DEF Injection, IsInjective
  <2>2. f \in Surjection(A, B)
    BY <1>2, <1>4 DEF Surjection
  <2> QED
    BY <2>1, <2>2 DEF ExistsBijection, Bijection
<1>6. Cardinality(B) = Cardinality(A)
  <2> HIDE DEF A, B, f
  <2> QED
    BY <1>1, <1>5, FS_Bijection
<1>7. {k \in DOMAIN After(refs, m) : After(refs, m)[k].block = i} = B
  BY DEF After
<1> HIDE DEF B
<1> QED
  BY <1>6, <1>7 DEF RefsTo, Lost

\* Ids for new blocks.
FreshFor(ids, pool) ==
    /\ ids \in Seq(BlockIds)
    /\ \A k \in 1 .. Len(ids) : ids[k] \notin DOMAIN pool
    /\ \A j, k \in 1 .. Len(ids) : ids[j] = ids[k] => j = k

Fills(ids, contents) ==
    \A k \in 1 .. Len(ids) : contents[k] \in Seq(Nat) /\ Len(contents[k]) \in 1 .. BlockSize

\* The pool with blocks ids, holding contents, added.
Allocated(pool, next, ids, contents) ==
    /\ DOMAIN next = DOMAIN pool \cup {ids[k] : k \in 1 .. Len(ids)}
    /\ \A i \in DOMAIN pool : next[i] = pool[i]
    /\ \A k \in 1 .. Len(ids) : next[ids[k]].tokens = contents[k] /\ next[ids[k]].count = 1
    /\ PoolOK(next)

LEMMA AllocateProperties ==
    ASSUME NEW pool, PoolOK(pool), NEW ids, FreshFor(ids, pool), NEW contents, Fills(ids, contents)
    PROVE  Allocated(pool, Allocate(pool, ids, contents), ids, contents)
<1> DEFINE next == Allocate(pool, ids, contents)
<1>0. /\ ids \in Seq(BlockIds)
      /\ \A k \in 1 .. Len(ids) : /\ ids[k] \notin DOMAIN pool
                                  /\ contents[k] \in Seq(Nat)
                                  /\ Len(contents[k]) \in 1 .. BlockSize
      /\ \A j, k \in 1 .. Len(ids) : ids[j] = ids[k] => j = k
  BY DEF FreshFor, Fills
<1>1. DOMAIN ids = 1 .. Len(ids) /\ Len(ids) \in Nat
  BY <1>0
<1>2. Range(ids) = {ids[k] : k \in 1 .. Len(ids)}
  BY <1>1 DEF Range
<1>3. next = [i \in DOMAIN pool \cup {ids[k] : k \in 1 .. Len(ids)} |->
        IF i \in DOMAIN pool THEN pool[i]
        ELSE [tokens |-> contents[CHOOSE k \in 1 .. Len(ids) : ids[k] = i], count |-> 1]]
  BY <1>1, <1>2 DEF Allocate
<1> HIDE DEF next
<1>4. ASSUME NEW k \in 1 .. Len(ids)
      PROVE  (CHOOSE j \in 1 .. Len(ids) : ids[j] = ids[k]) = k
  BY <1>0
<1>5. \A k \in 1 .. Len(ids) : next[ids[k]] = [tokens |-> contents[k], count |-> 1]
  <2> DEFINE pos(i) == CHOOSE k \in 1 .. Len(ids) : ids[k] = i
  <2>1. next = [i \in DOMAIN pool \cup {ids[k] : k \in 1 .. Len(ids)} |->
          IF i \in DOMAIN pool THEN pool[i] ELSE [tokens |-> contents[pos(i)], count |-> 1]]
    BY <1>3
  <2>2. \A k \in 1 .. Len(ids) : pos(ids[k]) = k
    BY <1>4
  <2> HIDE DEF pos
  <2> QED
    BY <1>0, <2>1, <2>2
<1>6. DOMAIN next = DOMAIN pool \cup {ids[k] : k \in 1 .. Len(ids)}
  BY <1>3
<1>7. \A i \in DOMAIN pool : next[i] = pool[i]
  BY <1>3
<1>8. \A k \in 1 .. Len(ids) : /\ ids[k] \in BlockIds
                               /\ [tokens |-> contents[k], count |-> 1] \in Block
  BY <1>0 DEF Block
<1>9. ASSUME NEW i \in DOMAIN next PROVE next[i] \in Block /\ Len(next[i].tokens) \in 1 .. BlockSize
  <2>1. CASE i \in DOMAIN pool
    BY <2>1, <1>7 DEF PoolOK
  <2>2. CASE i \notin DOMAIN pool
    <3>1. PICK k \in 1 .. Len(ids) : i = ids[k]
      BY <2>2, <1>6
    <3>2. next[i] = [tokens |-> contents[k], count |-> 1]
      BY <3>1, <1>5
    <3> QED
      BY <1>0, <1>8, <3>2
  <2> QED
    BY <2>1, <2>2
<1>10. DOMAIN next \subseteq BlockIds
  BY <1>6, <1>8 DEF PoolOK
<1>11. PoolOK(next)
  BY <1>9, <1>10 DEF PoolOK
<1>12. \A k \in 1 .. Len(ids) : next[ids[k]].tokens = contents[k] /\ next[ids[k]].count = 1
  <2> SUFFICES ASSUME NEW k \in 1 .. Len(ids)
               PROVE  next[ids[k]].tokens = contents[k] /\ next[ids[k]].count = 1
    OBVIOUS
  <2> DEFINE c == contents[k]
             e == next[ids[k]]
  <2>1. e = [tokens |-> c, count |-> 1]
    BY <1>5
  <2> HIDE DEF c, e
  <2>2. e.tokens = c /\ e.count = 1
    BY <2>1
  <2> QED
    BY <2>2 DEF c, e
<1>13. Allocated(pool, next, ids, contents)
  BY <1>6, <1>7, <1>11, <1>12 DEF Allocated
<1> QED
  BY <1>13 DEF next

LEMMA DecrefProperties ==
    ASSUME NEW pool, PoolOK(pool), NEW refs \in Seq(Ref), NEW m \in 0 .. Len(refs),
           NEW next, next = Decref(pool, After(refs, m))
    PROVE  /\ DOMAIN next \subseteq DOMAIN pool
           /\ \A i \in DOMAIN pool : i \in DOMAIN next <=> pool[i].count > Lost(refs, m, i)
           /\ \A i \in DOMAIN next : /\ next[i].tokens = pool[i].tokens
                                     /\ next[i].count = pool[i].count - Lost(refs, m, i)
           /\ PoolOK(next)
<1>1. \A i : RefsTo(After(refs, m), i) = Lost(refs, m, i) /\ Lost(refs, m, i) \in Nat
  <2>1. m \in Nat
    OBVIOUS
  <2> QED
    BY <2>1, AfterIsLost, LostIsFinite
<1>2. next = [i \in {j \in DOMAIN pool : pool[j].count > Lost(refs, m, j)} |->
                [pool[i] EXCEPT !.count = @ - Lost(refs, m, i)]]
  BY <1>1 DEF Decref
<1>3. DOMAIN next = {j \in DOMAIN pool : pool[j].count > Lost(refs, m, j)}
  BY <1>2
<1>4. ASSUME NEW i \in DOMAIN next
      PROVE  /\ next[i].tokens = pool[i].tokens
             /\ next[i].count = pool[i].count - Lost(refs, m, i)
             /\ next[i] \in Block /\ Len(next[i].tokens) \in 1 .. BlockSize
  <2>1. next[i] = [pool[i] EXCEPT !.count = @ - Lost(refs, m, i)]
    BY <1>2
  <2>2. /\ pool[i] \in Block /\ Len(pool[i].tokens) \in 1 .. BlockSize
        /\ pool[i].count > Lost(refs, m, i) /\ Lost(refs, m, i) \in Nat
    BY <1>1, <1>3 DEF PoolOK
  <2>3. pool[i].count - Lost(refs, m, i) \in Nat \ {0}
    BY <2>2 DEF Block
  <2> QED
    BY <2>1, <2>2, <2>3 DEF Block
<1> QED
  BY <1>3, <1>4 DEF PoolOK

LEMMA RewriteProperties ==
    ASSUME NEW pool, PoolOK(pool), NEW w \in DOMAIN pool, NEW ts \in Seq(Nat),
           Len(ts) \in 1 .. BlockSize, NEW next, next = Rewrite(pool, w, ts)
    PROVE  /\ DOMAIN next = DOMAIN pool
           /\ \A i \in DOMAIN pool : /\ next[i].count = pool[i].count
                                     /\ i # w => next[i] = pool[i]
           /\ next[w].tokens = ts
           /\ PoolOK(next)
<1>1. DOMAIN next = DOMAIN pool
  BY DEF Rewrite
<1>2. \A i \in DOMAIN pool : i # w => next[i] = pool[i]
  BY DEF Rewrite
<1>3. next[w] = [pool[w] EXCEPT !.tokens = ts]
  BY DEF Rewrite
<1>4. pool[w] \in Block
  BY DEF PoolOK
<1>5. next[w].tokens = ts /\ next[w].count = pool[w].count /\ next[w] \in Block
  BY <1>3, <1>4 DEF Block
<1> QED
  BY <1>1, <1>2, <1>5 DEF PoolOK

-----------------------------------------------------------------------------
(***************************************************************************)
(* Tables of lists, and the places in them that refer to a block           *)
(***************************************************************************)

Slots(table, i) ==
    {p \in UNION {{<<l, k>> : k \in DOMAIN table[l]} : l \in DOMAIN table} :
        table[p[1]][p[2]].block = i}

\* The counts are those of the slots, and no reference dangles.
Counted(table, pool) ==
    /\ \A l \in DOMAIN table : \A k \in 1 .. Len(table[l]) : table[l][k].block \in DOMAIN pool
    /\ \A i \in DOMAIN pool : /\ IsFiniteSet(Slots(table, i))
                              /\ pool[i].count = Cardinality(Slots(table, i))

\* A reference of a branch that is not a shared one is the only one to its block.
Sole(table) ==
    \A l, m \in DOMAIN table : \A k \in 1 .. Len(table[l]), j \in 1 .. Len(table[m]) :
        l[1] = "branch" /\ table[l][k].owner # "shared" /\ table[m][j].block = table[l][k].block
            => m = l /\ j = k

Laid(table, pool) == \A l \in DOMAIN table : Tiled(table[l], pool)

(***************************************************************************)
(* One list is replaced: its first m references keep their blocks, the     *)
(* others are counted off, and what follows the first m refers to blocks   *)
(* of its own.  A block that is written to belongs to this list alone.     *)
(***************************************************************************)
Replaces(pool, next, old, new, m) ==
    /\ m \in 0 .. Len(old) /\ m <= Len(new)
    /\ \A k \in 1 .. m : new[k].block = old[k].block /\ new[k].owner = old[k].owner
    /\ \A k \in m + 1 .. Len(new) : /\ new[k].block \notin DOMAIN pool
                                    /\ new[k].block \in DOMAIN next
                                    /\ next[new[k].block].count = 1
    /\ \A j, k \in m + 1 .. Len(new) : new[j].block = new[k].block => j = k
    /\ \A i \in DOMAIN next : i \in DOMAIN pool \/ \E k \in m + 1 .. Len(new) : new[k].block = i
    /\ \A i \in DOMAIN pool : i \in DOMAIN next <=> pool[i].count > Lost(old, m, i)
    /\ \A i \in DOMAIN pool \cap DOMAIN next :
          /\ next[i].count = pool[i].count - Lost(old, m, i)
          /\ next[i].tokens # pool[i].tokens =>
                pool[i].count = 1 /\ \E k \in 1 .. m : old[k].block = i

\* p = <<l, k>> is a slot of i: the k-th reference of list l is to block i.
IsSlot(Names, table, i, p) ==
    \E l \in Names : \E k \in 1 .. Len(table[l]) : p = <<l, k>> /\ table[l][k].block = i

LEMMA InSlots ==
    ASSUME NEW Names, NEW table \in [Names -> Seq(Ref)], NEW i, NEW p
    PROVE  p \in Slots(table, i) <=> IsSlot(Names, table, i, p)
<1>1. DOMAIN table = Names /\ \A l \in Names : DOMAIN table[l] = 1 .. Len(table[l])
  OBVIOUS
<1>2. ASSUME p \in Slots(table, i) PROVE IsSlot(Names, table, i, p)
  <2>1. /\ \E l \in DOMAIN table : p \in {<<l, k>> : k \in DOMAIN table[l]}
        /\ table[p[1]][p[2]].block = i
    BY <1>2 DEF Slots
  <2>2. PICK l \in Names : \E k \in 1 .. Len(table[l]) : p = <<l, k>>
    BY <1>1, <2>1
  <2>3. PICK k \in 1 .. Len(table[l]) : p = <<l, k>>
    BY <2>2
  <2>4. p[1] = l /\ p[2] = k
    BY <2>3
  <2> QED
    BY <2>1, <2>3, <2>4 DEF IsSlot
<1>3. ASSUME IsSlot(Names, table, i, p) PROVE p \in Slots(table, i)
  <2>1. PICK l \in Names : \E k \in 1 .. Len(table[l]) : p = <<l, k>> /\ table[l][k].block = i
    BY <1>3 DEF IsSlot
  <2>2. PICK k \in 1 .. Len(table[l]) : p = <<l, k>> /\ table[l][k].block = i
    BY <2>1
  <2>3. p[1] = l /\ p[2] = k
    BY <2>2
  <2>4. p \in UNION {{<<n, j>> : j \in DOMAIN table[n]} : n \in DOMAIN table}
    BY <1>1, <2>2
  <2> QED
    BY <2>2, <2>3, <2>4 DEF Slots
<1> QED
  BY <1>2, <1>3

\* List l is the only one replaced.
Updates(Names, table, changed, l, pool, next, m) ==
    /\ table \in [Names -> Seq(Ref)] /\ changed \in [Names -> Seq(Ref)] /\ l \in Names
    /\ \A n \in Names : n # l => changed[n] = table[n]
    /\ Counted(table, pool)
    /\ m \in Nat /\ Replaces(pool, next, table[l], changed[l], m)

\* The slots of list l after m that refer to i.
Gone(l, refs, m, i) == {<<l, k>> : k \in {k \in m + 1 .. Len(refs) : refs[k].block = i}}

LEMMA ReplacedSlots ==
    ASSUME NEW Names, NEW table, NEW changed, NEW l, NEW pool, NEW next, NEW m,
           Updates(Names, table, changed, l, pool, next, m)
    PROVE  /\ \A i \in DOMAIN pool : Slots(changed, i) = Slots(table, i) \ Gone(l, table[l], m, i)
           /\ \A k \in m + 1 .. Len(changed[l]) :
                 Slots(changed, changed[l][k].block) = {<<l, k>>}
<1> DEFINE old == table[l]
           new == changed[l]
<1>1. /\ changed \in [Names -> Seq(Ref)] /\ DOMAIN table = Names
      /\ changed[l] = new /\ l \in Names /\ table \in [Names -> Seq(Ref)] /\ \A n \in Names : n # l => changed[n] = table[n]
      /\ old \in Seq(Ref) /\ Len(old) \in Nat /\ Len(new) \in Nat
      /\ m \in Nat /\ m <= Len(old) /\ m <= Len(new)
  BY DEF Updates, Replaces
<1>0. Counted(table, pool) /\ Replaces(pool, next, old, new, m)
  BY DEF Updates
<1>2. \A i, p : p \in Slots(changed, i) <=> IsSlot(Names, changed, i, p)
  BY <1>1, InSlots
<1>3. \A i, p : p \in Slots(table, i) <=> IsSlot(Names, table, i, p)
  BY <1>1, InSlots
<1>4. ASSUME NEW i \in DOMAIN pool
      PROVE  Slots(changed, i) = Slots(table, i) \ Gone(l, old, m, i)
  <2> DEFINE gone == Gone(l, old, m, i)
  <2>1. ASSUME NEW n \in Names, NEW k \in Nat
        PROVE  <<n, k>> \in gone <=> n = l /\ k \in m + 1 .. Len(old) /\ old[k].block = i
    BY DEF Gone
  <2>2. ASSUME NEW p \in Slots(changed, i) PROVE p \in Slots(table, i) \ gone
    <3>1. PICK n \in Names : \E k \in 1 .. Len(changed[n]) :
              p = <<n, k>> /\ changed[n][k].block = i
      <4>1. IsSlot(Names, changed, i, p)
        BY <1>2
      <4> QED
        BY <4>1, Zenon DEF IsSlot
    <3>2. PICK k \in 1 .. Len(changed[n]) : p = <<n, k>> /\ changed[n][k].block = i
      BY <3>1
    <3>3. k \in Nat
      OBVIOUS
    <3>4. /\ k \in 1 .. Len(table[n]) /\ table[n][k].block = i
          /\ ~(n = l /\ k \in m + 1 .. Len(old))
      <4>1. CASE n # l
        BY <1>1, <3>2, <4>1
      <4>2. CASE n = l
        <5>1. k \in 1 .. Len(new) /\ new[k].block = i
          BY <1>1, <3>2, <4>2
        <5>2. k \in 1 .. m
          BY <1>0, <1>1, <5>1 DEF Replaces
        <5> QED
          BY <1>0, <1>1, <4>2, <5>1, <5>2 DEF Replaces
      <4> QED
        BY <4>1, <4>2
    <3>5. p \notin gone
      BY <2>1, <3>2, <3>3, <3>4
    <3>6. p \in Slots(table, i)
      BY <1>3, <3>2, <3>4 DEF IsSlot
    <3> QED
      BY <3>5, <3>6
  <2>3. ASSUME NEW p \in Slots(table, i), p \notin gone PROVE p \in Slots(changed, i)
    <3>1. PICK n \in Names : \E k \in 1 .. Len(table[n]) :
              p = <<n, k>> /\ table[n][k].block = i
      BY <1>3 DEF IsSlot
    <3>2. PICK k \in 1 .. Len(table[n]) : p = <<n, k>> /\ table[n][k].block = i
      BY <3>1
    <3>3. k \in Nat
      OBVIOUS
    <3>4. k \in 1 .. Len(changed[n]) /\ changed[n][k].block = i
      <4>1. CASE n # l
        BY <1>1, <3>2, <4>1
      <4>2. CASE n = l
        <5>1. k \in 1 .. Len(old) /\ old[k].block = i
          BY <3>2, <4>2
        <5>2. ~(k \in m + 1 .. Len(old))
          BY <2>1, <2>3, <3>2, <3>3, <4>2, <5>1
        <5>3. k \in 1 .. m
          BY <1>1, <5>1, <5>2
        <5> QED
          BY <1>0, <1>1, <4>2, <5>1, <5>3 DEF Replaces
      <4> QED
        BY <4>1, <4>2
    <3> QED
      BY <1>2, <3>2, <3>4 DEF IsSlot
  <2> HIDE DEF gone
  <2>4. Slots(changed, i) = Slots(table, i) \ gone
    BY <2>2, <2>3
  <2> QED
    BY <2>4 DEF gone
<1>5. ASSUME NEW k \in m + 1 .. Len(new) PROVE Slots(changed, new[k].block) = {<<l, k>>}
  <2> DEFINE i == new[k].block
  <2>1. i \notin DOMAIN pool
    BY <1>0 DEF Replaces
  <2>2. k \in 1 .. Len(changed[l]) /\ changed[l][k].block = i
    BY <1>1
  <2>3. <<l, k>> \in Slots(changed, i)
    BY <1>1, <1>2, <2>2 DEF IsSlot
  <2>4. ASSUME NEW p \in Slots(changed, i) PROVE p = <<l, k>>
    <3>1. PICK n \in Names : \E j \in 1 .. Len(changed[n]) :
              p = <<n, j>> /\ changed[n][j].block = i
      <4>1. IsSlot(Names, changed, i, p)
        BY <1>2
      <4> QED
        BY <4>1, Zenon DEF IsSlot
    <3>2. PICK j \in 1 .. Len(changed[n]) : p = <<n, j>> /\ changed[n][j].block = i
      BY <3>1
    <3>3. n = l
      BY <1>0, <1>1, <2>1, <3>2 DEF Counted
    <3>4. j \in 1 .. Len(new) /\ new[j].block = i
      BY <1>1, <3>2, <3>3
    <3>5. j \notin 1 .. m
      <4> SUFFICES ASSUME j \in 1 .. m PROVE FALSE
        OBVIOUS
      <4>1. old[j].block = i /\ j \in 1 .. Len(old)
        BY <1>0, <1>1, <3>4 DEF Replaces
      <4> QED
        BY <1>0, <1>1, <2>1, <4>1 DEF Counted
    <3>6. j \in m + 1 .. Len(new)
      BY <1>1, <3>4, <3>5
    <3>7. j = k
      BY <1>0, <3>4, <3>6 DEF Replaces
    <3> QED
      BY <3>2, <3>3, <3>7
  <2> QED
    BY <2>3, <2>4
<1> QED
  BY <1>1, <1>4, <1>5

LEMMA LostSlots ==
    ASSUME NEW old \in Seq(Ref), NEW m \in Nat, NEW i, NEW l
    PROVE  /\ IsFiniteSet(Gone(l, old, m, i))
           /\ Cardinality(Gone(l, old, m, i)) = Lost(old, m, i)
<1> DEFINE A == {k \in m + 1 .. Len(old) : old[k].block = i}
           gone == {<<l, k>> : k \in A}
           f == [k \in A |-> <<l, k>>]
<1>1. IsFiniteSet(A)
  BY LostIsFinite
<1>2. Cardinality(A) = Lost(old, m, i)
  BY DEF Lost
<1> HIDE DEF A
<1>3. f \in [A -> gone] /\ \A a, b \in A : f[a] = f[b] => a = b
  OBVIOUS
<1>4. \A g \in gone : \E a \in A : f[a] = g
  OBVIOUS
<1> HIDE DEF gone, f
<1>5. f \in Injection(A, gone) /\ f \in Surjection(A, gone)
  BY <1>3, <1>4 DEF Injection, IsInjective, Surjection
<1>6. ExistsBijection(A, gone)
  BY <1>5 DEF ExistsBijection, Bijection
<1>7. IsFiniteSet(gone) /\ Cardinality(gone) = Cardinality(A)
  BY <1>1, <1>6, FS_Bijection
<1> QED
  BY <1>2, <1>7 DEF gone, A, Gone

LEMMA ReplacedCounted ==
    ASSUME NEW Names, NEW table, NEW changed, NEW l, NEW pool, NEW next, NEW m,
           Updates(Names, table, changed, l, pool, next, m)
    PROVE  Counted(changed, next)
<1> DEFINE old == table[l]
           new == changed[l]
<1>1. /\ changed \in [Names -> Seq(Ref)] /\ DOMAIN table = Names /\ DOMAIN changed = Names
      /\ changed[l] = new /\ l \in Names /\ table \in [Names -> Seq(Ref)] /\ \A n \in Names : n # l => changed[n] = table[n]
      /\ old \in Seq(Ref) /\ Len(old) \in Nat /\ Len(new) \in Nat
      /\ m \in Nat /\ m <= Len(old) /\ m <= Len(new)
  BY DEF Updates, Replaces
<1>0. Counted(table, pool) /\ Replaces(pool, next, old, new, m)
  BY DEF Updates
<1>2. /\ \A i \in DOMAIN pool : Slots(changed, i) = Slots(table, i) \ Gone(l, old, m, i)
      /\ \A k \in m + 1 .. Len(new) : Slots(changed, new[k].block) = {<<l, k>>}
  BY ReplacedSlots
<1>3. ASSUME NEW i \in DOMAIN pool
      PROVE  /\ IsFiniteSet(Slots(changed, i)) /\ Cardinality(Slots(changed, i)) \in Nat
             /\ Cardinality(Slots(changed, i)) = pool[i].count - Lost(old, m, i)
             /\ pool[i].count \in Nat /\ Lost(old, m, i) \in Nat
  <2>1. IsFiniteSet(Gone(l, old, m, i)) /\ Cardinality(Gone(l, old, m, i)) = Lost(old, m, i)
    BY <1>1, LostSlots
  <2>2. Gone(l, old, m, i) \subseteq Slots(table, i)
    <3>1. ASSUME NEW k \in m + 1 .. Len(old), old[k].block = i
          PROVE  <<l, k>> \in Slots(table, i)
      <4>1. k \in 1 .. Len(table[l])
        BY <1>1
      <4>2. IsSlot(Names, table, i, <<l, k>>)
        BY <1>1, <3>1, <4>1 DEF IsSlot
      <4> QED
        BY <1>1, <4>2, InSlots
    <3> HIDE DEF old
    <3> QED
      BY <3>1 DEF Gone
  <2> DEFINE S == Slots(table, i)
             G == Gone(l, old, m, i)
  <2>3. IsFiniteSet(Slots(table, i)) /\ pool[i].count = Cardinality(Slots(table, i))
    BY <1>0 DEF Counted
  <2>4. Slots(table, i) \cap Gone(l, old, m, i) = Gone(l, old, m, i)
    BY <2>2
  <2>5. /\ IsFiniteSet(Slots(table, i) \ Gone(l, old, m, i))
        /\ Cardinality(Slots(table, i) \ Gone(l, old, m, i)) = Cardinality(Slots(table, i)) - Cardinality(Gone(l, old, m, i))
    <3>1. IsFiniteSet(S) /\ S \cap G = G
      BY <2>3, <2>4
    <3> HIDE DEF S, G
    <3>2. IsFiniteSet(S \ G) /\ Cardinality(S \ G) = Cardinality(S) - Cardinality(G)
      BY <3>1, FS_Difference
    <3> QED
      BY <3>2 DEF S, G
  <2>6. /\ Cardinality(Slots(table, i)) \in Nat /\ Cardinality(Gone(l, old, m, i)) \in Nat
        /\ Cardinality(Slots(table, i) \ Gone(l, old, m, i)) \in Nat
    BY <2>1, <2>3, <2>5, FS_CardinalityType
  <2> QED
    BY <1>2, <2>1, <2>3, <2>5, <2>6
<1>4. ASSUME NEW n \in Names, NEW k \in 1 .. Len(changed[n])
      PROVE  changed[n][k].block \in DOMAIN next
  <2> DEFINE i == changed[n][k].block
  <2>1. CASE n = l /\ k \in m + 1 .. Len(new)
    BY <1>0, <1>1, <2>1 DEF Replaces
  <2>2. CASE ~(n = l /\ k \in m + 1 .. Len(new))
    <3>1. i \in DOMAIN pool
      <4>1. CASE n # l
        BY <1>0, <1>1, <4>1 DEF Counted
      <4>2. CASE n = l
        <5>1. k \in 1 .. m /\ k \in 1 .. Len(old)
          BY <1>1, <2>2, <4>2
        <5> QED
          BY <1>0, <1>1, <4>2, <5>1 DEF Replaces, Counted
      <4> QED
        BY <4>1, <4>2
    <3>2. IsSlot(Names, changed, i, <<n, k>>)
      BY DEF IsSlot
    <3> HIDE DEF i
    <3>3. Slots(changed, i) # {}
      BY <1>1, <3>2, InSlots
    <3>4. Cardinality(Slots(changed, i)) # 0
      BY <1>3, <3>1, <3>3, FS_EmptySet
    <3>5. pool[i].count > Lost(old, m, i)
      BY <1>3, <3>1, <3>4
    <3>6. i \in DOMAIN next
      BY <1>0, <3>1, <3>5 DEF Replaces
    <3> QED
      BY <3>6 DEF i
  <2> QED
    BY <2>1, <2>2
<1>5. ASSUME NEW i \in DOMAIN next
      PROVE  IsFiniteSet(Slots(changed, i)) /\ next[i].count = Cardinality(Slots(changed, i))
  <2>1. CASE i \in DOMAIN pool
    BY <1>0, <1>3, <2>1 DEF Replaces
  <2>2. CASE i \notin DOMAIN pool
    <3>1. PICK k \in m + 1 .. Len(new) : new[k].block = i
      BY <1>0, <2>2 DEF Replaces
    <3>2. Slots(changed, i) = {<<l, k>>} /\ next[i].count = 1
      BY <1>0, <1>2, <3>1 DEF Replaces
    <3> QED
      BY <3>2, FS_Singleton
  <2> QED
    BY <2>1, <2>2
<1> QED
  BY <1>0, <1>1, <1>4, <1>5 DEF Counted

\* A block that is counted once has one slot.
LEMMA OneSlot ==
    ASSUME NEW Names, NEW table, table \in [Names -> Seq(Ref)], NEW pool, Counted(table, pool),
           NEW i, i \in DOMAIN pool, pool[i].count = 1,
           NEW p, IsSlot(Names, table, i, p), NEW q, IsSlot(Names, table, i, q)
    PROVE  p = q
<1>1. IsFiniteSet(Slots(table, i)) /\ Cardinality(Slots(table, i)) = 1
  BY DEF Counted
<1>2. PICK x : Slots(table, i) = {x}
  BY <1>1, FS_Singleton
<1>3. p \in Slots(table, i) /\ q \in Slots(table, i)
  BY InSlots
<1> QED
  BY <1>2, <1>3

\* The blocks the list refers to are there, and hold what they held.
Untouched(refs, pool, next) ==
    \A k \in 1 .. Len(refs) : /\ refs[k].block \in DOMAIN next
                              /\ next[refs[k].block].tokens = pool[refs[k].block].tokens

\* No write to the list replaced reaches another one.
LEMMA OthersUntouched ==
    ASSUME NEW Names, NEW table, NEW changed, NEW l, NEW pool, NEW next, NEW m,
           Updates(Names, table, changed, l, pool, next, m),
           NEW n, n \in Names, n # l
    PROVE  Untouched(table[n], pool, next)
<1> DEFINE old == table[l]
           new == changed[l]
<1>0. Counted(table, pool) /\ Replaces(pool, next, old, new, m)
  BY DEF Updates
<1>1. /\ DOMAIN changed = Names /\ DOMAIN table = Names /\ l \in Names
      /\ table \in [Names -> Seq(Ref)] /\ Len(old) \in Nat /\ m \in Nat /\ m <= Len(old)
      /\ changed[n] = table[n]
  BY DEF Updates, Replaces
<1>2. Counted(changed, next)
  BY ReplacedCounted
<1>3. ASSUME NEW k \in 1 .. Len(table[n])
      PROVE  /\ table[n][k].block \in DOMAIN next
             /\ next[table[n][k].block].tokens = pool[table[n][k].block].tokens
  <2> DEFINE i == table[n][k].block
  <2>1. i \in DOMAIN pool
    BY <1>0, <1>1 DEF Counted
  <2>2. i \in DOMAIN next
    BY <1>1, <1>2 DEF Counted
  <2>3. ASSUME next[i].tokens # pool[i].tokens PROVE FALSE
    <3>1. pool[i].count = 1 /\ \E j \in 1 .. m : old[j].block = i
      BY <1>0, <2>1, <2>2, <2>3 DEF Replaces
    <3>2. PICK j \in 1 .. m : old[j].block = i
      BY <3>1
    <3>3. j \in 1 .. Len(old)
      BY <1>1
    <3>4. IsSlot(Names, table, i, <<l, j>>) /\ IsSlot(Names, table, i, <<n, k>>)
      BY <1>1, <3>2, <3>3 DEF IsSlot
    <3>5. <<l, j>> = <<n, k>>
      <4>1. table \in [Names -> Seq(Ref)] /\ Counted(table, pool)
        BY <1>0, <1>1
      <4> HIDE DEF i
      <4> QED
        BY <2>1, <3>1, <3>4, <4>1, OneSlot
    <3> QED
      BY <3>5
  <2> QED
    BY <2>2, <2>3
<1> QED
  BY <1>3 DEF Untouched

LEMMA ReplacedLaid ==
    ASSUME NEW Names, NEW table, NEW changed, NEW l, NEW pool, NEW next, NEW m,
           Updates(Names, table, changed, l, pool, next, m),
           Laid(table, pool), Tiled(changed[l], next)
    PROVE  Laid(changed, next)
<1>1. /\ DOMAIN changed = Names /\ DOMAIN table = Names /\ l \in Names
      /\ \A n \in Names : n # l => changed[n] = table[n]
  BY DEF Updates
<1>2. ASSUME NEW n \in Names, n # l PROVE Tiled(table[n], next)
  <2>1. Tiled(table[n], pool)
    BY <1>1 DEF Laid
  <2>2. Untouched(table[n], pool, next)
    BY <1>2, OthersUntouched
  <2> QED
    BY <2>1, <2>2 DEF Tiled, Untouched
<1>3. \A n \in Names : Tiled(changed[n], next)
  BY <1>1, <1>2
<1> QED
  BY <1>1, <1>3 DEF Laid

LEMMA SoleIf ==
    ASSUME NEW Names, NEW table, DOMAIN table = Names,
           \A l, m \in Names : \A k \in 1 .. Len(table[l]), j \in 1 .. Len(table[m]) :
               l[1] = "branch" /\ table[l][k].owner # "shared"
               /\ table[m][j].block = table[l][k].block => m = l /\ j = k
    PROVE  Sole(table)
BY DEF Sole

LEMMA ReplacedSole ==
    ASSUME NEW Names, NEW table, NEW changed, NEW l, NEW pool, NEW next, NEW m,
           Updates(Names, table, changed, l, pool, next, m), Sole(table)
    PROVE  Sole(changed)
<1> DEFINE old == table[l]
           new == changed[l]
<1>1. /\ changed \in [Names -> Seq(Ref)] /\ DOMAIN table = Names /\ DOMAIN changed = Names
      /\ changed[l] = new /\ l \in Names /\ table \in [Names -> Seq(Ref)] /\ \A n \in Names : n # l => changed[n] = table[n]
      /\ old \in Seq(Ref) /\ Len(old) \in Nat /\ Len(new) \in Nat
      /\ m \in Nat /\ m <= Len(old) /\ m <= Len(new)
  BY DEF Updates, Replaces
<1>0. Counted(table, pool) /\ Replaces(pool, next, old, new, m)
  BY DEF Updates
\* Every reference is new, or takes over an old one.
<1>2. ASSUME NEW n \in Names, NEW k \in 1 .. Len(changed[n])
      PROVE  \/ /\ k \in 1 .. Len(table[n]) /\ changed[n][k].block = table[n][k].block
                /\ changed[n][k].owner = table[n][k].owner
                /\ changed[n][k].block \in DOMAIN pool
             \/ n = l /\ k \in m + 1 .. Len(new) /\ changed[n][k].block \notin DOMAIN pool
  <2>1. CASE n # l
    BY <1>0, <1>1, <2>1 DEF Counted
  <2>2. CASE n = l /\ k \in m + 1 .. Len(new)
    BY <1>0, <1>1, <2>2 DEF Replaces
  <2>3. CASE n = l /\ k \notin m + 1 .. Len(new)
    <3>1. k \in 1 .. m /\ k \in 1 .. Len(old)
      BY <1>1, <2>3
    <3> QED
      BY <1>0, <1>1, <2>3, <3>1 DEF Replaces, Counted
  <2> QED
    BY <2>1, <2>2, <2>3
<1>3. ASSUME NEW n \in Names, NEW n2 \in Names,
             NEW k \in 1 .. Len(changed[n]), NEW j \in 1 .. Len(changed[n2]),
             n[1] = "branch", changed[n][k].owner # "shared",
             changed[n2][j].block = changed[n][k].block
      PROVE  n2 = n /\ j = k
  <2>1. CASE changed[n][k].block \in DOMAIN pool
    <3>1. /\ k \in 1 .. Len(table[n]) /\ changed[n][k].block = table[n][k].block
          /\ changed[n][k].owner = table[n][k].owner
      BY <1>2, <2>1
    <3>2. j \in 1 .. Len(table[n2]) /\ changed[n2][j].block = table[n2][j].block
      BY <1>2, <1>3, <2>1
    <3> QED
      BY <1>1, <1>3, <3>1, <3>2 DEF Sole
  <2>2. CASE changed[n][k].block \notin DOMAIN pool
    <3>1. n = l /\ k \in m + 1 .. Len(new)
      BY <1>2, <2>2
    <3>2. n2 = l /\ j \in m + 1 .. Len(new)
      BY <1>2, <1>3, <2>2
    <3> QED
      BY <1>0, <1>1, <1>3, <3>1, <3>2 DEF Replaces
  <2> QED
    BY <2>1, <2>2
<1>4. \A n, n2 \in Names : \A k \in 1 .. Len(changed[n]), j \in 1 .. Len(changed[n2]) :
          n[1] = "branch" /\ changed[n][k].owner # "shared"
          /\ changed[n2][j].block = changed[n][k].block => n2 = n /\ j = k
  BY <1>3
<1> QED
  BY <1>1, <1>4, SoleIf

-----------------------------------------------------------------------------
(***************************************************************************)
(* A list that shares the first references of another                      *)
(***************************************************************************)

\* How many of the first m references are to block i.
Lent(refs, m, i) == Cardinality({k \in 1 .. m : refs[k].block = i})

\* List l, empty before, gets the first m references of list src, as shared
\* ones; the pool counts them.
Forks(Names, table, changed, l, src, pool, next, m) ==
    /\ table \in [Names -> Seq(Ref)] /\ changed \in [Names -> Seq(Ref)]
    /\ l \in Names /\ src \in Names /\ src[1] # "branch"
    /\ \A n \in Names : n # l => changed[n] = table[n]
    /\ table[l] = <<>>
    /\ m \in 0 .. Len(table[src]) /\ Len(changed[l]) = m
    /\ \A k \in 1 .. m : /\ changed[l][k].block = table[src][k].block
                         /\ changed[l][k].start = table[src][k].start
                         /\ changed[l][k].end = table[src][k].end
                         /\ changed[l][k].owner = "shared"
    /\ DOMAIN next = DOMAIN pool
    /\ \A i \in DOMAIN pool : /\ next[i].tokens = pool[i].tokens
                              /\ next[i].count = pool[i].count + Lent(table[src], m, i)

LEMMA LentIsFinite ==
    ASSUME NEW refs, NEW m \in Nat, NEW i
    PROVE  /\ IsFiniteSet({k \in 1 .. m : refs[k].block = i})
           /\ Lent(refs, m, i) \in Nat
<1>1. IsFiniteSet(1 .. m)
  BY FS_Interval
<1>2. {k \in 1 .. m : refs[k].block = i} \in SUBSET (1 .. m)
  OBVIOUS
<1>3. IsFiniteSet({k \in 1 .. m : refs[k].block = i})
  BY <1>1, <1>2, FS_Subset
<1> QED
  BY <1>3, FS_CardinalityType DEF Lent

\* The slots of list l that refer to what list src lent it.
Got(l, refs, m, i) == {<<l, k>> : k \in {k \in 1 .. m : refs[k].block = i}}

LEMMA LentSlots ==
    ASSUME NEW refs, NEW m \in Nat, NEW i, NEW l
    PROVE  /\ IsFiniteSet(Got(l, refs, m, i))
           /\ Cardinality(Got(l, refs, m, i)) = Lent(refs, m, i)
<1> DEFINE A == {k \in 1 .. m : refs[k].block = i}
           got == {<<l, k>> : k \in A}
           f == [k \in A |-> <<l, k>>]
<1>1. IsFiniteSet(A)
  <2>1. IsFiniteSet(1 .. m)
    BY FS_Interval
  <2>2. A \in SUBSET (1 .. m)
    OBVIOUS
  <2> HIDE DEF A
  <2> QED
    BY <2>1, <2>2, FS_Subset
<1>2. Cardinality(A) = Lent(refs, m, i)
  BY DEF Lent
<1> HIDE DEF A
<1>3. f \in [A -> got] /\ \A a, b \in A : f[a] = f[b] => a = b
  OBVIOUS
<1>4. \A g \in got : \E a \in A : f[a] = g
  OBVIOUS
<1> HIDE DEF got, f
<1>5. f \in Injection(A, got) /\ f \in Surjection(A, got)
  BY <1>3, <1>4 DEF Injection, IsInjective, Surjection
<1>6. ExistsBijection(A, got)
  BY <1>5 DEF ExistsBijection, Bijection
<1>7. IsFiniteSet(got) /\ Cardinality(got) = Cardinality(A)
  BY <1>1, <1>6, FS_Bijection
<1> QED
  BY <1>2, <1>7 DEF got, A, Got

LEMMA ForkedSlots ==
    ASSUME NEW Names, NEW table, NEW changed, NEW l, NEW src, NEW pool, NEW next, NEW m,
           Forks(Names, table, changed, l, src, pool, next, m), NEW i
    PROVE  /\ Slots(changed, i) = Slots(table, i) \cup Got(l, table[src], m, i)
           /\ Slots(table, i) \cap Got(l, table[src], m, i) = {}
<1> DEFINE got == Got(l, table[src], m, i)
<1>1. /\ table \in [Names -> Seq(Ref)] /\ changed \in [Names -> Seq(Ref)] /\ l \in Names
      /\ \A n \in Names : n # l => changed[n] = table[n]
      /\ Len(table[l]) = 0 /\ Len(changed[l]) = m
      /\ \A k \in 1 .. m : changed[l][k].block = table[src][k].block
  BY EmptySeq DEF Forks
<1>2. \A p : p \in Slots(changed, i) <=> IsSlot(Names, changed, i, p)
  BY <1>1, InSlots
<1>3. \A p : p \in Slots(table, i) <=> IsSlot(Names, table, i, p)
  BY <1>1, InSlots
<1>4. \A p : p \in got <=> \E k \in 1 .. m : p = <<l, k>> /\ changed[l][k].block = i
  BY <1>1 DEF Got
<1>5. ASSUME NEW p, IsSlot(Names, table, i, p)
      PROVE  IsSlot(Names, changed, i, p) /\ p \notin got
  <2>1. PICK n \in Names : \E k \in 1 .. Len(table[n]) : p = <<n, k>> /\ table[n][k].block = i
    BY <1>5, Zenon DEF IsSlot
  <2>2. PICK k \in 1 .. Len(table[n]) : p = <<n, k>> /\ table[n][k].block = i
    BY <2>1
  <2>3. n # l
    BY <1>1, <2>2
  <2>4. IsSlot(Names, changed, i, p)
    BY <1>1, <2>2, <2>3 DEF IsSlot
  <2> QED
    BY <1>4, <2>2, <2>3, <2>4
<1>6. ASSUME NEW p, IsSlot(Names, changed, i, p)
      PROVE  IsSlot(Names, table, i, p) \/ p \in got
  <2>1. PICK n \in Names : \E k \in 1 .. Len(changed[n]) : p = <<n, k>> /\ changed[n][k].block = i
    BY <1>6, Zenon DEF IsSlot
  <2>2. PICK k \in 1 .. Len(changed[n]) : p = <<n, k>> /\ changed[n][k].block = i
    BY <2>1
  <2>3. CASE n = l
    BY <1>1, <1>4, <2>2, <2>3
  <2>4. CASE n # l
    BY <1>1, <2>2, <2>4 DEF IsSlot
  <2> QED
    BY <2>3, <2>4
<1>7. ASSUME NEW p \in got PROVE IsSlot(Names, changed, i, p)
  BY <1>1, <1>4 DEF IsSlot
<1> HIDE DEF got
<1>8. Slots(changed, i) = Slots(table, i) \cup got
  BY <1>2, <1>3, <1>5, <1>6, <1>7
<1>9. Slots(table, i) \cap got = {}
  BY <1>3, <1>5
<1> QED
  BY <1>8, <1>9 DEF got

LEMMA ForkedCounted ==
    ASSUME NEW Names, NEW table, NEW changed, NEW l, NEW src, NEW pool, NEW next, NEW m,
           Forks(Names, table, changed, l, src, pool, next, m), Counted(table, pool)
    PROVE  Counted(changed, next)
<1> DEFINE old == table[src]
<1>1. /\ table \in [Names -> Seq(Ref)] /\ changed \in [Names -> Seq(Ref)] /\ l \in Names
      /\ src \in Names /\ old \in Seq(Ref) /\ Len(old) \in Nat /\ m \in Nat /\ m <= Len(old)
      /\ \A n \in Names : n # l => changed[n] = table[n]
      /\ Len(changed[l]) = m
      /\ \A k \in 1 .. m : changed[l][k].block = old[k].block
      /\ DOMAIN next = DOMAIN pool
      /\ \A i \in DOMAIN pool : next[i].count = pool[i].count + Lent(old, m, i)
  <2>1. table \in [Names -> Seq(Ref)] /\ src \in Names /\ m \in 0 .. Len(old)
    BY DEF Forks
  <2>2. old \in Seq(Ref) /\ Len(old) \in Nat /\ m \in Nat /\ m <= Len(old)
    BY <2>1
  <2> QED
    BY <2>1, <2>2 DEF Forks
<1>2. ASSUME NEW n \in Names, NEW k \in 1 .. Len(changed[n])
      PROVE  changed[n][k].block \in DOMAIN next
  <2>1. CASE n # l
    BY <1>1, <2>1 DEF Counted
  <2>2. CASE n = l
    <3>1. k \in 1 .. m /\ k \in 1 .. Len(old)
      BY <1>1, <2>2
    <3> QED
      BY <1>1, <2>2, <3>1 DEF Counted
  <2> QED
    BY <2>1, <2>2
<1>3. ASSUME NEW i \in DOMAIN next
      PROVE  IsFiniteSet(Slots(changed, i)) /\ next[i].count = Cardinality(Slots(changed, i))
  <2> DEFINE S == Slots(table, i)
             G == Got(l, old, m, i)
  <2>1. IsFiniteSet(S) /\ pool[i].count = Cardinality(S)
    BY <1>1 DEF Counted
  <2>2. IsFiniteSet(G) /\ Cardinality(G) = Lent(old, m, i)
    BY <1>1, LentSlots
  <2>3. Slots(changed, i) = S \cup G /\ S \cap G = {}
    BY ForkedSlots
  <2> HIDE DEF S, G, old
  <2>4. /\ IsFiniteSet(S \cup G)
        /\ Cardinality(S \cup G) = Cardinality(S) + Cardinality(G) - Cardinality(S \cap G)
    BY <2>1, <2>2, FS_Union
  <2>5. Cardinality(S \cap G) = 0 /\ Cardinality(S) \in Nat /\ Cardinality(G) \in Nat
    BY <2>1, <2>2, <2>3, FS_EmptySet, FS_CardinalityType
  <2>6. Cardinality(S \cup G) = Cardinality(S) + Cardinality(G)
    BY <2>4, <2>5
  <2> QED
    BY <1>1, <2>1, <2>2, <2>3, <2>4, <2>6
<1> QED
  BY <1>1, <1>2, <1>3 DEF Counted

LEMMA ForkedLaid ==
    ASSUME NEW Names, NEW table, NEW changed, NEW l, NEW src, NEW pool, NEW next, NEW m,
           Forks(Names, table, changed, l, src, pool, next, m), Laid(table, pool)
    PROVE  Laid(changed, next)
<1> DEFINE old == table[src]
           new == changed[l]
<1>1. /\ table \in [Names -> Seq(Ref)] /\ changed \in [Names -> Seq(Ref)]
      /\ src \in Names /\ m \in 0 .. Len(old) /\ Len(new) = m
      /\ \A n \in Names : n # l => changed[n] = table[n]
      /\ \A k \in 1 .. m : /\ new[k].block = old[k].block
                           /\ new[k].start = old[k].start /\ new[k].end = old[k].end
      /\ \A i \in DOMAIN pool : i \in DOMAIN next /\ next[i].tokens = pool[i].tokens
  BY DEF Forks
<1>2. old \in Seq(Ref) /\ Len(old) \in Nat /\ DOMAIN table = Names /\ DOMAIN changed = Names
  BY <1>1
<1>3. ASSUME NEW n \in Names PROVE Tiled(table[n], next)
  <2>1. Tiled(table[n], pool) /\ table[n] \in Seq(Ref)
    BY <1>1, <1>2 DEF Laid
  <2> QED
    BY <1>1, <2>1 DEF Tiled
<1>4. Tiled(new, next)
  <2>1. Tiled(old, next)
    BY <1>1, <1>3
  <2>2. \A k \in 1 .. m : k \in 1 .. Len(old) /\ (k # 1 => k - 1 \in 1 .. m)
    BY <1>1, <1>2
  <2> HIDE DEF old, new
  <2> QED
    BY <1>1, <2>1, <2>2 DEF Tiled
<1>5. \A n \in Names : Tiled(changed[n], next)
  BY <1>1, <1>3, <1>4
<1> QED
  BY <1>2, <1>5 DEF Laid

\* What is lent belongs to no branch, and the new references are shared ones.
LEMMA ForkedSole ==
    ASSUME NEW Names, NEW table, NEW changed, NEW l, NEW src, NEW pool, NEW next, NEW m,
           Forks(Names, table, changed, l, src, pool, next, m), Sole(table)
    PROVE  Sole(changed)
<1> DEFINE old == table[src]
           new == changed[l]
<1>1. /\ table \in [Names -> Seq(Ref)] /\ changed \in [Names -> Seq(Ref)]
      /\ DOMAIN table = Names /\ DOMAIN changed = Names
      /\ src \in Names /\ src[1] # "branch" /\ m \in 0 .. Len(old) /\ Len(new) = m
      /\ \A n \in Names : n # l => changed[n] = table[n]
      /\ \A k \in 1 .. m : new[k].block = old[k].block /\ new[k].owner = "shared"
  BY DEF Forks
<1>2. Len(old) \in Nat /\ m <= Len(old) /\ m \in Nat
  BY <1>1
<1>3. ASSUME NEW n \in Names, NEW n2 \in Names,
             NEW k \in 1 .. Len(changed[n]), NEW j \in 1 .. Len(changed[n2]),
             n[1] = "branch", changed[n][k].owner # "shared",
             changed[n2][j].block = changed[n][k].block
      PROVE  n2 = n /\ j = k
  <2>1. n # l
    BY <1>1, <1>3
  <2>2. k \in 1 .. Len(table[n]) /\ changed[n][k] = table[n][k]
    BY <1>1, <2>1
  <2>3. CASE n2 # l
    BY <1>1, <1>3, <2>2, <2>3 DEF Sole
  <2>4. CASE n2 = l
    <3>1. j \in 1 .. m /\ j \in 1 .. Len(old)
      BY <1>1, <1>2, <2>4
    <3>2. old[j].block = table[n][k].block
      BY <1>1, <1>3, <2>2, <2>4, <3>1
    <3>3. src = n
      BY <1>1, <1>3, <2>2, <3>1, <3>2 DEF Sole
    <3> QED
      BY <1>1, <1>3, <3>3
  <2> QED
    BY <2>3, <2>4
<1>4. \A n, n2 \in Names : \A k \in 1 .. Len(changed[n]), j \in 1 .. Len(changed[n2]) :
          n[1] = "branch" /\ changed[n][k].owner # "shared"
          /\ changed[n2][j].block = changed[n][k].block => n2 = n /\ j = k
  BY <1>3
<1>5. DOMAIN changed = Names
  BY <1>1
<1> HIDE DEF old, new
<1> QED
  BY <1>4, <1>5, SoleIf

LEMMA IncrefProperties ==
    ASSUME NEW pool, PoolOK(pool), NEW refs, NEW m \in Nat, NEW source,
           DOMAIN source = 1 .. m, \A k \in 1 .. m : source[k] = refs[k],
           NEW next, next = Incref(pool, source)
    PROVE  /\ DOMAIN next = DOMAIN pool
           /\ \A i \in DOMAIN pool : /\ next[i].tokens = pool[i].tokens
                                     /\ next[i].count = pool[i].count + Lent(refs, m, i)
           /\ PoolOK(next)
<1>1. \A i : RefsTo(source, i) = Lent(refs, m, i) /\ Lent(refs, m, i) \in Nat
  <2> SUFFICES ASSUME NEW i PROVE RefsTo(source, i) = Lent(refs, m, i) /\ Lent(refs, m, i) \in Nat
    OBVIOUS
  <2>1. {k \in DOMAIN source : source[k].block = i} = {k \in 1 .. m : refs[k].block = i}
    OBVIOUS
  <2>2. RefsTo(source, i) = Lent(refs, m, i)
    BY <2>1, Zenon DEF RefsTo, Lent
  <2> QED
    BY <2>2, LentIsFinite
<1>2. next = [i \in DOMAIN pool |-> [pool[i] EXCEPT !.count = @ + RefsTo(source, i)]]
  BY DEF Incref
<1>3. ASSUME NEW i \in DOMAIN pool
      PROVE  /\ next[i].tokens = pool[i].tokens
             /\ next[i].count = pool[i].count + Lent(refs, m, i)
             /\ next[i] \in Block /\ Len(next[i].tokens) \in 1 .. BlockSize
  <2> DEFINE n == RefsTo(source, i)
  <2>1. next[i] = [pool[i] EXCEPT !.count = @ + n] /\ n = Lent(refs, m, i) /\ n \in Nat
    BY <1>1, <1>2
  <2>2. pool[i] \in Block /\ Len(pool[i].tokens) \in 1 .. BlockSize
    BY DEF PoolOK
  <2> HIDE DEF n
  <2>3. pool[i].count + n \in Nat \ {0}
    BY <2>1, <2>2 DEF Block
  <2> QED
    BY <2>1, <2>2, <2>3 DEF Block
<1> QED
  BY <1>2, <1>3 DEF PoolOK

-----------------------------------------------------------------------------
(***************************************************************************)
(* Texts put together                                                      *)
(***************************************************************************)

\* Induction over the numbers; C are those that something fails for.
LEMMA NoLeast ==
    ASSUME NEW C \in SUBSET Nat, 0 \notin C, \A n \in Nat : n + 1 \in C => n \in C
    PROVE  C = {}
<1> SUFFICES ASSUME C # {} PROVE FALSE
  OBVIOUS
<1>1. PICK x \in C : \A y \in C : x <= y
  BY LeastOf
<1>2. x # 0 /\ x - 1 \in Nat /\ (x - 1) + 1 = x
  BY <1>1
<1>3. x - 1 \in C
  BY <1>1, <1>2
<1> QED
  BY <1>1, <1>2, <1>3

\* g[i] is the first i texts, put together.
Runs(texts, n, g) ==
    \A i \in 1 .. n : g[i] = IF i = 1 THEN texts[i] ELSE g[i - 1] \o texts[i]

LEMMA RunsAgree ==
    ASSUME NEW n \in Nat, NEW texts, NEW others, \A i \in 1 .. n : texts[i] = others[i],
           NEW g, NEW h, Runs(texts, n, g), Runs(others, n, h)
    PROVE  \A i \in 1 .. n : g[i] = h[i]
<1> DEFINE C == {i \in 1 .. n : g[i] # h[i]}
<1>1. C \in SUBSET Nat /\ 0 \notin C
  OBVIOUS
<1>2. ASSUME NEW i \in Nat, i + 1 \in C PROVE i \in C
  <2>1. i + 1 \in 1 .. n /\ g[i + 1] # h[i + 1] /\ texts[i + 1] = others[i + 1]
    BY <1>2
  <2>2. i + 1 # 1
    BY <2>1 DEF Runs
  <2>3. i \in 1 .. n /\ (i + 1) - 1 = i
    BY <2>1, <2>2
  <2>4. g[i + 1] = g[i] \o texts[i + 1] /\ h[i + 1] = h[i] \o others[i + 1]
    BY <2>1, <2>2, <2>3 DEF Runs
  <2>5. g[i] # h[i]
    BY <2>1, <2>4
  <2> QED
    BY <2>3, <2>5
<1> HIDE DEF C
<1>3. C = {}
  BY <1>1, <1>2, NoLeast
<1> QED
  BY <1>3 DEF C

LEMMA RunsExist ==
    ASSUME NEW texts \in Seq(Seq(Nat))
    PROVE  \E g \in [1 .. Len(texts) -> Seq(Nat)] : Runs(texts, Len(texts), g)
<1> DEFINE Good(n) == \E g \in [1 .. n -> Seq(Nat)] : Runs(texts, n, g)
           C == {n \in Nat : n <= Len(texts) /\ ~Good(n)}
<1>1. 0 \notin C
  <2>1. [i \in 1 .. 0 |-> <<>>] \in [1 .. 0 -> Seq(Nat)]
    OBVIOUS
  <2>2. Runs(texts, 0, [i \in 1 .. 0 |-> <<>>])
    BY DEF Runs
  <2>3. Good(0)
    BY <2>1, <2>2
  <2> HIDE DEF Good
  <2> QED
    BY <2>3
<1>2. ASSUME NEW n \in Nat, n + 1 \in C PROVE n \in C
  <2>1. n + 1 <= Len(texts) /\ ~Good(n + 1)
    BY <1>2
  <2> SUFFICES ASSUME Good(n) PROVE FALSE
    <3> HIDE DEF Good
    <3> QED
      BY <2>1
  <2>2. PICK g \in [1 .. n -> Seq(Nat)] : Runs(texts, n, g)
    OBVIOUS
  <2>3. n + 1 \in 1 .. Len(texts) /\ texts[n + 1] \in Seq(Nat)
    BY <2>1
  <2> DEFINE t == IF n = 0 THEN texts[n + 1] ELSE g[n] \o texts[n + 1]
             h == [i \in 1 .. n + 1 |-> IF i = n + 1 THEN t ELSE g[i]]
  <2>4. t \in Seq(Nat)
    <3>1. CASE n = 0
      BY <2>3, <3>1
    <3>2. CASE n # 0
      <4>1. g[n] \in Seq(Nat)
        BY <3>2
      <4> QED
        BY <2>3, <3>2, <4>1, ConcatProperties
    <3> QED
      BY <3>1, <3>2
  <2>5. n + 1 = 1 <=> n = 0
    OBVIOUS
  <2>6. t = IF n + 1 = 1 THEN texts[n + 1] ELSE g[n] \o texts[n + 1]
    BY <2>5
  <2> HIDE DEF t
  <2>7. h \in [1 .. n + 1 -> Seq(Nat)] /\ h[n + 1] = t /\ \A i \in 1 .. n : h[i] = g[i]
    BY <2>4
  <2> HIDE DEF h
  <2>8. ASSUME NEW i \in 1 .. n + 1
        PROVE  h[i] = IF i = 1 THEN texts[i] ELSE h[i - 1] \o texts[i]
    <3>1. CASE i = n + 1
      <4>1. i # 1 => i - 1 = n /\ n \in 1 .. n
        BY <3>1
      <4> QED
        BY <2>6, <2>7, <3>1, <4>1
    <3>2. CASE i # n + 1
      <4>1. i \in 1 .. n /\ (i # 1 => i - 1 \in 1 .. n)
        BY <3>2
      <4> QED
        BY <2>2, <2>7, <4>1 DEF Runs
    <3> QED
      BY <3>1, <3>2
  <2>9. Good(n + 1)
    BY <2>7, <2>8 DEF Runs
  <2> HIDE DEF Good
  <2> QED
    BY <2>1, <2>9
<1>3. C \in SUBSET Nat
  OBVIOUS
<1>4. C = {}
  <2> HIDE DEF C
  <2> QED
    BY <1>1, <1>2, <1>3, NoLeast
<1>5. Len(texts) \in Nat
  OBVIOUS
<1>6. Good(Len(texts))
  <2> HIDE DEF Good
  <2> QED
    BY <1>4, <1>5
<1> QED
  BY <1>6

LEMMA FlattenRuns ==
    ASSUME NEW texts \in Seq(Seq(Nat)), Len(texts) # 0, NEW g, Runs(texts, Len(texts), g)
    PROVE  FlattenSeq(texts) = g[Len(texts)]
<1> DEFINE L == Len(texts)
           step(f) == [i \in 1 .. L |-> IF i = 1 THEN texts[i] ELSE f[i - 1] \o texts[i]]
           flat == CHOOSE f : f = step(f)
<1>1. L \in Nat /\ L \in 1 .. L
  OBVIOUS
<1>2. \E f : f = step(f)
  <2>1. PICK h \in [1 .. L -> Seq(Nat)] : Runs(texts, L, h)
    BY RunsExist
  <2>2. \A i \in 1 .. L : h[i] = step(h)[i]
    BY <2>1 DEF Runs
  <2>3. h = step(h)
    BY <2>2
  <2> QED
    BY <2>3
<1>3. flat = step(flat)
  <2> HIDE DEF step
  <2> QED
    BY <1>2
<1>4. Runs(texts, L, flat)
  <2>1. \A i \in 1 .. L : flat[i] = step(flat)[i]
    BY <1>3
  <2> HIDE DEF flat, L
  <2> QED
    BY <2>1 DEF Runs
<1>5. FlattenSeq(texts) = flat[L]
  BY DEF FlattenSeq
<1> HIDE DEF flat, L
<1>6. flat[L] = g[L]
  BY <1>1, <1>4, RunsAgree DEF L
<1> QED
  BY <1>5, <1>6 DEF L

LEMMA FlattenEmpty == FlattenSeq(<<>>) = <<>>
BY DEF FlattenSeq

LEMMA FlattenType ==
    ASSUME NEW texts \in Seq(Seq(Nat))
    PROVE  FlattenSeq(texts) \in Seq(Nat)
<1>1. CASE Len(texts) = 0
  <2>1. texts = <<>>
    BY <1>1, EmptySeq
  <2>2. <<>> \in Seq(Nat)
    OBVIOUS
  <2> QED
    BY <2>1, <2>2, FlattenEmpty, Zenon
<1>2. CASE Len(texts) # 0
  <2>1. PICK g \in [1 .. Len(texts) -> Seq(Nat)] : Runs(texts, Len(texts), g)
    BY RunsExist
  <2>2. FlattenSeq(texts) = g[Len(texts)] /\ Len(texts) \in 1 .. Len(texts)
    BY <1>2, <2>1, FlattenRuns
  <2> QED
    BY <2>1, <2>2
<1> QED
  BY <1>1, <1>2

LEMMA FlattenAppend ==
    ASSUME NEW texts \in Seq(Seq(Nat)), NEW t \in Seq(Nat)
    PROVE  FlattenSeq(Append(texts, t)) = FlattenSeq(texts) \o t
<1> DEFINE all == Append(texts, t)
           L == Len(texts)
<1>1. /\ all \in Seq(Seq(Nat)) /\ Len(all) = L + 1 /\ L \in Nat /\ all[L + 1] = t
      /\ \A i \in 1 .. L : all[i] = texts[i]
  OBVIOUS
<1> HIDE DEF all
<1>2. PICK g \in [1 .. L + 1 -> Seq(Nat)] : Runs(all, L + 1, g)
  BY <1>1, RunsExist
<1>3. L + 1 \in 1 .. L + 1 /\ L + 1 # 0 /\ \A i \in 1 .. L : i \in 1 .. L + 1
  BY <1>1
<1>4. FlattenSeq(all) = g[L + 1]
  BY <1>1, <1>2, <1>3, FlattenRuns
<1>5. CASE L = 0
  <2>1. texts = <<>> /\ g[L + 1] = t
    BY <1>1, <1>2, <1>3, <1>5, EmptySeq DEF Runs
  <2>2. FlattenSeq(texts) = <<>> /\ <<>> \o t = t
    BY <2>1, FlattenEmpty, ConcatEmptySeq
  <2> QED
    BY <1>4, <2>1, <2>2 DEF all
<1>6. CASE L # 0
  <2>1. Runs(texts, L, g)
    <3>1. \A i \in 1 .. L : g[i] = IF i = 1 THEN all[i] ELSE g[i - 1] \o all[i]
      BY <1>2, <1>3 DEF Runs
    <3> QED
      BY <1>1, <3>1 DEF Runs
  <2>2. FlattenSeq(texts) = g[L]
    BY <1>6, <2>1, FlattenRuns
  <2>3. L + 1 # 1 /\ (L + 1) - 1 = L
    BY <1>1, <1>6
  <2>4. g[L + 1] = g[L] \o all[L + 1]
    BY <1>2, <1>3, <2>3 DEF Runs
  <2> QED
    BY <1>1, <1>4, <2>2, <2>4 DEF all
<1> QED
  BY <1>5, <1>6

LEMMA Associates ==
    ASSUME NEW x \in Seq(Nat), NEW y \in Seq(Nat), NEW z \in Seq(Nat)
    PROVE  (x \o y) \o z = x \o (y \o z)
BY ConcatAssociative

LEMMA FlattenConcat ==
    ASSUME NEW a \in Seq(Seq(Nat)), NEW b \in Seq(Seq(Nat))
    PROVE  FlattenSeq(a \o b) = FlattenSeq(a) \o FlattenSeq(b)
<1> DEFINE Bad(c) == FlattenSeq(a \o c) # FlattenSeq(a) \o FlattenSeq(c)
           C == {n \in Nat : \E c \in Seq(Seq(Nat)) : Len(c) = n /\ Bad(c)}
<1>1. 0 \notin C
  <2> SUFFICES ASSUME NEW c \in Seq(Seq(Nat)), Len(c) = 0 PROVE ~Bad(c)
    <3> HIDE DEF Bad
    <3> QED
      OBVIOUS
  <2>1. c = <<>> /\ a \o c = a
    BY EmptySeq, ConcatEmptySeq
  <2>2. FlattenSeq(a) \o <<>> = FlattenSeq(a)
    BY FlattenType, ConcatEmptySeq
  <2> QED
    BY <2>1, <2>2, FlattenEmpty
<1>2. ASSUME NEW n \in Nat, n + 1 \in C PROVE n \in C
  <2>1. PICK c \in Seq(Seq(Nat)) : Len(c) = n + 1 /\ Bad(c)
    <3> HIDE DEF Bad
    <3> QED
      BY <1>2
  <2>2. c # <<>>
    BY <2>1
  <2>3. PICK d \in Seq(Seq(Nat)), t \in Seq(Nat) : c = Append(d, t)
    BY <2>2, SequenceEmptyOrAppend
  <2>4. Len(d) = n
    BY <2>1, <2>3
  <2> SUFFICES ASSUME ~Bad(d) PROVE FALSE
    <3> HIDE DEF Bad
    <3> QED
      BY <2>4
  <2>5. a \o d \in Seq(Seq(Nat))
    BY ConcatProperties
  <2>6. a \o c = Append(a \o d, t)
    <3>1. <<t>> \in Seq(Seq(Nat)) /\ c = d \o <<t>>
      BY <2>3, AppendIsConcat
    <3>2. a \o (d \o <<t>>) = (a \o d) \o <<t>>
      BY <3>1, ConcatAssociative
    <3>3. (a \o d) \o <<t>> = Append(a \o d, t)
      BY <2>5, AppendIsConcat
    <3> QED
      BY <3>1, <3>2, <3>3
  <2>7. FlattenSeq(a \o c) = FlattenSeq(a \o d) \o t
    BY <2>5, <2>6, FlattenAppend
  <2>8. FlattenSeq(c) = FlattenSeq(d) \o t
    BY <2>3, FlattenAppend
  <2>9. (FlattenSeq(a) \o FlattenSeq(d)) \o t = FlattenSeq(a) \o (FlattenSeq(d) \o t)
    <3>1. FlattenSeq(a) \in Seq(Nat) /\ FlattenSeq(d) \in Seq(Nat)
      BY FlattenType
    <3> DEFINE x == FlattenSeq(a)
               y == FlattenSeq(d)
    <3>2. x \in Seq(Nat) /\ y \in Seq(Nat)
      BY <3>1
    <3> HIDE DEF x, y
    <3>3. (x \o y) \o t = x \o (y \o t)
      BY <3>2, Associates
    <3> QED
      BY <3>3 DEF x, y
  <2> QED
    BY <2>1, <2>7, <2>8, <2>9
<1>3. C = {}
  <2>1. C \in SUBSET Nat
    OBVIOUS
  <2> HIDE DEF C
  <2> QED
    BY <1>1, <1>2, <2>1, NoLeast
<1>4. Len(b) \in Nat
  OBVIOUS
<1>5. ~Bad(b)
  <2> HIDE DEF Bad
  <2> QED
    BY <1>3, <1>4
<1> QED
  BY <1>5

LEMMA AppendedPrefix ==
    ASSUME NEW S, NEW s \in Seq(S), NEW n \in Nat, n + 1 <= Len(s)
    PROVE  /\ SubSeq(s, 1, n) \in Seq(S) /\ s[n + 1] \in S
           /\ SubSeq(s, 1, n + 1) = Append(SubSeq(s, 1, n), s[n + 1])
<1>1. /\ 1 \in 1 .. Len(s) /\ n + 1 \in 1 .. Len(s) /\ (n + 1) - 1 = n
      /\ \A i \in 1 .. n : s[i] \in S
  OBVIOUS
<1>2. SubSeq(s, 1, n + 1) = SubSeq(s, 1, n) \o <<s[n + 1]>>
  BY <1>1, SubSeqRecursiveSecond
<1>3. SubSeq(s, 1, n) \in Seq(S) /\ s[n + 1] \in S
  BY <1>1, SubSeqProperties
<1>4. Append(SubSeq(s, 1, n), s[n + 1]) = SubSeq(s, 1, n) \o <<s[n + 1]>>
  BY <1>3, AppendIsConcat
<1> QED
  BY <1>2, <1>3, <1>4

\* Blocks put together are the tokens they were cut from.
LEMMA FlattenChunks ==
    ASSUME NEW ts \in Seq(Nat)
    PROVE  FlattenSeq(Chunks(ts)) = ts
<1> DEFINE L == (Len(ts) + BlockSize - 1) \div BlockSize
           up(k) == IF k * BlockSize < Len(ts) THEN k * BlockSize ELSE Len(ts)
           chunks == Chunks(ts)
           C == {n \in Nat : n <= L /\ FlattenSeq(SubSeq(chunks, 1, n)) # SubSeq(ts, 1, up(n))}
<1>1. BlockSize \in Nat \ {0} /\ Len(ts) \in Nat
  BY CacheAssumption
<1>2. /\ L \in Nat /\ L * BlockSize >= Len(ts)
      /\ Len(ts) > 0 => L > 0 /\ (L - 1) * BlockSize < Len(ts)
      /\ Len(ts) = 0 => L = 0
  BY <1>1, CeilDiv
<1>3. chunks = [k \in 1 .. L |-> SubSeq(ts, (k - 1) * BlockSize + 1, up(k))]
  BY DEF Chunks
<1>4. chunks \in Seq(Seq(Nat))
  BY ChunksAreCut DEF Cut
<1> HIDE DEF L, chunks, up
<1>5. Len(chunks) = L
  BY <1>2, <1>3, <1>4
<1>6. 0 \notin C
  <2>1. up(0) = 0
    BY <1>1 DEF up
  <2>2. SubSeq(chunks, 1, 0) = <<>> /\ SubSeq(ts, 1, 0) = <<>>
    BY SubSeqEmpty
  <2> QED
    BY <2>1, <2>2, FlattenEmpty
<1>7. ASSUME NEW n \in Nat, n + 1 \in C PROVE n \in C
  <2> DEFINE lo == n * BlockSize
             hi == up(n + 1)
  <2>1. n + 1 <= L /\ FlattenSeq(SubSeq(chunks, 1, n + 1)) # SubSeq(ts, 1, hi)
    BY <1>7
  <2> SUFFICES ASSUME FlattenSeq(SubSeq(chunks, 1, n)) = SubSeq(ts, 1, up(n)) PROVE FALSE
    BY <1>2, <2>1
  <2>2. lo \in Nat /\ lo < Len(ts) /\ (n + 1) * BlockSize = lo + BlockSize
    <3>1. n <= L - 1 /\ L - 1 \in Nat /\ Len(ts) > 0
      BY <1>1, <1>2, <2>1
    <3>2. n * BlockSize \in Nat /\ (L - 1) * BlockSize \in Nat /\ n * BlockSize <= (L - 1) * BlockSize
      BY <1>1, <3>1, TimesMonotone
    <3>3. (n + 1) * BlockSize = n * BlockSize + BlockSize
      BY <1>1
    <3> QED
      BY <1>1, <1>2, <3>1, <3>2, <3>3
  <2>3. up(n) = lo
    BY <2>2 DEF up
  <2>4. hi \in lo .. Len(ts) /\ lo \in 0 .. Len(ts)
    <3> DEFINE next == (n + 1) * BlockSize
    <3>1. next = lo + BlockSize /\ hi = IF next < Len(ts) THEN next ELSE Len(ts)
      BY <2>2 DEF up
    <3> HIDE DEF lo, next, hi
    <3> QED
      BY <1>1, <2>2, <3>1
  <2>5. chunks[n + 1] = SubSeq(ts, lo + 1, hi)
    <3>1. n + 1 \in 1 .. L /\ (n + 1) - 1 = n
      BY <1>2, <2>1
    <3> QED
      BY <1>3, <3>1
  <2> HIDE DEF lo, hi
  <2>6. SubSeq(ts, 1, lo) \o SubSeq(ts, lo + 1, hi) = SubSeq(ts, 1, hi)
    <3>1. 1 \in 1 .. Len(ts) + 1 /\ lo \in 1 - 1 .. Len(ts)
      BY <1>1, <2>4
    <3> QED
      BY <2>4, <3>1, ConcatAdjacentSubSeq
  <2>7. /\ SubSeq(chunks, 1, n) \in Seq(Seq(Nat)) /\ chunks[n + 1] \in Seq(Nat)
        /\ SubSeq(chunks, 1, n + 1) = Append(SubSeq(chunks, 1, n), chunks[n + 1])
    <3>1. n + 1 <= Len(chunks)
      BY <1>5, <2>1
    <3> QED
      BY <1>4, <3>1, AppendedPrefix
  <2>8. FlattenSeq(SubSeq(chunks, 1, n + 1)) = FlattenSeq(SubSeq(chunks, 1, n)) \o chunks[n + 1]
    BY <2>7, FlattenAppend
  <2> QED
    BY <2>1, <2>3, <2>5, <2>6, <2>8
<1>8. C = {}
  <2>1. C \in SUBSET Nat
    OBVIOUS
  <2> HIDE DEF C
  <2> QED
    BY <1>6, <1>7, <2>1, NoLeast
<1>9. FlattenSeq(SubSeq(chunks, 1, L)) = SubSeq(ts, 1, up(L))
  <2>1. L \notin C /\ L \in Nat /\ L <= L
    BY <1>2, <1>8
  <2> QED
    BY <2>1
<1>10. up(L) = Len(ts)
  <2> DEFINE top == L * BlockSize
  <2>1. top \in Nat /\ top >= Len(ts)
    BY <1>1, <1>2
  <2> HIDE DEF top
  <2> QED
    BY <1>1, <2>1 DEF up, top
<1>11. SubSeq(chunks, 1, Len(chunks)) = chunks /\ SubSeq(ts, 1, Len(ts)) = ts
  BY <1>4, SubSeqFull
<1> QED
  BY <1>5, <1>9, <1>10, <1>11 DEF chunks

LEMMA ConcatCut ==
    ASSUME NEW a \in Seq(Nat), NEW b \in Seq(Nat), NEW c \in Seq(Nat), NEW j \in 0 .. Len(b)
    PROVE  SubSeq((a \o b) \o c, 1, Len(a) + j) = a \o SubSeq(b, 1, j)
<1> DEFINE ab == a \o b
           abc == ab \o c
           cut == SubSeq(b, 1, j)
           left == SubSeq(abc, 1, Len(a) + j)
           right == a \o cut
<1>1. Len(a) \in Nat /\ Len(b) \in Nat /\ Len(c) \in Nat /\ j \in Nat /\ j <= Len(b)
  OBVIOUS
<1>2. /\ ab \in Seq(Nat) /\ Len(ab) = Len(a) + Len(b)
      /\ \A i \in 1 .. Len(a) + Len(b) : ab[i] = IF i <= Len(a) THEN a[i] ELSE b[i - Len(a)]
  BY ConcatProperties
<1> HIDE DEF ab
<1>3. /\ abc \in Seq(Nat) /\ Len(abc) = Len(ab) + Len(c)
      /\ \A i \in 1 .. Len(ab) + Len(c) : abc[i] = IF i <= Len(ab) THEN ab[i] ELSE c[i - Len(ab)]
  BY <1>2, ConcatProperties
<1> HIDE DEF abc
<1>4. cut \in Seq(Nat) /\ Len(cut) = j /\ \A i \in 1 .. j : cut[i] = b[i]
  <2>1. \A i \in 1 .. j : b[i] \in Nat
    BY <1>1
  <2> QED
    BY <1>1, <2>1, SubSeqProperties
<1> HIDE DEF cut
<1>5. /\ right \in Seq(Nat) /\ Len(right) = Len(a) + j
      /\ \A i \in 1 .. Len(a) + j : right[i] = IF i <= Len(a) THEN a[i] ELSE cut[i - Len(a)]
  BY <1>4, ConcatProperties
<1>6. /\ left \in Seq(Nat) /\ Len(left) = Len(a) + j
      /\ \A i \in 1 .. Len(a) + j : left[i] = abc[i]
  <2> DEFINE e == Len(a) + j
  <2>1. e \in Nat /\ \A i \in 1 .. e : abc[i] \in Nat
    <3>1. e \in Nat /\ e <= Len(abc)
      BY <1>1, <1>2, <1>3
    <3> HIDE DEF e
    <3> QED
      BY <1>3, <3>1
  <2> HIDE DEF e
  <2>2. /\ SubSeq(abc, 1, e) \in Seq(Nat) /\ Len(SubSeq(abc, 1, e)) = e
        /\ \A i \in 1 .. e : SubSeq(abc, 1, e)[i] = abc[i]
    BY <2>1, SubSeqProperties
  <2> QED
    BY <2>2 DEF e
<1> HIDE DEF left, right
<1>7. ASSUME NEW i \in 1 .. Len(a) + j PROVE left[i] = right[i]
  <2>1. i \in 1 .. Len(ab) + Len(c) /\ i <= Len(ab) /\ i \in 1 .. Len(a) + Len(b)
    BY <1>1, <1>2
  <2>2. left[i] = IF i <= Len(a) THEN a[i] ELSE b[i - Len(a)]
    BY <1>2, <1>3, <1>6, <2>1
  <2>3. ~(i <= Len(a)) => i - Len(a) \in 1 .. j
    BY <1>1
  <2> QED
    BY <1>4, <1>5, <2>2, <2>3
<1>8. left = right
  BY <1>5, <1>6, <1>7, SeqEqual
<1> QED
  BY <1>8 DEF left, right, abc, ab, cut

\* The first tokens of a text are its first blocks and the beginning of the next.
LEMMA FlattenCut ==
    ASSUME NEW texts \in Seq(Seq(Nat)), NEW n \in Nat, n + 1 <= Len(texts),
           NEW j, j \in 0 .. Len(texts[n + 1])
    PROVE  LET first == FlattenSeq(SubSeq(texts, 1, n)) IN
           SubSeq(FlattenSeq(texts), 1, Len(first) + j) = first \o SubSeq(texts[n + 1], 1, j)
<1> DEFINE first == FlattenSeq(SubSeq(texts, 1, n))
           next == texts[n + 1]
           last == FlattenSeq(SubSeq(texts, n + 2, Len(texts)))
<1>1. /\ SubSeq(texts, 1, n) \in Seq(Seq(Nat)) /\ next \in Seq(Nat)
      /\ SubSeq(texts, 1, n + 1) = Append(SubSeq(texts, 1, n), next)
  BY AppendedPrefix
<1>2. SubSeq(texts, n + 2, Len(texts)) \in Seq(Seq(Nat))
  <2>1. n + 2 \in Int /\ Len(texts) \in Int /\ \A i \in n + 2 .. Len(texts) : texts[i] \in Seq(Nat)
    OBVIOUS
  <2> QED
    BY <2>1, SubSeqProperties
<1>3. texts = SubSeq(texts, 1, n + 1) \o SubSeq(texts, n + 2, Len(texts))
  <2>1. /\ 1 \in 1 .. Len(texts) + 1 /\ n + 1 \in 1 - 1 .. Len(texts)
        /\ Len(texts) \in n + 1 .. Len(texts) /\ (n + 1) + 1 = n + 2
    OBVIOUS
  <2>2. SubSeq(texts, 1, n + 1) \o SubSeq(texts, (n + 1) + 1, Len(texts)) = SubSeq(texts, 1, Len(texts))
    BY <2>1, ConcatAdjacentSubSeq
  <2> QED
    BY <2>1, <2>2, SubSeqFull
<1>4. SubSeq(texts, 1, n + 1) \in Seq(Seq(Nat)) /\ FlattenSeq(SubSeq(texts, 1, n + 1)) = first \o next
  <2> DEFINE before == SubSeq(texts, 1, n)
  <2>1. before \in Seq(Seq(Nat)) /\ next \in Seq(Nat) /\ SubSeq(texts, 1, n + 1) = Append(before, next)
    BY <1>1
  <2>2. first = FlattenSeq(before)
    OBVIOUS
  <2> HIDE DEF before, first, next
  <2>3. Append(before, next) \in Seq(Seq(Nat)) /\ FlattenSeq(Append(before, next)) = FlattenSeq(before) \o next
    BY <2>1, FlattenAppend, AppendProperties
  <2> QED
    BY <2>1, <2>2, <2>3
<1>5. FlattenSeq(texts) = (first \o next) \o last
  BY <1>2, <1>3, <1>4, FlattenConcat
<1>6. first \in Seq(Nat) /\ last \in Seq(Nat)
  BY <1>1, <1>2, FlattenType
<1> HIDE DEF first, next, last
<1>7. SubSeq((first \o next) \o last, 1, Len(first) + j) = first \o SubSeq(next, 1, j)
  BY <1>1, <1>6, ConcatCut DEF next
<1> QED
  BY <1>5, <1>7 DEF first, next

-----------------------------------------------------------------------------
(***************************************************************************)
(* What a list reads                                                       *)
(***************************************************************************)

\* The texts of the blocks a list refers to, and the tokens they hold together.
Texts(refs, pool) == [k \in DOMAIN refs |-> pool[refs[k].block].tokens]
Reads(refs, pool) == FlattenSeq(Texts(refs, pool))

Readable(refs, pool) == refs \in Seq(Ref) /\ PoolOK(pool) /\ Tiled(refs, pool)

LEMMA TextsType ==
    ASSUME NEW refs, NEW pool, Readable(refs, pool)
    PROVE  /\ Texts(refs, pool) \in Seq(Seq(Nat)) /\ Len(Texts(refs, pool)) = Len(refs)
           /\ \A k \in 1 .. Len(refs) : /\ Texts(refs, pool)[k] = pool[refs[k].block].tokens
                                        /\ pool[refs[k].block].tokens \in Seq(Nat)
<1>1. refs \in Seq(Ref) /\ DOMAIN refs = 1 .. Len(refs) /\ Len(refs) \in Nat
  BY DEF Readable
<1>2. \A k \in 1 .. Len(refs) : pool[refs[k].block].tokens \in Seq(Nat)
  BY DEF Readable, Tiled, PoolOK, Block
<1>3. Texts(refs, pool) = [k \in 1 .. Len(refs) |-> pool[refs[k].block].tokens]
  BY <1>1 DEF Texts
<1> QED
  BY <1>1, <1>2, <1>3

\* The first m texts end where reference m does.
LEMMA PrefixLength ==
    ASSUME NEW refs, NEW pool, Readable(refs, pool), NEW m \in 0 .. Len(refs)
    PROVE  /\ SubSeq(Texts(refs, pool), 1, m) \in Seq(Seq(Nat))
           /\ FlattenSeq(SubSeq(Texts(refs, pool), 1, m)) \in Seq(Nat)
           /\ Len(FlattenSeq(SubSeq(Texts(refs, pool), 1, m))) = IF m = 0 THEN 0 ELSE refs[m].end
<1> DEFINE texts == Texts(refs, pool)
           L == Len(refs)
           read(n) == FlattenSeq(SubSeq(texts, 1, n))
           C == {n \in Nat : n <= L /\ Len(read(n)) # (IF n = 0 THEN 0 ELSE refs[n].end)}
<1>1. refs \in Seq(Ref) /\ Tiled(refs, pool) /\ L \in Nat
  BY DEF Readable
<1>2. /\ texts \in Seq(Seq(Nat)) /\ Len(texts) = L
      /\ \A k \in 1 .. L : texts[k] = pool[refs[k].block].tokens /\ texts[k] \in Seq(Nat)
  BY TextsType
<1> HIDE DEF texts
<1>3. ASSUME NEW n \in Nat, n <= L
      PROVE  SubSeq(texts, 1, n) \in Seq(Seq(Nat)) /\ read(n) \in Seq(Nat)
  <2>1. \A i \in 1 .. n : texts[i] \in Seq(Nat)
    BY <1>1, <1>2, <1>3
  <2>2. SubSeq(texts, 1, n) \in Seq(Seq(Nat))
    BY <2>1, SubSeqProperties
  <2> QED
    BY <2>2, FlattenType
<1>4. 0 \notin C
  <2>1. SubSeq(texts, 1, 0) = <<>>
    BY SubSeqEmpty
  <2>2. read(0) = <<>>
    BY <2>1, FlattenEmpty
  <2>3. Len(read(0)) = 0
    BY <2>2, EmptySeq
  <2> HIDE DEF read
  <2> QED
    BY <2>3
<1>5. ASSUME NEW n \in Nat, n + 1 \in C PROVE n \in C
  <2>1. n + 1 <= L /\ Len(read(n + 1)) # refs[n + 1].end
    BY <1>5
  <2> SUFFICES ASSUME Len(read(n)) = (IF n = 0 THEN 0 ELSE refs[n].end) PROVE FALSE
    BY <1>1, <2>1
  <2>2. /\ SubSeq(texts, 1, n) \in Seq(Seq(Nat)) /\ texts[n + 1] \in Seq(Nat)
        /\ SubSeq(texts, 1, n + 1) = Append(SubSeq(texts, 1, n), texts[n + 1])
    BY <1>2, <2>1, AppendedPrefix
  <2>3. read(n + 1) = read(n) \o texts[n + 1]
    BY <2>2, FlattenAppend
  <2>4. read(n) \in Seq(Nat)
    BY <1>1, <1>3, <2>1
  <2> HIDE DEF read
  <2>5. Len(read(n + 1)) = Len(read(n)) + Len(texts[n + 1])
    <3> DEFINE a == read(n)
               t == texts[n + 1]
    <3>1. a \in Seq(Nat) /\ t \in Seq(Nat) /\ read(n + 1) = a \o t
      BY <2>2, <2>3, <2>4
    <3> HIDE DEF a, t
    <3>2. Len(a \o t) = Len(a) + Len(t)
      BY <3>1, ConcatProperties
    <3> QED
      BY <3>1, <3>2 DEF a, t
  <2>6. n + 1 \in 1 .. L /\ (n + 1 = 1 <=> n = 0) /\ (n + 1) - 1 = n
    BY <1>1, <2>1
  <2>7. /\ refs[n + 1].end = refs[n + 1].start + Len(texts[n + 1])
        /\ refs[n + 1].start = IF n = 0 THEN 0 ELSE refs[n].end
    BY <1>1, <1>2, <2>6 DEF Tiled
  <2> QED
    BY <2>1, <2>5, <2>7
<1>6. C = {}
  <2>1. C \in SUBSET Nat
    OBVIOUS
  <2> HIDE DEF C
  <2> QED
    BY <1>4, <1>5, <2>1, NoLeast
<1>7. m \in Nat /\ m <= L /\ m \notin C
  BY <1>1, <1>6
<1> QED
  BY <1>3, <1>7 DEF texts

LEMMA ReadsAll ==
    ASSUME NEW refs, NEW pool, Readable(refs, pool)
    PROVE  Reads(refs, pool) \in Seq(Nat) /\ Len(Reads(refs, pool)) = End(refs)
<1>1. refs \in Seq(Ref) /\ Len(refs) \in Nat /\ Len(refs) \in 0 .. Len(refs)
  BY DEF Readable
<1>2. Texts(refs, pool) \in Seq(Seq(Nat)) /\ Len(Texts(refs, pool)) = Len(refs)
  BY TextsType
<1>3. SubSeq(Texts(refs, pool), 1, Len(refs)) = Texts(refs, pool)
  BY <1>2, SubSeqFull
<1>4. /\ Reads(refs, pool) \in Seq(Nat)
      /\ Len(Reads(refs, pool)) = IF Len(refs) = 0 THEN 0 ELSE refs[Len(refs)].end
  <2> DEFINE m == Len(refs)
             read == FlattenSeq(SubSeq(Texts(refs, pool), 1, m))
  <2>1. m \in 0 .. Len(refs) /\ read = Reads(refs, pool)
    BY <1>1, <1>3 DEF Reads
  <2>2. ASSUME NEW n, n = m
        PROVE  read \in Seq(Nat) /\ Len(read) = IF n = 0 THEN 0 ELSE refs[n].end
    <3>1. n \in 0 .. Len(refs) /\ read = FlattenSeq(SubSeq(Texts(refs, pool), 1, n))
      BY <2>1, <2>2
    <3> HIDE DEF read, m
    <3> QED
      BY <3>1, PrefixLength
  <2> HIDE DEF read
  <2>3. read \in Seq(Nat) /\ Len(read) = IF m = 0 THEN 0 ELSE refs[m].end
    BY <2>2
  <2> QED
    BY <2>1, <2>3
<1>5. End(refs) = IF Len(refs) = 0 THEN 0 ELSE refs[Len(refs)].end
  BY <1>1, EmptySeq DEF End, Last
<1> QED
  BY <1>4, <1>5

\* The new list keeps the first m texts of the old one and has more behind them.
Carries(old, pool, new, next, m, more) ==
    /\ m \in 0 .. Len(old) /\ more \in Seq(Seq(Nat)) /\ Len(new) = m + Len(more)
    /\ \A k \in 1 .. m : next[new[k].block].tokens = pool[old[k].block].tokens
    /\ \A k \in 1 .. Len(more) : next[new[m + k].block].tokens = more[k]

ReadsFrom(old, pool, new, next, m, more) ==
    Reads(new, next) = FlattenSeq(SubSeq(Texts(old, pool), 1, m)) \o FlattenSeq(more)

LEMMA CarriesReads ==
    ASSUME NEW old, NEW pool, Readable(old, pool), NEW new, NEW next, Readable(new, next),
           NEW m, NEW more, Carries(old, pool, new, next, m, more)
    PROVE  ReadsFrom(old, pool, new, next, m, more)
<1> DEFINE first == SubSeq(Texts(old, pool), 1, m)
           texts == Texts(new, next)
           all == first \o more
<1>1. /\ m \in 0 .. Len(old) /\ more \in Seq(Seq(Nat)) /\ Len(new) = m + Len(more)
      /\ Len(more) \in Nat /\ m \in Nat /\ Len(old) \in Nat
      /\ \A k \in 1 .. m : next[new[k].block].tokens = pool[old[k].block].tokens
      /\ \A k \in 1 .. Len(more) : next[new[m + k].block].tokens = more[k]
  BY DEF Carries, Readable
<1>2. /\ Texts(old, pool) \in Seq(Seq(Nat)) /\ Len(Texts(old, pool)) = Len(old)
      /\ \A k \in 1 .. Len(old) : Texts(old, pool)[k] = pool[old[k].block].tokens
  BY TextsType
<1>3. /\ texts \in Seq(Seq(Nat)) /\ Len(texts) = Len(new)
      /\ \A k \in 1 .. Len(new) : texts[k] = next[new[k].block].tokens
  BY TextsType
<1>4. /\ first \in Seq(Seq(Nat)) /\ Len(first) = m
      /\ \A k \in 1 .. m : first[k] = pool[old[k].block].tokens
  <2>1. \A k \in 1 .. m : k \in 1 .. Len(old) /\ Texts(old, pool)[k] \in Seq(Nat)
    BY <1>1, <1>2
  <2>2. /\ first \in Seq(Seq(Nat)) /\ Len(first) = m
        /\ \A k \in 1 .. m : first[k] = Texts(old, pool)[k]
    BY <1>1, <2>1, SubSeqProperties
  <2> QED
    BY <1>2, <2>1, <2>2
<1> HIDE DEF first, texts
<1>5. /\ all \in Seq(Seq(Nat)) /\ Len(all) = m + Len(more)
      /\ \A k \in 1 .. m + Len(more) : all[k] = IF k <= m THEN first[k] ELSE more[k - m]
  BY <1>1, <1>4, ConcatProperties
<1> HIDE DEF all
<1>6. ASSUME NEW k \in 1 .. m + Len(more) PROVE texts[k] = all[k]
  <2>1. texts[k] = next[new[k].block].tokens
    BY <1>1, <1>3
  <2>2. CASE k <= m
    <3>1. k \in 1 .. m
      BY <1>1, <2>2
    <3>2. all[k] = first[k] /\ first[k] = pool[old[k].block].tokens
      BY <1>4, <1>5, <2>2, <3>1
    <3>3. next[new[k].block].tokens = pool[old[k].block].tokens
      BY <1>1, <3>1
    <3> QED
      BY <2>1, <3>2, <3>3
  <2>3. CASE ~(k <= m)
    <3>1. k - m \in 1 .. Len(more) /\ m + (k - m) = k
      BY <1>1, <2>3
    <3>2. next[new[m + (k - m)].block].tokens = more[k - m]
      BY <1>1, <3>1
    <3> QED
      BY <1>5, <2>1, <2>3, <3>1, <3>2
  <2> QED
    BY <2>2, <2>3
<1>7. texts = all
  BY <1>1, <1>3, <1>5, <1>6, SeqEqual
<1>8. FlattenSeq(all) = FlattenSeq(first) \o FlattenSeq(more)
  BY <1>1, <1>4, FlattenConcat DEF all
<1> QED
  BY <1>7, <1>8 DEF Reads, ReadsFrom, texts, first

\* A list whose blocks are untouched reads the same.
LEMMA UntouchedReads ==
    ASSUME NEW refs \in Seq(Ref), NEW pool, NEW next, Untouched(refs, pool, next)
    PROVE  Reads(refs, next) = Reads(refs, pool)
<1>1. DOMAIN refs = 1 .. Len(refs)
  OBVIOUS
<1>2. Texts(refs, next) = Texts(refs, pool)
  BY <1>1 DEF Texts, Untouched
<1> QED
  BY <1>2 DEF Reads

\* References with the same texts before them end at the same token.
LEMMA CarriedEnds ==
    ASSUME NEW old, NEW pool, Readable(old, pool), NEW new, NEW next, Readable(new, next),
           NEW m, NEW more, Carries(old, pool, new, next, m, more)
    PROVE  \A k \in 1 .. m : new[k].end = old[k].end
<1>1. /\ m \in 0 .. Len(old) /\ Len(new) = m + Len(more) /\ m \in Nat
      /\ Len(more) \in Nat /\ Len(old) \in Nat
      /\ \A k \in 1 .. m : next[new[k].block].tokens = pool[old[k].block].tokens
  BY DEF Carries, Readable
<1> DEFINE C == {n \in Nat : n \in 1 .. m /\ new[n].end # old[n].end}
<1>2. C \in SUBSET Nat /\ 0 \notin C
  OBVIOUS
<1>3. ASSUME NEW n \in Nat, n + 1 \in C PROVE n \in C
  <2>1. n + 1 \in 1 .. m /\ new[n + 1].end # old[n + 1].end
    BY <1>3
  <2>2. n + 1 \in 1 .. Len(new) /\ n + 1 \in 1 .. Len(old) /\ (n + 1 = 1 <=> n = 0) /\ (n + 1) - 1 = n
    BY <1>1, <2>1
  <2> DEFINE size == Len(pool[old[n + 1].block].tokens)
  <2>3. next[new[n + 1].block].tokens = pool[old[n + 1].block].tokens
    BY <1>1, <2>1
  <2>4. /\ new[n + 1].end = new[n + 1].start + size
        /\ old[n + 1].end = old[n + 1].start + size
        /\ new[n + 1].start = IF n = 0 THEN 0 ELSE new[n].end
        /\ old[n + 1].start = IF n = 0 THEN 0 ELSE old[n].end
    BY <2>2, <2>3 DEF Readable, Tiled
  <2>5. n # 0 /\ new[n].end # old[n].end
    <3> HIDE DEF size
    <3> QED
      BY <2>1, <2>4
  <2> QED
    BY <1>1, <2>1, <2>5
<1>4. C = {}
  <2> HIDE DEF C
  <2> QED
    BY <1>2, <1>3, NoLeast
<1> QED
  BY <1>1, <1>4

\* New blocks behind the list hold the tokens appended.
LEMMA ReadsAppended ==
    ASSUME NEW old, NEW pool, Readable(old, pool), NEW new, NEW next, Readable(new, next),
           NEW ts \in Seq(Nat), Carries(old, pool, new, next, Len(old), Chunks(ts))
    PROVE  Reads(new, next) = Reads(old, pool) \o ts
<1>1. Reads(new, next) = FlattenSeq(SubSeq(Texts(old, pool), 1, Len(old))) \o FlattenSeq(Chunks(ts))
  BY CarriesReads DEF ReadsFrom
<1>2. FlattenSeq(Chunks(ts)) = ts
  BY FlattenChunks
<1>3. SubSeq(Texts(old, pool), 1, Len(old)) = Texts(old, pool)
  BY TextsType, SubSeqFull
<1> QED
  BY <1>1, <1>2, <1>3 DEF Reads

\* The first tokens go to the block of the last reference, the others behind it.
FillsUp(old, pool, ts, head, rest, m, filled, more) ==
    /\ head \in Seq(Nat) /\ rest \in Seq(Nat) /\ ts = head \o rest
    /\ Len(old) > 0 /\ m = Len(old) - 1
    /\ filled = pool[old[Len(old)].block].tokens \o head
    /\ more = <<filled>> \o Chunks(rest)

LEMMA ReadsFilled ==
    ASSUME NEW old, NEW pool, Readable(old, pool), NEW new, NEW next, Readable(new, next),
           NEW ts, NEW head, NEW rest, NEW m, NEW filled, NEW more,
           FillsUp(old, pool, ts, head, rest, m, filled, more), Carries(old, pool, new, next, m, more)
    PROVE  Reads(new, next) = Reads(old, pool) \o ts
<1>0. /\ head \in Seq(Nat) /\ rest \in Seq(Nat) /\ ts = head \o rest
      /\ Len(old) > 0 /\ m = Len(old) - 1
      /\ filled = pool[old[Len(old)].block].tokens \o head
      /\ more = <<filled>> \o Chunks(rest)
  BY DEF FillsUp
<1> DEFINE L == Len(old)
           texts == Texts(old, pool)
           first == FlattenSeq(SubSeq(texts, 1, L - 1))
           held == pool[old[L].block].tokens
<1>1. L \in Nat /\ L - 1 \in Nat /\ L - 1 \in 0 .. L /\ (L - 1) + 1 = L /\ L \in 1 .. L
  <2>1. L \in Nat
    BY DEF Readable
  <2>2. L > 0
    BY <1>0
  <2> HIDE DEF L
  <2> QED
    BY <2>1, <2>2
<1>2. texts \in Seq(Seq(Nat)) /\ Len(texts) = L /\ texts[L] = held /\ held \in Seq(Nat)
  BY <1>1, TextsType
<1>3. first \in Seq(Nat)
  BY <1>1, PrefixLength
<1>4. Reads(old, pool) = first \o held
  <2>1. /\ SubSeq(texts, 1, L - 1) \in Seq(Seq(Nat))
        /\ SubSeq(texts, 1, L) = Append(SubSeq(texts, 1, L - 1), texts[L])
    <3> HIDE DEF L, texts
    <3> QED
      BY <1>1, <1>2, AppendedPrefix
  <2>2. SubSeq(texts, 1, L) = texts
    BY <1>2, SubSeqFull
  <2> DEFINE before == SubSeq(texts, 1, L - 1)
  <2>3. before \in Seq(Seq(Nat)) /\ texts = Append(before, held) /\ held \in Seq(Nat)
    BY <1>2, <2>1, <2>2
  <2>4. Reads(old, pool) = FlattenSeq(texts) /\ first = FlattenSeq(before)
    BY DEF Reads
  <2> HIDE DEF texts, before, held, first
  <2>5. FlattenSeq(Append(before, held)) = FlattenSeq(before) \o held
    BY <2>3, FlattenAppend
  <2> QED
    BY <2>3, <2>4, <2>5
<1>5. Reads(new, next) = first \o FlattenSeq(more)
  <2>1. ReadsFrom(old, pool, new, next, m, more)
    BY CarriesReads
  <2>2. Reads(new, next) = FlattenSeq(SubSeq(texts, 1, m)) \o FlattenSeq(more)
    BY <2>1 DEF ReadsFrom
  <2> QED
    BY <1>0, <2>2
<1>6. filled = held \o head
  BY <1>0
<1> HIDE DEF held, first, texts, L
<1>7. filled \in Seq(Nat)
  BY <1>0, <1>2, <1>6, ConcatProperties
<1>8. FlattenSeq(<<filled>> \o Chunks(rest)) = filled \o rest
  <2>1. <<filled>> \in Seq(Seq(Nat)) /\ Chunks(rest) \in Seq(Seq(Nat))
    <3>1. Cut(Chunks(rest))
      BY <1>0, ChunksAreCut
    <3> QED
      BY <1>7, <3>1 DEF Cut
  <2>2. FlattenSeq(<<filled>>) = filled
    <3>1. <<>> \in Seq(Seq(Nat)) /\ Append(<<>>, filled) = <<filled>>
      OBVIOUS
    <3>2. FlattenSeq(Append(<<>>, filled)) = FlattenSeq(<<>>) \o filled
      BY <1>7, <3>1, FlattenAppend
    <3>3. <<>> \o filled = filled
      BY <1>7, ConcatEmptySeq
    <3> QED
      BY <3>1, <3>2, <3>3, FlattenEmpty
  <2>3. FlattenSeq(Chunks(rest)) = rest
    BY <1>0, FlattenChunks
  <2> QED
    BY <2>1, <2>2, <2>3, FlattenConcat
<1>9. first \o ((held \o head) \o rest) = (first \o held) \o (head \o rest)
  <2>1. (held \o head) \o rest = held \o (head \o rest)
    BY <1>0, <1>2, Associates
  <2> DEFINE tail == head \o rest
  <2>2. tail \in Seq(Nat)
    BY <1>0, ConcatProperties
  <2>3. (held \o head) \o rest = held \o tail
    BY <2>1
  <2> HIDE DEF tail
  <2>4. (first \o held) \o tail = first \o (held \o tail)
    BY <1>2, <1>3, <2>2, Associates
  <2> QED
    BY <2>3, <2>4 DEF tail
<1> QED
  BY <1>0, <1>4, <1>5, <1>6, <1>8, <1>9

\* The cut is in reference m + 1, of whose text more is the beginning.
CutsAt(old, pool, from, m, more) ==
    /\ m \in 0 .. Len(old) - 1
    /\ \E j \in 0 .. Len(pool[old[m + 1].block].tokens) :
          /\ from = old[m + 1].start + j
          /\ more = IF j = 0 THEN <<>> ELSE <<SubSeq(pool[old[m + 1].block].tokens, 1, j)>>

\* The cut of a rollback: the first m texts, and the beginning of the next.
LEMMA ReadsCut ==
    ASSUME NEW old, NEW pool, Readable(old, pool), NEW new, NEW next, Readable(new, next),
           NEW from, NEW m, NEW more, CutsAt(old, pool, from, m, more),
           Carries(old, pool, new, next, m, more)
    PROVE  Reads(new, next) = SubSeq(Reads(old, pool), 1, from)
<1> DEFINE ts == pool[old[m + 1].block].tokens
<1>1. m \in 0 .. Len(old) - 1
  BY DEF CutsAt
<1>2. PICK j \in 0 .. Len(ts) : /\ from = old[m + 1].start + j
                               /\ more = IF j = 0 THEN <<>> ELSE <<SubSeq(ts, 1, j)>>
  BY DEF CutsAt
<1>3. ts = pool[old[m + 1].block].tokens
  OBVIOUS
<1> HIDE DEF ts
<1> DEFINE texts == Texts(old, pool)
           first == FlattenSeq(SubSeq(texts, 1, m))
<1>4. /\ m \in Nat /\ m \in 0 .. Len(old) /\ m + 1 \in 1 .. Len(old) /\ m + 1 <= Len(old)
      /\ Tiled(old, pool)
  BY <1>1 DEF Readable
<1>5. texts \in Seq(Seq(Nat)) /\ Len(texts) = Len(old) /\ texts[m + 1] = ts /\ ts \in Seq(Nat)
  BY <1>4, <1>3, TextsType
<1>6. first \in Seq(Nat) /\ Len(first) = IF m = 0 THEN 0 ELSE old[m].end
  BY <1>4, PrefixLength
<1>7. old[m + 1].start = Len(first)
  <2>1. (m + 1 = 1 <=> m = 0) /\ (m + 1) - 1 = m
    BY <1>4
  <2> HIDE DEF first
  <2> QED
    BY <1>4, <1>6, <2>1 DEF Tiled
<1>8. SubSeq(Reads(old, pool), 1, from) = first \o SubSeq(ts, 1, j)
  <2> HIDE DEF texts, first
  <2>1. m + 1 <= Len(texts) /\ j \in 0 .. Len(texts[m + 1])
    BY <1>4, <1>5, <1>2
  <2>2. SubSeq(FlattenSeq(texts), 1, Len(first) + j) = first \o SubSeq(texts[m + 1], 1, j)
    BY <1>4, <1>5, <2>1, FlattenCut DEF first
  <2> QED
    BY <1>5, <1>7, <1>2, <2>2 DEF Reads, texts
<1>9. Reads(new, next) = first \o FlattenSeq(more)
  <2>1. ReadsFrom(old, pool, new, next, m, more)
    BY CarriesReads
  <2> QED
    BY <2>1 DEF ReadsFrom
<1>10. FlattenSeq(more) = SubSeq(ts, 1, j)
  <2>1. CASE j = 0
    <3>1. SubSeq(ts, 1, 0) = <<>> /\ more = <<>>
      BY <2>1, <1>2, SubSeqEmpty
    <3> QED
      BY <2>1, <3>1, FlattenEmpty
  <2>2. CASE j # 0
    <3> DEFINE t == SubSeq(ts, 1, j)
    <3>1. t \in Seq(Nat)
      <4>1. j \in Nat /\ \A i \in 1 .. j : ts[i] \in Nat
        <5>1. ts \in Seq(Nat) /\ j \in 0 .. Len(ts)
          BY <1>5, <1>2
        <5> QED
          BY <5>1
      <4> QED
        BY <4>1, SubSeqProperties
    <3>2. more = <<t>>
      BY <2>2, <1>2
    <3> HIDE DEF t
    <3>3. <<>> \in Seq(Seq(Nat)) /\ Append(<<>>, t) = <<t>>
      OBVIOUS
    <3>4. FlattenSeq(Append(<<>>, t)) = FlattenSeq(<<>>) \o t /\ <<>> \o t = t
      BY <3>1, <3>3, FlattenAppend, ConcatEmptySeq
    <3> QED
      BY <3>2, <3>3, <3>4, FlattenEmpty DEF t
  <2> QED
    BY <2>1, <2>2
<1> QED
  BY <1>8, <1>9, <1>10

\* All the texts and nothing behind them.
LEMMA ReadsKept ==
    ASSUME NEW old, NEW pool, Readable(old, pool), NEW new, NEW next, Readable(new, next),
           NEW m, m = Len(old), NEW more, more = <<>>, Carries(old, pool, new, next, m, more)
    PROVE  Reads(new, next) = Reads(old, pool)
<1> DEFINE texts == Texts(old, pool)
<1>1. Reads(new, next) = FlattenSeq(SubSeq(texts, 1, m)) \o FlattenSeq(more)
  BY CarriesReads DEF ReadsFrom
<1>2. SubSeq(texts, 1, m) = texts
  BY TextsType, SubSeqFull
<1>3. FlattenSeq(texts) \in Seq(Nat) /\ FlattenSeq(texts) = Reads(old, pool)
  BY ReadsAll DEF Reads
<1> DEFINE all == FlattenSeq(texts)
           none == FlattenSeq(more)
<1>4. Reads(new, next) = all \o none /\ none = <<>> /\ all \in Seq(Nat)
  BY <1>1, <1>2, <1>3, FlattenEmpty
<1> HIDE DEF all, none
<1>5. all \o <<>> = all
  BY <1>4, ConcatEmptySeq
<1> QED
  BY <1>3, <1>4, <1>5 DEF all

=============================================================================
