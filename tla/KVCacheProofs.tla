--------------------------- MODULE KVCacheProofs ----------------------------
(***************************************************************************)
(* Theorems about module KVCache, for any sessions, branches, inputs,      *)
(* block size and bounds.                                                  *)
(*                                                                         *)
(* The sessions and branches are one table of lists here, and an action    *)
(* replaces one of them (StepReplaces), but for fork_branch, which lends   *)
(* the first references of one to another (ForkStep).  The tokens a list   *)
(* reads make every action a step of TokenStore.                           *)
(***************************************************************************)
EXTENDS KVCacheLemmas

-----------------------------------------------------------------------------
(***************************************************************************)
(* The inductive invariant                                                 *)
(***************************************************************************)

AllLists == ({"session"} \X Owners) \cup ({"branch"} \X BranchIds)

\* The references of every session and branch; none for a branch that is not there.
TableOf(sessions, branches) ==
    [l \in AllLists |->
        IF l[1] = "session" THEN sessions[l[2]]
        ELSE IF l[2] \in DOMAIN branches THEN branches[l[2]]
        ELSE <<>>]

TypedLists(sessions, branches) ==
    /\ sessions \in [Owners -> Seq(Ref)]
    /\ DOMAIN branches \subseteq BranchIds
    /\ branches \in [DOMAIN branches -> Seq(Ref)]

\* The committed references of a list come first.
FirmFirst(refs) ==
    \A k \in 2 .. Len(refs) : refs[k].valid = "committed" => refs[k - 1].valid = "committed"

\* The counts, the offsets and the private blocks are right.
Sound(table, pool) == Counted(table, pool) /\ Laid(table, pool) /\ Sole(table)

CacheInv ==
    /\ PoolOK(blocks)
    /\ TypedLists(sessionRefs, branchRefs)
    /\ Sound(TableOf(sessionRefs, branchRefs), blocks)
    /\ \A s \in Owners : FirmFirst(sessionRefs[s])

-----------------------------------------------------------------------------
(***************************************************************************)
(* One list and the pool                                                   *)
(***************************************************************************)

\* What the invariant says of one list: it tiles, a block outlives the loss of
\* some of its references, and one counted once is in one place.
ListOK(old, pool) ==
    /\ old \in Seq(Ref) /\ PoolOK(pool) /\ Tiled(old, pool)
    /\ \A m \in 0 .. Len(old) : \A k \in 1 .. m :
          pool[old[k].block].count > Lost(old, m, old[k].block)
    /\ \A j, k \in 1 .. Len(old) :
          old[j].block = old[k].block /\ pool[old[k].block].count = 1 => j = k

LEMMA TableFacts ==
    ASSUME NEW sessions, NEW branches, TypedLists(sessions, branches),
           NEW table, table = TableOf(sessions, branches)
    PROVE  /\ table \in [AllLists -> Seq(Ref)]
           /\ \A s \in Owners : <<"session", s>> \in AllLists /\ table[<<"session", s>>] = sessions[s]
           /\ \A b \in BranchIds : /\ <<"branch", b>> \in AllLists
                                   /\ table[<<"branch", b>>] =
                                         IF b \in DOMAIN branches THEN branches[b] ELSE <<>>
           /\ \A l \in AllLists : \/ \E s \in Owners : l = <<"session", s>>
                                  \/ \E b \in BranchIds : l = <<"branch", b>>
<1>1. \A s \in Owners : <<"session", s>> \in AllLists
  BY DEF AllLists
<1>2. \A b \in BranchIds : <<"branch", b>> \in AllLists
  BY DEF AllLists
<1>3. ASSUME NEW l \in AllLists
      PROVE  \/ \E s \in Owners : l = <<"session", s>>
             \/ \E b \in BranchIds : l = <<"branch", b>>
  BY DEF AllLists
<1> DEFINE entry(l) == IF l[1] = "session" THEN sessions[l[2]]
                       ELSE IF l[2] \in DOMAIN branches THEN branches[l[2]]
                       ELSE <<>>
<1>4. TableOf(sessions, branches) = [l \in AllLists |-> entry(l)]
  BY DEF TableOf
<1>5. \A s \in Owners : entry(<<"session", s>>) = sessions[s]
  OBVIOUS
<1>6. \A b \in BranchIds : entry(<<"branch", b>>) = IF b \in DOMAIN branches THEN branches[b] ELSE <<>>
  OBVIOUS
<1> HIDE DEF entry
<1>7. /\ \A s \in Owners : sessions[s] \in Seq(Ref)
      /\ \A b \in DOMAIN branches : branches[b] \in Seq(Ref)
      /\ <<>> \in Seq(Ref)
  BY DEF TypedLists
<1>8. ASSUME NEW l \in AllLists PROVE entry(l) \in Seq(Ref)
  <2>1. CASE \E s \in Owners : l = <<"session", s>>
    BY <2>1, <1>5, <1>7
  <2>2. CASE \E b \in BranchIds : l = <<"branch", b>>
    BY <2>2, <1>6, <1>7
  <2> QED
    BY <1>3, <2>1, <2>2
<1>9. TableOf(sessions, branches) \in [AllLists -> Seq(Ref)]
  BY <1>4, <1>8
<1> QED
  BY <1>1, <1>2, <1>3, <1>4, <1>5, <1>6, <1>9

LEMMA ListFacts ==
    ASSUME NEW Names, NEW table, table \in [Names -> Seq(Ref)], NEW pool,
           PoolOK(pool), Counted(table, pool), Laid(table, pool), NEW l, l \in Names
    PROVE  ListOK(table[l], pool)
<1> DEFINE old == table[l]
<1>1. DOMAIN table = Names /\ old \in Seq(Ref) /\ Len(old) \in Nat /\ Tiled(old, pool)
  BY DEF Laid
<1>2. \A k \in 1 .. Len(old) : old[k].block \in DOMAIN pool
  BY <1>1 DEF Counted
<1>3. ASSUME NEW m \in 0 .. Len(old), NEW k \in 1 .. m
      PROVE  pool[old[k].block].count > Lost(old, m, old[k].block)
  <2> DEFINE i == old[k].block
             S == Slots(table, i)
             G == Gone(l, old, m, i)
  <2>1. m \in Nat /\ k \in 1 .. Len(old) /\ k \in Nat /\ i \in DOMAIN pool
    BY <1>1, <1>2
  <2>2. IsFiniteSet(G) /\ Cardinality(G) = Lost(old, m, i)
    BY <1>1, <2>1, LostSlots
  <2>3. IsFiniteSet(S) /\ pool[i].count = Cardinality(S)
    BY <2>1 DEF Counted
  <2>4. ASSUME NEW j \in 1 .. Len(old), old[j].block = i PROVE <<l, j>> \in S
    <3>1. IsSlot(Names, table, i, <<l, j>>)
      BY <2>4 DEF IsSlot
    <3> HIDE DEF i
    <3> QED
      BY <3>1, InSlots
  <2>5. G \subseteq S
    <3>1. \A j \in m + 1 .. Len(old) : j \in 1 .. Len(old)
      BY <2>1
    <3> HIDE DEF i, S, old
    <3> QED
      BY <2>4, <3>1 DEF Gone
  <2>6. <<l, k>> \in S \ G
    <3>1. <<l, k>> \in S
      BY <2>1, <2>4
    <3>2. <<l, k>> \notin G
      BY <2>1 DEF Gone
    <3> QED
      BY <3>1, <3>2
  <2> HIDE DEF S, G
  <2>7. /\ IsFiniteSet(S \ G) /\ Cardinality(S \ G) = Cardinality(S) - Cardinality(S \cap G)
    BY <2>3, FS_Difference
  <2>8. S \cap G = G
    BY <2>5
  <2>9. Cardinality(S \ G) # 0 /\ Cardinality(S \ G) \in Nat
    BY <2>6, <2>7, FS_EmptySet, FS_CardinalityType
  <2>10. Cardinality(S) \in Nat /\ Cardinality(G) \in Nat
    BY <2>2, <2>3, FS_CardinalityType
  <2>11. Cardinality(S) > Cardinality(G)
    <3>1. Cardinality(S \ G) = Cardinality(S) - Cardinality(G)
      BY <2>7, <2>8, Zenon
    <3> DEFINE a == Cardinality(S)
               b == Cardinality(G)
               c == Cardinality(S \ G)
    <3>2. a \in Nat /\ b \in Nat /\ c \in Nat /\ c # 0 /\ c = a - b
      BY <2>9, <2>10, <3>1
    <3> HIDE DEF a, b, c
    <3>3. a > b
      BY <3>2
    <3> QED
      BY <3>3 DEF a, b
  <2> QED
    BY <2>2, <2>3, <2>11
<1>4. ASSUME NEW j \in 1 .. Len(old), NEW k \in 1 .. Len(old),
             old[j].block = old[k].block, pool[old[k].block].count = 1
      PROVE  j = k
  <2> DEFINE i == old[k].block
  <2>1. i \in DOMAIN pool
    BY <1>2
  <2>2. IsSlot(Names, table, i, <<l, j>>) /\ IsSlot(Names, table, i, <<l, k>>)
    BY <1>4 DEF IsSlot
  <2>3. pool[i].count = 1
    BY <1>4
  <2> HIDE DEF i
  <2>4. <<l, j>> = <<l, k>>
    BY <2>1, <2>2, <2>3, OneSlot
  <2> QED
    BY <2>4
<1> QED
  BY <1>1, <1>3, <1>4 DEF ListOK

\* The pool after blocks ids were added, and one block of the first m
\* references, counted once, was perhaps written to.
Writes(pool, mid, ids, old, m) ==
    /\ PoolOK(mid)
    /\ DOMAIN mid = DOMAIN pool \cup {ids[k] : k \in 1 .. Len(ids)}
    /\ \A i \in DOMAIN pool :
          /\ mid[i].count = pool[i].count
          /\ mid[i].tokens # pool[i].tokens =>
                pool[i].count = 1 /\ \E k \in 1 .. m : old[k].block = i
    /\ \A k \in 1 .. Len(ids) : mid[ids[k]].count = 1

\* The pool after the references after m were counted off.
Drops(mid, next, old, m) ==
    /\ PoolOK(next) /\ DOMAIN next \subseteq DOMAIN mid
    /\ \A i \in DOMAIN mid : i \in DOMAIN next <=> mid[i].count > Lost(old, m, i)
    /\ \A i \in DOMAIN next : /\ next[i].tokens = mid[i].tokens
                              /\ next[i].count = mid[i].count - Lost(old, m, i)

\* The list after its references after m were replaced by ones to ids.
Follows(old, new, m, ids) ==
    /\ new \in Seq(Ref) /\ m \in 0 .. Len(old) /\ Len(new) = m + Len(ids)
    /\ \A k \in 1 .. m : new[k].block = old[k].block /\ new[k].owner = old[k].owner
    /\ \A k \in 1 .. Len(ids) : new[m + k].block = ids[k]

\* What an operation owes the list it replaces.
Replaced(pool, next, old, new) ==
    /\ new \in Seq(Ref) /\ PoolOK(next) /\ Tiled(new, next)
    /\ \E m \in Nat : Replaces(pool, next, old, new, m)

LEMMA NoneLost ==
    ASSUME NEW old \in Seq(Ref), NEW m \in Nat, NEW i,
           \A k \in m + 1 .. Len(old) : old[k].block # i
    PROVE  Lost(old, m, i) = 0
<1>1. {k \in m + 1 .. Len(old) : old[k].block = i} = {}
  OBVIOUS
<1> QED
  BY <1>1, FS_EmptySet DEF Lost

LEMMA DropsNothing ==
    ASSUME NEW old \in Seq(Ref), NEW mid, PoolOK(mid)
    PROVE  Drops(mid, mid, old, Len(old))
<1>1. \A i : Lost(old, Len(old), i) = 0
  <2>1. Len(old) \in Nat /\ Len(old) + 1 .. Len(old) = {}
    OBVIOUS
  <2> QED
    BY <2>1, NoneLost
<1>2. \A i \in DOMAIN mid : mid[i].count \in Nat \ {0}
  BY DEF PoolOK, Block
<1> QED
  BY <1>1, <1>2 DEF Drops

LEMMA StepReplaces ==
    ASSUME NEW old, NEW pool, ListOK(old, pool), NEW ids, FreshFor(ids, pool),
           NEW m, NEW mid, Writes(pool, mid, ids, old, m),
           NEW next, Drops(mid, next, old, m), NEW new, Follows(old, new, m, ids),
           Tiled(new, mid)
    PROVE  Replaced(pool, next, old, new)
<1>1. /\ old \in Seq(Ref) /\ new \in Seq(Ref) /\ m \in Nat /\ m \in 0 .. Len(old)
      /\ Len(old) \in Nat /\ Len(new) = m + Len(ids) /\ Len(ids) \in Nat
      /\ \A k \in 1 .. m : k \in 1 .. Len(old)
  BY DEF ListOK, FreshFor, Follows
<1>2. \A k \in 1 .. Len(old) : old[k].block \in DOMAIN pool
  BY DEF ListOK, Tiled
<1>3. ASSUME NEW k \in m + 1 .. Len(new)
      PROVE  k - m \in 1 .. Len(ids) /\ new[k].block = ids[k - m]
  <2>1. k - m \in 1 .. Len(ids) /\ k = m + (k - m)
    BY <1>1
  <2> QED
    BY <2>1 DEF Follows
<1>4. \A k \in 1 .. Len(ids) : m + k \in m + 1 .. Len(new) /\ new[m + k].block = ids[k]
  BY <1>1 DEF Follows
<1>5. ASSUME NEW k \in 1 .. Len(ids)
      PROVE  ids[k] \in DOMAIN next /\ next[ids[k]].count = 1
  <2>1. ids[k] \in DOMAIN mid /\ mid[ids[k]].count = 1
    BY DEF Writes
  <2>2. \A j \in m + 1 .. Len(old) : old[j].block # ids[k]
    BY <1>1, <1>2 DEF FreshFor
  <2>3. Lost(old, m, ids[k]) = 0
    BY <1>1, <2>2, NoneLost
  <2> QED
    BY <2>1, <2>3 DEF Drops
<1>6. ASSUME NEW i \in DOMAIN pool
      PROVE  /\ i \in DOMAIN mid /\ mid[i].count = pool[i].count
             /\ mid[i].tokens # pool[i].tokens =>
                   pool[i].count = 1 /\ \E k \in 1 .. m : old[k].block = i
             /\ i \in DOMAIN next <=> pool[i].count > Lost(old, m, i)
  BY DEF Writes, Drops
<1>7. ASSUME NEW k \in 1 .. m PROVE old[k].block \in DOMAIN next
  <2>1. pool[old[k].block].count > Lost(old, m, old[k].block)
    BY <1>1 DEF ListOK
  <2> QED
    BY <1>1, <1>2, <1>6, <2>1
<1>8. \A k \in 1 .. Len(new) : new[k].block \in DOMAIN next
  <2> SUFFICES ASSUME NEW k \in 1 .. Len(new) PROVE new[k].block \in DOMAIN next
    OBVIOUS
  <2>1. k \in 1 .. m \/ k \in m + 1 .. Len(new)
    BY <1>1
  <2> QED
    BY <2>1, <1>3, <1>5, <1>7 DEF Follows
<1>9. Tiled(new, next)
  BY <1>8 DEF Drops, Tiled
<1>10. Replaces(pool, next, old, new, m)
  <2>1. m \in 0 .. Len(old) /\ m <= Len(new)
    BY <1>1
  <2>2. \A k \in 1 .. m : new[k].block = old[k].block /\ new[k].owner = old[k].owner
    BY DEF Follows
  <2>3. \A k \in m + 1 .. Len(new) : /\ new[k].block \notin DOMAIN pool
                                    /\ new[k].block \in DOMAIN next
                                    /\ next[new[k].block].count = 1
    BY <1>3, <1>5 DEF FreshFor
  <2>4. ASSUME NEW j \in m + 1 .. Len(new), NEW k \in m + 1 .. Len(new),
               new[j].block = new[k].block
        PROVE  j = k
    <3>1. j - m = k - m
      BY <1>3, <2>4 DEF FreshFor
    <3> QED
      BY <1>1, <3>1
  <2>5. \A i \in DOMAIN next : i \in DOMAIN pool \/ \E k \in m + 1 .. Len(new) : new[k].block = i
    <3> SUFFICES ASSUME NEW i \in DOMAIN next, i \notin DOMAIN pool
                 PROVE  \E k \in m + 1 .. Len(new) : new[k].block = i
      OBVIOUS
    <3>1. PICK k \in 1 .. Len(ids) : i = ids[k]
      BY DEF Drops, Writes
    <3> QED
      BY <1>4, <3>1
  <2>6. \A i \in DOMAIN pool : i \in DOMAIN next <=> pool[i].count > Lost(old, m, i)
    BY <1>6
  <2>7. \A i \in DOMAIN pool \cap DOMAIN next :
          /\ next[i].count = pool[i].count - Lost(old, m, i)
          /\ next[i].tokens # pool[i].tokens =>
                pool[i].count = 1 /\ \E k \in 1 .. m : old[k].block = i
    BY <1>6 DEF Drops
  <2> QED
    BY <2>1, <2>2, <2>3, <2>4, <2>5, <2>6, <2>7 DEF Replaces
<1> QED
  BY <1>1, <1>9, <1>10 DEF Replaced, Drops

-----------------------------------------------------------------------------
(***************************************************************************)
(* What the operations do to one list                                      *)
(***************************************************************************)

\* The first n references keep their validity, the others have the given one.
Validates(old, new, n, valid) ==
    /\ n \in 0 .. Len(old) /\ n <= Len(new)
    /\ \A k \in 1 .. n : new[k].valid = old[k].valid
    /\ \A k \in n + 1 .. Len(new) : new[k].valid = valid

LEMMA FirmStaysFirst ==
    ASSUME NEW old \in Seq(Ref), NEW new \in Seq(Ref), NEW n, FirmFirst(old),
           Validates(old, new, n, "tentative")
    PROVE  FirmFirst(new)
<1>1. n \in Nat /\ n <= Len(old) /\ n <= Len(new) /\ Len(old) \in Nat /\ Len(new) \in Nat
  BY DEF Validates
<1>2. ASSUME NEW k \in 2 .. Len(new), new[k].valid = "committed"
      PROVE  new[k - 1].valid = "committed"
  <2>1. k \in 1 .. n
    <3>1. k \notin n + 1 .. Len(new)
      BY <1>2 DEF Validates
    <3> QED
      BY <1>1, <3>1
  <2>2. k - 1 \in 1 .. n /\ k \in 2 .. Len(old)
    BY <1>1, <2>1
  <2> QED
    BY <1>2, <2>1, <2>2 DEF Validates, FirmFirst
<1> QED
  BY <1>2 DEF FirmFirst

\* The committed references of a list are its first ones.
LEMMA CommittedArePrefix ==
    ASSUME NEW refs, refs \in Seq(Ref), FirmFirst(refs), NEW tail, tail \in BOOLEAN
    PROVE  \E m \in 0 .. Len(refs) :
               {k \in DOMAIN refs : tail \/ refs[k].valid = "committed"} = 1 .. m
<1>1. Len(refs) \in Nat /\ DOMAIN refs = 1 .. Len(refs)
  OBVIOUS
<1>2. CASE tail
  <2>1. {k \in DOMAIN refs : tail \/ refs[k].valid = "committed"} = 1 .. Len(refs)
    BY <1>1, <1>2
  <2>2. Len(refs) \in 0 .. Len(refs)
    BY <1>1
  <2> QED
    BY <2>1, <2>2
<1>3. CASE ~tail
  <2> DEFINE Firm == {k \in 1 .. Len(refs) : refs[k].valid = "committed"}
             Soft == {k \in 1 .. Len(refs) : refs[k].valid # "committed"}
  <2>1. {k \in DOMAIN refs : tail \/ refs[k].valid = "committed"} = Firm
    BY <1>1, <1>3
  <2>2. CASE Soft = {}
    <3>1. Firm = 1 .. Len(refs) /\ Len(refs) \in 0 .. Len(refs)
      BY <1>1, <2>2
    <3> QED
      BY <2>1, <3>1
  <2>3. CASE Soft # {}
    <3>1. Soft \in SUBSET Nat
      BY <1>1
    <3>2. PICK x \in Soft : \A y \in Soft : x <= y
      BY <2>3, <3>1, LeastOf
    <3>3. x \in 1 .. Len(refs) /\ x \in Nat /\ refs[x].valid # "committed"
      BY <1>1, <3>2
    <3> DEFINE Late == {k \in Firm : k >= x}
    <3>4. ASSUME Late # {} PROVE FALSE
      <4>1. Late \in SUBSET Nat
        BY <1>1
      <4>2. PICK y \in Late : \A z \in Late : y <= z
        BY <3>4, <4>1, LeastOf
      <4>3. y \in 1 .. Len(refs) /\ refs[y].valid = "committed" /\ y >= x
        BY <4>2
      <4>4. y # x
        BY <3>3, <4>3
      <4>5. y \in 2 .. Len(refs) /\ y - 1 \in 1 .. Len(refs) /\ y - 1 >= x /\ ~(y <= y - 1)
        BY <1>1, <3>3, <4>3, <4>4
      <4>6. refs[y - 1].valid = "committed"
        BY <4>3, <4>5 DEF FirmFirst
      <4>7. y - 1 \in Late
        BY <4>5, <4>6
      <4> QED
        BY <4>2, <4>5, <4>7
    <3>5. ASSUME NEW k \in 1 .. Len(refs), k < x PROVE k \in Firm
      <4>1. k \notin Soft
        BY <3>2, <3>3, <3>5
      <4> QED
        BY <4>1
    <3>6. ASSUME NEW k \in Firm PROVE k < x
      <4>1. ~(k >= x)
        BY <3>4
      <4> QED
        BY <1>1, <3>3, <4>1
    <3>7. Firm = 1 .. x - 1 /\ x - 1 \in 0 .. Len(refs)
      <4>1. \A k : k \in Firm => k \in 1 .. x - 1
        BY <1>1, <3>3, <3>6
      <4>2. \A k : k \in 1 .. x - 1 => k \in Firm
        <5>1. \A k \in 1 .. x - 1 : k \in 1 .. Len(refs) /\ k < x
          BY <1>1, <3>3
        <5> QED
          BY <3>5, <5>1
      <4>3. x - 1 \in 0 .. Len(refs)
        BY <1>1, <3>3
      <4> HIDE DEF Firm
      <4> QED
        BY <4>1, <4>2, <4>3
    <3> QED
      BY <2>1, <3>7
  <2> QED
    BY <2>2, <2>3
<1> QED
  BY <1>2, <1>3

\* The committed references are the first n.
FirmAre(refs, n) == {k \in DOMAIN refs : refs[k].valid = "committed"} = 1 .. n

LEMMA SomeAreFirm ==
    ASSUME NEW refs, refs \in Seq(Ref), FirmFirst(refs)
    PROVE  \E n \in 0 .. Len(refs) : FirmAre(refs, n)
<1>1. PICK n \in 0 .. Len(refs) : {k \in DOMAIN refs : FALSE \/ refs[k].valid = "committed"} = 1 .. n
  BY CommittedArePrefix
<1>2. FirmAre(refs, n)
  BY <1>1 DEF FirmAre
<1> QED
  BY <1>2

LEMMA CommittedEndIs ==
    ASSUME NEW refs, NEW pool, Readable(refs, pool), NEW n, n \in 0 .. Len(refs), FirmAre(refs, n)
    PROVE  CommittedEnd(refs) = IF n = 0 THEN 0 ELSE refs[n].end
<1> DEFINE F == {k \in DOMAIN refs : refs[k].valid = "committed"}
<1>1. /\ refs \in Seq(Ref) /\ Len(refs) \in Nat /\ n \in Nat /\ Tiled(refs, pool) /\ PoolOK(pool)
      /\ F = 1 .. n /\ \A k \in 1 .. n : k \in 1 .. Len(refs)
  BY DEF Readable, FirmAre
<1>2. CommittedEnd(refs) =
          IF F = {} THEN 0
          ELSE CHOOSE e \in {refs[k].end : k \in F} : \A k \in F : refs[k].end <= e
  BY DEF CommittedEnd
<1> HIDE DEF F
<1>3. CASE n = 0
  BY <1>1, <1>2, <1>3
<1>4. CASE n # 0
  <2> DEFINE top == refs[n].end
             E == {refs[k].end : k \in F}
             e == CHOOSE x \in E : \A k \in F : refs[k].end <= x
  <2>1. n \in F /\ F # {} /\ top \in E
    BY <1>1, <1>4
  <2>2. \A k \in F : refs[k].end \in Nat
    BY <1>1, RefFields
  <2>3. ASSUME NEW k \in F PROVE refs[k].end <= top
    <3>1. k \in 1 .. Len(refs) /\ n \in 1 .. Len(refs) /\ (k = n \/ k < n)
      BY <1>1, <1>4
    <3>2. /\ refs[n].start < refs[n].end
          /\ k < n => refs[k].end <= refs[n].start
      BY <1>1, <3>1, TiledIsOrdered
    <3>3. refs[n].start \in Nat /\ refs[n].end \in Nat
      BY <1>1, <3>1, RefFields
    <3> QED
      BY <2>2, <3>1, <3>2, <3>3
  <2>4. e \in E /\ \A k \in F : refs[k].end <= e
    BY <2>1, <2>3
  <2>5. e <= top /\ top <= e /\ e \in Nat /\ top \in Nat
    <3>1. PICK k \in F : e = refs[k].end
      BY <2>4
    <3> QED
      BY <2>1, <2>2, <2>3, <2>4, <3>1
  <2>6. e = top
    <3> HIDE DEF e, top
    <3> QED
      BY <2>5
  <2> QED
    BY <1>2, <1>4, <2>1, <2>6
<1> QED
  BY <1>3, <1>4

\* What is replaced is not committed: the committed prefix stays.
LEMMA FirmKept ==
    ASSUME NEW old, NEW pool, Readable(old, pool), NEW new, NEW next, Readable(new, next),
           FirmFirst(old), NEW m, NEW more, Carries(old, pool, new, next, m, more),
           NEW n, Validates(old, new, n, "tentative"), m <= n,
           \A k \in m + 1 .. Len(old) : old[k].valid # "committed"
    PROVE  CommittedEnd(new) = CommittedEnd(old)
<1>1. /\ old \in Seq(Ref) /\ new \in Seq(Ref) /\ DOMAIN old = 1 .. Len(old) /\ DOMAIN new = 1 .. Len(new)
      /\ Len(old) \in Nat /\ Len(new) \in Nat /\ m \in Nat /\ n \in Nat /\ m <= n
      /\ n <= Len(old) /\ n <= Len(new)
      /\ \A k \in 1 .. n : new[k].valid = old[k].valid
      /\ \A k \in n + 1 .. Len(new) : new[k].valid = "tentative"
  BY DEF Readable, Carries, Validates
<1>2. PICK j \in 0 .. Len(old) : FirmAre(old, j)
  BY <1>1, SomeAreFirm
<1>3. j \in Nat /\ \A k \in 1 .. Len(old) : old[k].valid = "committed" <=> k \in 1 .. j
  BY <1>1, <1>2 DEF FirmAre
<1>4. j <= m
  <2>1. CASE j = 0
    BY <1>1, <2>1
  <2>2. CASE j # 0
    <3>1. j \in 1 .. Len(old) /\ j \in 1 .. j
      BY <1>2, <1>3, <2>2
    <3>2. j \notin m + 1 .. Len(old)
      BY <1>3, <3>1
    <3> QED
      BY <1>1, <1>3, <3>1, <3>2
  <2> QED
    BY <2>1, <2>2
<1>5. ASSUME NEW k \in 1 .. Len(new) PROVE new[k].valid = "committed" <=> k \in 1 .. j
  <2>1. CASE k <= n
    <3>1. k \in 1 .. n /\ k \in 1 .. Len(old)
      BY <1>1, <2>1
    <3> QED
      BY <1>1, <1>3, <3>1
  <2>2. CASE ~(k <= n)
    <3>1. k \in n + 1 .. Len(new) /\ k \notin 1 .. j
      BY <1>1, <1>3, <1>4, <2>2
    <3> QED
      BY <1>1, <3>1
  <2> QED
    BY <2>1, <2>2
<1>6. FirmAre(new, j) /\ j \in 0 .. Len(new)
  <2>1. \A k \in 1 .. j : k \in 1 .. Len(new)
    BY <1>1, <1>3, <1>4
  <2> QED
    BY <1>1, <1>3, <1>4, <1>5, <2>1 DEF FirmAre
<1>7. /\ CommittedEnd(new) = IF j = 0 THEN 0 ELSE new[j].end
      /\ CommittedEnd(old) = IF j = 0 THEN 0 ELSE old[j].end
  BY <1>2, <1>6, CommittedEndIs
<1>8. j # 0 => new[j].end = old[j].end
  <2>1. j # 0 => j \in 1 .. m
    BY <1>1, <1>3, <1>4
  <2> QED
    BY <2>1, CarriedEnds
<1> QED
  BY <1>7, <1>8

\* A reference that ends after a legal cut is not committed.
LEMMA FirmBelow ==
    ASSUME NEW old, NEW pool, Readable(old, pool), FirmFirst(old),
           NEW from, from \in Nat, from >= CommittedEnd(old),
           NEW k, k \in 1 .. Len(old), from < old[k].end
    PROVE  old[k].valid # "committed"
<1>1. /\ old \in Seq(Ref) /\ DOMAIN old = 1 .. Len(old) /\ Len(old) \in Nat
      /\ Tiled(old, pool) /\ PoolOK(pool)
  BY DEF Readable
<1>2. PICK j \in 0 .. Len(old) : FirmAre(old, j)
  BY <1>1, SomeAreFirm
<1>3. CommittedEnd(old) = IF j = 0 THEN 0 ELSE old[j].end
  BY <1>2, CommittedEndIs
<1>4. SUFFICES ASSUME old[k].valid = "committed" PROVE FALSE
  OBVIOUS
<1>5. k \in 1 .. j /\ j \in 1 .. Len(old) /\ j # 0 /\ (k = j \/ k < j)
  BY <1>1, <1>2, <1>4 DEF FirmAre
<1>6. /\ old[j].start < old[j].end
      /\ k < j => old[k].end <= old[j].start
  BY <1>1, <1>5, TiledIsOrdered
<1>7. old[j].start \in Nat /\ old[j].end \in Nat /\ old[k].end \in Nat
  BY <1>1, <1>5, RefFields
<1> QED
  BY <1>3, <1>5, <1>6, <1>7

LEMMA TiledLater ==
    ASSUME NEW refs \in Seq(Ref), NEW pool, Tiled(refs, pool), NEW next,
           \A i \in DOMAIN pool : i \in DOMAIN next /\ next[i].tokens = pool[i].tokens
    PROVE  Tiled(refs, next)
BY DEF Tiled

\* New blocks behind the list.
LEMMA AddsBlocks ==
    ASSUME NEW old, NEW pool, ListOK(old, pool), NEW ids, FreshFor(ids, pool),
           NEW contents, Cut(contents), Len(contents) = Len(ids),
           NEW valid \in Validity, NEW owner \in Ownership,
           NEW next, next = Allocate(pool, ids, contents),
           NEW added, added = NewRefs(End(old), ids, contents, valid, owner)
    PROVE  /\ Replaced(pool, next, old, Joined(old, added))
           /\ Validates(old, Joined(old, added), Len(old), valid)
           /\ Carries(old, pool, Joined(old, added), next, Len(old), contents)
<1> DEFINE new == Joined(old, added)
<1>1. /\ old \in Seq(Ref) /\ PoolOK(pool) /\ Tiled(old, pool) /\ Len(old) \in Nat
      /\ ids \in Seq(BlockIds) /\ Len(ids) \in Nat
  BY DEF ListOK, FreshFor
<1>2. /\ DOMAIN next = DOMAIN pool \cup {ids[k] : k \in 1 .. Len(ids)}
      /\ \A i \in DOMAIN pool : next[i] = pool[i]
      /\ \A k \in 1 .. Len(ids) : next[ids[k]].tokens = contents[k] /\ next[ids[k]].count = 1
      /\ PoolOK(next)
  <2>1. Fills(ids, contents)
    BY DEF Fills, Cut
  <2>2. PoolOK(pool)
    BY <1>1
  <2> QED
    <3>1. Allocated(pool, next, ids, contents)
      BY <2>1, <2>2, AllocateProperties
    <3> QED
      BY <3>1 DEF Allocated
<1>3. Tiled(old, next)
  BY <1>1, <1>2, TiledLater
<1>4. Adds(old, next, ids, contents)
  BY <1>1, <1>2, <1>3 DEF Adds
<1>5. /\ new \in Seq(Ref) /\ Len(new) = Len(old) + Len(ids)
      /\ \A k \in 1 .. Len(old) : new[k] = old[k]
      /\ \A k \in 1 .. Len(ids) : /\ new[Len(old) + k].block = ids[k]
                                  /\ new[Len(old) + k].valid = valid
                                  /\ new[Len(old) + k].owner = owner
      /\ Tiled(new, next)
  <2>1. Added(old, next, ids, valid, owner, new)
    BY <1>4, ConcatTiled
  <2> HIDE DEF new
  <2> QED
    BY <2>1 DEF Added
<1> HIDE DEF new
<1>6. Writes(pool, next, ids, old, Len(old))
  BY <1>2 DEF Writes
<1>7. Drops(next, next, old, Len(old))
  BY <1>1, <1>2, DropsNothing
<1>8. Follows(old, new, Len(old), ids)
  BY <1>1, <1>5 DEF Follows
<1>9. Replaced(pool, next, old, new)
  BY <1>5, <1>6, <1>7, <1>8, StepReplaces
<1>10. Validates(old, new, Len(old), valid)
  <2>1. ASSUME NEW k \in Len(old) + 1 .. Len(new) PROVE new[k].valid = valid
    <3>1. k - Len(old) \in 1 .. Len(ids) /\ k = Len(old) + (k - Len(old))
      BY <1>1, <1>5
    <3> QED
      BY <1>5, <3>1
  <2>2. Len(old) \in 0 .. Len(old) /\ Len(old) <= Len(new)
    BY <1>1, <1>5
  <2> QED
    BY <1>5, <2>1, <2>2 DEF Validates
<1>11. Carries(old, pool, new, next, Len(old), contents)
  <2>1. contents \in Seq(Seq(Nat)) /\ Len(old) \in 0 .. Len(old)
    BY <1>1 DEF Cut
  <2>2. \A k \in 1 .. Len(old) : old[k].block \in DOMAIN pool
    BY <1>1 DEF Tiled
  <2>3. \A k \in 1 .. Len(old) : next[new[k].block].tokens = pool[old[k].block].tokens
    BY <1>2, <1>5, <2>2
  <2>4. \A k \in 1 .. Len(contents) : next[new[Len(old) + k].block].tokens = contents[k]
    BY <1>2, <1>5
  <2> QED
    BY <1>5, <2>1, <2>3, <2>4 DEF Carries
<1> QED
  BY <1>9, <1>10, <1>11 DEF new

LEMMA DecrefDrops ==
    ASSUME NEW pool, PoolOK(pool), NEW refs, refs \in Seq(Ref), NEW m, m \in 0 .. Len(refs)
    PROVE  Drops(pool, Decref(pool, After(refs, m)), refs, m)
<1> DEFINE next == Decref(pool, After(refs, m))
<1>1. /\ DOMAIN next \subseteq DOMAIN pool
      /\ \A i \in DOMAIN pool : i \in DOMAIN next <=> pool[i].count > Lost(refs, m, i)
      /\ \A i \in DOMAIN next : /\ next[i].tokens = pool[i].tokens
                                /\ next[i].count = pool[i].count - Lost(refs, m, i)
      /\ PoolOK(next)
  BY DecrefProperties
<1> HIDE DEF next
<1>2. Drops(pool, next, refs, m)
  BY <1>1 DEF Drops
<1> QED
  BY <1>2 DEF next

\* Reference m + 1 becomes r when its block w, counted once, is rewritten to ts.
Rewrites(old, pool, m, w, ts, r) ==
    /\ m \in 0 .. Len(old) - 1 /\ w = old[m + 1].block /\ pool[w].count = 1
    /\ ts \in Seq(Nat) /\ Len(ts) \in 1 .. BlockSize
    /\ r \in Ref /\ r.start = old[m + 1].start /\ r.end = r.start + Len(ts)
    /\ r.block = w /\ r.owner = old[m + 1].owner /\ r.valid = old[m + 1].valid

Rewritten(old, pool, mid, m, r, base) ==
    /\ Ended(old, mid, m, r, base)
    /\ Writes(pool, mid, <<>>, old, m + 1)
    /\ DOMAIN mid = DOMAIN pool

\* The first m texts stay, and the block of r holds ts.
Holds(old, pool, mid, m, r, ts) ==
    /\ \A k \in 1 .. m : mid[old[k].block].tokens = pool[old[k].block].tokens
    /\ mid[r.block].tokens = ts

LEMMA RewrittenTiled ==
    ASSUME NEW old, NEW pool, ListOK(old, pool), NEW m, NEW w, NEW ts, NEW r,
           Rewrites(old, pool, m, w, ts, r)
    PROVE  /\ Rewritten(old, pool, Rewrite(pool, w, ts), m, r, Ending(old, m, r))
           /\ Holds(old, pool, Rewrite(pool, w, ts), m, r, ts)
<1> DEFINE mid == Rewrite(pool, w, ts)
<1>0. /\ m \in 0 .. Len(old) - 1 /\ w = old[m + 1].block /\ pool[w].count = 1
      /\ ts \in Seq(Nat) /\ Len(ts) \in 1 .. BlockSize
      /\ r \in Ref /\ r.start = old[m + 1].start /\ r.end = r.start + Len(ts)
      /\ r.block = w
  BY DEF Rewrites
<1>1. /\ old \in Seq(Ref) /\ PoolOK(pool) /\ Tiled(old, pool)
      /\ m \in Nat /\ m + 1 \in 1 .. Len(old) /\ Len(old) \in Nat
      /\ \A k \in 1 .. m : k \in 1 .. Len(old) /\ k # m + 1
  BY <1>0 DEF ListOK
<1>2. w \in DOMAIN pool
  BY <1>0, <1>1 DEF Tiled
<1>3. /\ DOMAIN mid = DOMAIN pool
      /\ \A i \in DOMAIN pool : mid[i].count = pool[i].count /\ (i # w => mid[i] = pool[i])
      /\ mid[w].tokens = ts
      /\ PoolOK(mid)
  BY <1>0, <1>1, <1>2, RewriteProperties
<1> HIDE DEF mid
<1>4. ASSUME NEW k \in 1 .. m
      PROVE  /\ old[k].block \in DOMAIN mid
             /\ mid[old[k].block].tokens = pool[old[k].block].tokens
  <2>1. old[k].block \in DOMAIN pool
    BY <1>1 DEF Tiled
  <2>2. old[k].block # w
    BY <1>0, <1>1 DEF ListOK
  <2> QED
    BY <1>3, <2>1, <2>2
<1>5. r.block \in DOMAIN mid /\ r.end = r.start + Len(mid[r.block].tokens)
  BY <1>0, <1>2, <1>3
<1>6. Ends(old, pool, mid, m, r)
  BY <1>0, <1>1, <1>4, <1>5 DEF Ends
<1>7. Ended(old, mid, m, r, Ending(old, m, r))
  BY <1>6, ReplacedTiled
<1>8. Writes(pool, mid, <<>>, old, m + 1)
  <2>1. m + 1 \in 1 .. m + 1 /\ old[m + 1].block = w
    BY <1>0, <1>1
  <2>2. 1 .. Len(<<>>) = {}
    OBVIOUS
  <2> QED
    BY <1>0, <1>3, <2>1, <2>2 DEF Writes
<1>9. Rewritten(old, pool, mid, m, r, Ending(old, m, r))
  BY <1>3, <1>7, <1>8 DEF Rewritten
<1>10. Holds(old, pool, mid, m, r, ts)
  BY <1>0, <1>3, <1>4 DEF Holds
<1> QED
  BY <1>9, <1>10 DEF mid

\* Reference m + 1 becomes r, to a new block of its own that holds ts.
Copies(old, m, i, ts, r) ==
    /\ m \in 0 .. Len(old) - 1
    /\ ts \in Seq(Nat) /\ Len(ts) \in 1 .. BlockSize
    /\ r \in Ref /\ r.start = old[m + 1].start /\ r.end = r.start + Len(ts)
    /\ r.block = i /\ r.valid = old[m + 1].valid

\* ts, then contents.
Prepended(ts, contents, filling) ==
    /\ filling \in Seq(Seq(Nat)) /\ Len(filling) = Len(contents) + 1
    /\ filling[1] = ts
    /\ \A k \in 1 .. Len(contents) : filling[k + 1] = contents[k]

LEMMA PrependIs ==
    ASSUME NEW ts, ts \in Seq(Nat), NEW contents, contents \in Seq(Seq(Nat)),
           NEW filling, filling = <<ts>> \o contents
    PROVE  Prepended(ts, contents, filling)
<1>1. <<ts>> \in Seq(Seq(Nat)) /\ Len(<<ts>>) = 1 /\ <<ts>>[1] = ts /\ Len(contents) \in Nat
  OBVIOUS
<1>2. /\ filling \in Seq(Seq(Nat)) /\ Len(filling) = 1 + Len(contents)
      /\ \A k \in 1 .. 1 + Len(contents) : filling[k] = IF k <= 1 THEN <<ts>>[k] ELSE contents[k - 1]
  BY <1>1, ConcatProperties
<1>3. filling[1] = ts
  BY <1>1, <1>2
<1>4. ASSUME NEW k \in 1 .. Len(contents) PROVE filling[k + 1] = contents[k]
  <2>1. k + 1 \in 1 .. 1 + Len(contents) /\ ~(k + 1 <= 1) /\ (k + 1) - 1 = k
    BY <1>1
  <2> QED
    BY <1>2, <2>1
<1>5. Len(filling) = Len(contents) + 1
  BY <1>1, <1>2
<1> QED
  BY <1>2, <1>3, <1>4, <1>5 DEF Prepended

\* The blocks ids hold ts, then contents.
Stored(ids, filling, ts, contents) ==
    /\ Cut(contents) /\ Len(ids) = Len(contents) + 1 /\ Prepended(ts, contents, filling)

\* The new list keeps m texts of the old one, and reads ts and contents behind them.
Continues(old, pool, new, next, m, ts, contents) ==
    /\ m \in 0 .. Len(old) /\ Len(contents) \in Nat /\ Len(new) = m + 1 + Len(contents)
    /\ \A k \in 1 .. m : next[new[k].block].tokens = pool[old[k].block].tokens
    /\ next[new[m + 1].block].tokens = ts
    /\ \A k \in 1 .. Len(contents) : next[new[m + 1 + k].block].tokens = contents[k]

LEMMA ContinuesCarries ==
    ASSUME NEW old, NEW pool, old \in Seq(Ref), NEW new, NEW next, NEW m, NEW ts, NEW contents,
           Continues(old, pool, new, next, m, ts, contents),
           NEW more, Prepended(ts, contents, more)
    PROVE  Carries(old, pool, new, next, m, more)
<1>1. /\ more \in Seq(Seq(Nat)) /\ Len(more) = Len(contents) + 1 /\ Len(contents) \in Nat
      /\ m \in Nat /\ m \in 0 .. Len(old) /\ Len(new) = m + 1 + Len(contents)
  BY DEF Prepended, Continues
<1>2. Len(new) = m + Len(more)
  BY <1>1
<1>3. ASSUME NEW k \in 1 .. Len(more) PROVE next[new[m + k].block].tokens = more[k]
  <2>1. CASE k = 1
    BY <2>1 DEF Prepended, Continues
  <2>2. CASE k # 1
    <3>1. k - 1 \in 1 .. Len(contents) /\ m + 1 + (k - 1) = m + k /\ (k - 1) + 1 = k
      BY <1>1, <2>2
    <3>2. next[new[m + 1 + (k - 1)].block].tokens = contents[k - 1]
      BY <3>1 DEF Continues
    <3>3. more[(k - 1) + 1] = contents[k - 1]
      BY <3>1 DEF Prepended
    <3> QED
      BY <3>1, <3>2, <3>3
  <2> QED
    BY <2>1, <2>2
<1> QED
  BY <1>1, <1>2, <1>3 DEF Carries, Continues

\* Counting references off leaves the texts of the blocks that stay.
LEMMA DropsCarries ==
    ASSUME NEW old, old \in Seq(Ref), NEW pool, NEW new, NEW mid, NEW next, NEW m, NEW n, NEW more,
           Carries(old, pool, new, mid, m, more), Drops(mid, next, old, n), Tiled(new, next)
    PROVE  Carries(old, pool, new, next, m, more)
<1>1. m \in Nat /\ Len(more) \in Nat /\ Len(new) = m + Len(more)
  BY DEF Carries
<1>2. \A k \in 1 .. Len(new) : next[new[k].block].tokens = mid[new[k].block].tokens
  BY DEF Drops, Tiled
<1>3. \A k \in 1 .. m : k \in 1 .. Len(new)
  BY <1>1
<1>4. \A k \in 1 .. Len(more) : m + k \in 1 .. Len(new)
  BY <1>1
<1> QED
  BY <1>2, <1>3, <1>4 DEF Carries

Copied(old, pool, mid, ids, filling, m, r, base) ==
    /\ Ended(old, mid, m, r, base)
    /\ Writes(pool, mid, ids, old, m)
    /\ Allocated(pool, mid, ids, filling)

LEMMA CopiedTiled ==
    ASSUME NEW old, NEW pool, ListOK(old, pool), NEW ids, FreshFor(ids, pool),
           NEW filling, NEW contents, NEW ts, Stored(ids, filling, ts, contents),
           NEW m, NEW r, Copies(old, m, ids[1], ts, r)
    PROVE  /\ Copied(old, pool, Allocate(pool, ids, filling), ids, filling, m, r, Ending(old, m, r))
           /\ Holds(old, pool, Allocate(pool, ids, filling), m, r, ts)
<1> DEFINE mid == Allocate(pool, ids, filling)
<1>0. /\ m \in 0 .. Len(old) - 1
      /\ ts \in Seq(Nat) /\ Len(ts) \in 1 .. BlockSize
      /\ r \in Ref /\ r.start = old[m + 1].start /\ r.end = r.start + Len(ts)
      /\ r.block = ids[1]
  BY DEF Copies
<1>1. /\ old \in Seq(Ref) /\ PoolOK(pool) /\ Tiled(old, pool)
      /\ m \in Nat /\ m + 1 \in 1 .. Len(old) /\ Len(old) \in Nat
      /\ \A k \in 1 .. m : k \in 1 .. Len(old)
  BY <1>0 DEF ListOK
<1>2. /\ Len(contents) \in Nat /\ Len(ids) = Len(contents) + 1 /\ 1 \in 1 .. Len(ids)
      /\ filling[1] = ts
  BY DEF Stored, Cut, Prepended
<1>3. Fills(ids, filling)
  <2>1. ASSUME NEW k \in 1 .. Len(ids)
        PROVE  filling[k] \in Seq(Nat) /\ Len(filling[k]) \in 1 .. BlockSize
    <3>1. CASE k = 1
      BY <3>1, <1>0, <1>2
    <3>2. CASE k # 1
      <4>1. k - 1 \in 1 .. Len(contents) /\ (k - 1) + 1 = k
        BY <1>2, <3>2
      <4>2. filling[k] = contents[k - 1]
        BY <4>1 DEF Stored, Prepended
      <4>3. contents[k - 1] \in Seq(Nat) /\ Len(contents[k - 1]) \in 1 .. BlockSize
        BY <4>1 DEF Stored, Cut
      <4> QED
        BY <4>2, <4>3
    <3> QED
      BY <3>1, <3>2
  <2> QED
    BY <2>1 DEF Fills
<1>4. Allocated(pool, mid, ids, filling)
  BY <1>1, <1>3, AllocateProperties
<1> HIDE DEF mid
<1>5. /\ \A i \in DOMAIN pool : i \in DOMAIN mid /\ mid[i] = pool[i]
      /\ ids[1] \in DOMAIN mid /\ mid[ids[1]].tokens = ts
  BY <1>2, <1>4 DEF Allocated
<1>6. Ends(old, pool, mid, m, r)
  <2>1. \A k \in 1 .. m : old[k].block \in DOMAIN pool
    BY <1>1 DEF Tiled
  <2> QED
    BY <1>0, <1>1, <1>5, <2>1 DEF Ends
<1>7. Ended(old, mid, m, r, Ending(old, m, r))
  BY <1>6, ReplacedTiled
<1>8. Writes(pool, mid, ids, old, m)
  BY <1>4 DEF Allocated, Writes
<1>9. Copied(old, pool, mid, ids, filling, m, r, Ending(old, m, r))
  BY <1>4, <1>7, <1>8 DEF Copied
<1>10. Holds(old, pool, mid, m, r, ts)
  <2>1. \A k \in 1 .. m : old[k].block \in DOMAIN pool
    BY <1>1 DEF Tiled
  <2> QED
    BY <1>0, <1>5, <2>1 DEF Holds
<1> QED
  BY <1>9, <1>10 DEF mid

\* The list and the pool after a step, and the validity of its references.
Grown(pool, next, old, new, n, valid) ==
    Replaced(pool, next, old, new) /\ Validates(old, new, n, valid)

\* The last block is rewritten to ts, and the blocks ids follow it.
InPlace(old, pool, m, w, ts, r, ids, contents) ==
    /\ m = Len(old) - 1 /\ Rewrites(old, pool, m, w, ts, r)
    /\ FreshFor(ids, pool) /\ Cut(contents) /\ Len(contents) = Len(ids)

LEMMA GrowsInPlace ==
    ASSUME NEW old, NEW pool, ListOK(old, pool), NEW m, NEW w, NEW ts, NEW r,
           NEW ids, NEW contents, InPlace(old, pool, m, w, ts, r, ids, contents),
           NEW valid, valid \in Validity, NEW owner, owner \in Ownership,
           NEW mid, mid = Rewrite(pool, w, ts), NEW next, next = Allocate(mid, ids, contents),
           NEW base, base = Ending(old, m, r),
           NEW added, added = NewRefs(End(base), ids, contents, valid, owner),
           NEW more, Prepended(ts, contents, more)
    PROVE  /\ Grown(pool, next, old, Joined(base, added), Len(old), valid)
           /\ Carries(old, pool, Joined(base, added), next, m, more)
<1>0. /\ m = Len(old) - 1 /\ Rewrites(old, pool, m, w, ts, r)
      /\ FreshFor(ids, pool) /\ Cut(contents) /\ Len(contents) = Len(ids)
  BY DEF InPlace
<1> DEFINE new == Joined(base, added)
<1>1. /\ old \in Seq(Ref) /\ PoolOK(pool) /\ Len(old) \in Nat
      /\ ids \in Seq(BlockIds) /\ Len(ids) \in Nat
  BY <1>0 DEF ListOK, FreshFor
<1>2. Rewritten(old, pool, mid, m, r, base) /\ Holds(old, pool, mid, m, r, ts)
  BY <1>0, RewrittenTiled
<1>3. Ended(old, mid, m, r, base) /\ Writes(pool, mid, <<>>, old, m + 1) /\ DOMAIN mid = DOMAIN pool
  BY <1>2 DEF Rewritten
<1>4. /\ m + 1 = Len(old) /\ m \in Nat /\ Len(base) = Len(old)
      /\ base \in Seq(Ref) /\ Tiled(base, mid) /\ base[Len(old)] = r
      /\ \A k \in 1 .. Len(old) : k = Len(old) \/ (k \in 1 .. m /\ base[k] = old[k])
  <2>1. m \in 0 .. Len(old) - 1
    BY <1>0 DEF Rewrites
  <2> QED
    BY <1>0, <1>1, <1>3, <2>1 DEF Ended
<1>5. /\ PoolOK(mid)
      /\ \A i \in DOMAIN pool :
            /\ mid[i].count = pool[i].count
            /\ mid[i].tokens # pool[i].tokens =>
                  pool[i].count = 1 /\ \E k \in 1 .. Len(old) : old[k].block = i
  BY <1>3, <1>4 DEF Writes
<1>6. Allocated(mid, next, ids, contents)
  <2>1. Fills(ids, contents)
    BY <1>0 DEF Fills, Cut
  <2>2. FreshFor(ids, mid)
    BY <1>0, <1>3 DEF FreshFor
  <2> QED
    BY <1>5, <2>1, <2>2, AllocateProperties
<1>7. /\ DOMAIN next = DOMAIN mid \cup {ids[k] : k \in 1 .. Len(ids)}
      /\ \A i \in DOMAIN mid : next[i] = mid[i]
      /\ \A k \in 1 .. Len(ids) : next[ids[k]].tokens = contents[k] /\ next[ids[k]].count = 1
      /\ PoolOK(next)
  BY <1>6 DEF Allocated
<1>8. Tiled(base, next)
  BY <1>4, <1>7, TiledLater
<1>9. Adds(base, next, ids, contents)
  BY <1>0, <1>1, <1>4, <1>7, <1>8 DEF Adds
<1>10. /\ new \in Seq(Ref) /\ Len(new) = Len(base) + Len(ids)
       /\ \A k \in 1 .. Len(base) : new[k] = base[k]
       /\ \A k \in 1 .. Len(ids) : /\ new[Len(base) + k].block = ids[k]
                                   /\ new[Len(base) + k].valid = valid
                                   /\ new[Len(base) + k].owner = owner
       /\ Tiled(new, next)
  <2>1. Added(base, next, ids, valid, owner, new)
    BY <1>9, ConcatTiled
  <2> HIDE DEF new
  <2> QED
    BY <2>1 DEF Added
<1> HIDE DEF new
<1>11. ASSUME NEW k \in 1 .. Len(old)
       PROVE  /\ new[k].block = old[k].block /\ new[k].owner = old[k].owner
              /\ new[k].valid = old[k].valid
  <2>1. new[k] = base[k]
    BY <1>4, <1>10
  <2>2. CASE k = Len(old)
    <3>1. r.block = old[k].block /\ r.owner = old[k].owner /\ r.valid = old[k].valid
      BY <1>0, <1>4, <2>2 DEF Rewrites
    <3> QED
      BY <1>4, <2>1, <2>2, <3>1
  <2>3. CASE k # Len(old)
    BY <1>4, <2>1, <2>3
  <2> QED
    BY <2>2, <2>3
<1>12. Writes(pool, next, ids, old, Len(old))
  BY <1>3, <1>5, <1>7 DEF Writes
<1>13. Drops(next, next, old, Len(old))
  BY <1>1, <1>7, DropsNothing
<1>17. /\ Len(new) = Len(old) + Len(ids)
       /\ \A k \in 1 .. Len(ids) : /\ new[Len(old) + k].block = ids[k]
                                   /\ new[Len(old) + k].valid = valid
  BY <1>4, <1>10
<1>14. Follows(old, new, Len(old), ids)
  <2>1. new \in Seq(Ref)
    BY <1>10
  <2>2. Len(old) \in 0 .. Len(old)
    BY <1>1
  <2>3. \A k \in 1 .. Len(old) : new[k].block = old[k].block /\ new[k].owner = old[k].owner
    BY <1>11
  <2> QED
    BY <1>17, <2>1, <2>2, <2>3 DEF Follows
<1>15. Replaced(pool, next, old, new)
  BY <1>0, <1>10, <1>12, <1>13, <1>14, StepReplaces
<1>16. Validates(old, new, Len(old), valid)
  <2>1. ASSUME NEW k \in Len(old) + 1 .. Len(new) PROVE new[k].valid = valid
    <3>1. k - Len(old) \in 1 .. Len(ids) /\ k = Len(old) + (k - Len(old))
      BY <1>1, <1>17
    <3> QED
      BY <1>17, <3>1
  <2>2. Len(old) \in 0 .. Len(old) /\ Len(old) <= Len(new)
    BY <1>1, <1>17
  <2> QED
    BY <1>11, <2>1, <2>2 DEF Validates
<1>18. Carries(old, pool, new, next, m, more)
  <2>1. m + 1 = Len(old) /\ m \in 0 .. Len(old) /\ Len(contents) \in Nat
        /\ Len(new) = m + 1 + Len(contents)
    BY <1>0, <1>1, <1>4, <1>17
  <2>2. \A k \in 1 .. Len(old) : new[k] = base[k] /\ next[base[k].block] = mid[base[k].block]
    <3>1. \A k \in 1 .. Len(old) : base[k].block \in DOMAIN mid
      BY <1>4 DEF Tiled
    <3> QED
      BY <1>4, <1>7, <1>10, <3>1
  <2>3. ASSUME NEW k \in 1 .. m
        PROVE  next[new[k].block].tokens = pool[old[k].block].tokens
    <3>1. k \in 1 .. Len(old) /\ base[k] = old[k]
      BY <1>3, <1>4 DEF Ended
    <3> QED
      BY <1>2, <2>2, <3>1 DEF Holds
  <2>4. next[new[m + 1].block].tokens = ts
    <3>1. m + 1 \in 1 .. Len(old) /\ base[m + 1] = r
      BY <1>4
    <3> QED
      BY <1>2, <2>2, <3>1 DEF Holds
  <2>5. \A k \in 1 .. Len(contents) : next[new[m + 1 + k].block].tokens = contents[k]
    <3>1. \A k \in 1 .. Len(ids) : new[Len(old) + k].block = ids[k] /\ next[ids[k]].tokens = contents[k]
      BY <1>7, <1>17
    <3>2. m + 1 = Len(old) /\ Len(contents) = Len(ids)
      BY <1>0, <1>4
    <3> QED
      BY <3>1, <3>2
  <2>6. Continues(old, pool, new, next, m, ts, contents)
    BY <2>1, <2>3, <2>4, <2>5 DEF Continues
  <2> QED
    BY <1>1, <2>6, ContinuesCarries
<1> QED
  BY <1>15, <1>16, <1>18 DEF new, Grown

\* Reference m + 1 becomes r, to a copy that holds ts, and the blocks others follow it.
ByCopy(old, pool, m, r, ts, ids, others, filling, contents) ==
    /\ FreshFor(ids, pool) /\ Stored(ids, filling, ts, contents)
    /\ Copies(old, m, ids[1], ts, r)
    /\ others \in Seq(BlockIds) /\ Len(others) = Len(contents)
    /\ \A k \in 1 .. Len(contents) : others[k] = ids[k + 1]

LEMMA GrowsByCopy ==
    ASSUME NEW old, NEW pool, ListOK(old, pool), NEW ids, NEW filling, NEW contents, NEW ts,
           NEW m, NEW r, NEW others, ByCopy(old, pool, m, r, ts, ids, others, filling, contents),
           NEW valid, valid \in Validity, NEW owner, owner \in Ownership,
           NEW mid, mid = Allocate(pool, ids, filling),
           NEW next, next = Decref(mid, After(old, m)),
           NEW base, base = Ending(old, m, r),
           NEW added, added = NewRefs(End(base), others, contents, valid, owner)
    PROVE  /\ Grown(pool, next, old, Joined(base, added), m + 1, valid)
           /\ Carries(old, pool, Joined(base, added), next, m, filling)
<1>0. /\ FreshFor(ids, pool) /\ Stored(ids, filling, ts, contents)
      /\ Copies(old, m, ids[1], ts, r)
      /\ others \in Seq(BlockIds) /\ Len(others) = Len(contents)
      /\ \A k \in 1 .. Len(contents) : others[k] = ids[k + 1]
  BY DEF ByCopy
<1> DEFINE new == Joined(base, added)
<1>1. /\ old \in Seq(Ref) /\ Len(old) \in Nat /\ m \in 0 .. Len(old) - 1
      /\ m \in Nat /\ m \in 0 .. Len(old) /\ \A k \in 1 .. m : k \in 1 .. m + 1
  <2>1. old \in Seq(Ref) /\ m \in 0 .. Len(old) - 1
    BY <1>0 DEF ListOK, Copies
  <2> QED
    BY <2>1
<1>2. Copied(old, pool, mid, ids, filling, m, r, base) /\ Holds(old, pool, mid, m, r, ts)
  BY <1>0, CopiedTiled
<1>3. /\ base \in Seq(Ref) /\ Len(base) = m + 1 /\ Tiled(base, mid) /\ base[m + 1] = r
      /\ \A k \in 1 .. m : base[k] = old[k]
      /\ Writes(pool, mid, ids, old, m)
      /\ PoolOK(mid)
  BY <1>2 DEF Copied, Ended, Writes
<1>4. /\ Cut(contents) /\ Len(contents) \in Nat /\ Len(ids) = Len(contents) + 1
      /\ \A k \in 1 .. Len(contents) : filling[k + 1] = contents[k] /\ k + 1 \in 1 .. Len(ids)
  BY <1>0 DEF Stored, Cut, Prepended
<1>5. \A k \in 1 .. Len(ids) : ids[k] \in DOMAIN mid /\ mid[ids[k]].tokens = filling[k]
  BY <1>2 DEF Copied, Allocated
<1>6. Adds(base, mid, others, contents)
  BY <1>0, <1>3, <1>4, <1>5 DEF Adds
<1>7. /\ new \in Seq(Ref) /\ Len(new) = Len(base) + Len(others)
      /\ \A k \in 1 .. Len(base) : new[k] = base[k]
      /\ \A k \in 1 .. Len(others) : /\ new[Len(base) + k].block = others[k]
                                     /\ new[Len(base) + k].valid = valid
                                     /\ new[Len(base) + k].owner = owner
      /\ Tiled(new, mid)
  <2>1. Added(base, mid, others, valid, owner, new)
    BY <1>6, ConcatTiled
  <2> HIDE DEF new
  <2> QED
    BY <2>1 DEF Added
<1> HIDE DEF new
<1>8. Drops(mid, next, old, m)
  BY <1>1, <1>3, DecrefDrops
<1>9. ASSUME NEW k \in 1 .. Len(ids) PROVE new[m + k].block = ids[k]
  <2>1. CASE k = 1
    <3>1. new[m + 1] = r
      BY <1>1, <1>3, <1>7
    <3> QED
      BY <1>0, <2>1, <3>1 DEF Copies
  <2>2. CASE k # 1
    <3>1. k - 1 \in 1 .. Len(contents) /\ m + k = Len(base) + (k - 1) /\ (k - 1) + 1 = k
      BY <1>1, <1>3, <1>4, <2>2
    <3>2. new[Len(base) + (k - 1)].block = others[k - 1]
      BY <1>0, <1>7, <3>1
    <3>3. others[k - 1] = ids[(k - 1) + 1]
      BY <1>0, <3>1
    <3> QED
      BY <3>1, <3>2, <3>3
  <2> QED
    BY <2>1, <2>2
<1>10. Follows(old, new, m, ids)
  <2>1. Len(new) = m + Len(ids)
    <3>1. Len(new) = m + 1 + Len(contents)
      BY <1>0, <1>3, <1>7
    <3> HIDE DEF new
    <3> QED
      BY <1>1, <1>4, <3>1
  <2> QED
    BY <1>1, <1>3, <1>7, <1>9, <2>1 DEF Follows
<1>11. Replaced(pool, next, old, new)
  BY <1>0, <1>3, <1>7, <1>8, <1>10, StepReplaces
<1>12. Validates(old, new, m + 1, valid)
  <2>1. ASSUME NEW k \in (m + 1) + 1 .. Len(new) PROVE new[k].valid = valid
    <3>1. k - (m + 1) \in 1 .. Len(others) /\ k = Len(base) + (k - (m + 1))
      BY <1>0, <1>1, <1>3, <1>4, <1>7
    <3> QED
      BY <1>7, <3>1
  <2>2. m + 1 \in 0 .. Len(old) /\ m + 1 <= Len(new)
    BY <1>0, <1>1, <1>3, <1>4, <1>7
  <2>3. ASSUME NEW k \in 1 .. m + 1 PROVE new[k].valid = old[k].valid
    <3>1. new[k] = base[k] /\ (k = m + 1 \/ k \in 1 .. m)
      BY <1>1, <1>3, <1>7
    <3>2. r.valid = old[m + 1].valid
      BY <1>0 DEF Copies
    <3> QED
      BY <1>3, <3>1, <3>2
  <2> QED
    BY <2>1, <2>2, <2>3 DEF Validates
<1>13. Carries(old, pool, new, next, m, filling)
  <2>1. Len(new) = m + 1 + Len(contents)
    BY <1>0, <1>3, <1>7
  <2>2. ASSUME NEW k \in 1 .. m PROVE mid[new[k].block].tokens = pool[old[k].block].tokens
    <3>1. k \in 1 .. Len(base) /\ base[k] = old[k]
      BY <1>1, <1>3
    <3> QED
      BY <1>2, <1>7, <3>1 DEF Holds
  <2>3. mid[new[m + 1].block].tokens = ts
    <3>1. new[m + 1] = r
      BY <1>1, <1>3, <1>7
    <3> QED
      BY <1>2, <3>1 DEF Holds
  <2>4. ASSUME NEW k \in 1 .. Len(contents) PROVE mid[new[m + 1 + k].block].tokens = contents[k]
    <3>1. new[m + 1 + k].block = others[k] /\ others[k] = ids[k + 1]
      BY <1>0, <1>3, <1>7
    <3> QED
      BY <1>4, <1>5, <3>1
  <2>5. Continues(old, pool, new, mid, m, ts, contents)
    BY <1>1, <1>4, <2>1, <2>2, <2>3, <2>4 DEF Continues
  <2>6. Carries(old, pool, new, mid, m, filling)
    BY <1>0, <1>1, <2>5, ContinuesCarries DEF Stored
  <2>7. Tiled(new, next)
    BY <1>11 DEF Replaced
  <2> QED
    BY <1>1, <1>8, <2>6, <2>7, DropsCarries
<1> QED
  BY <1>11, <1>12, <1>13 DEF new, Grown

LEMMA NoNewBlocks ==
    ASSUME NEW old, NEW pool, ListOK(old, pool), NEW m
    PROVE  FreshFor(<<>>, pool) /\ Writes(pool, pool, <<>>, old, m)
<1>1. 1 .. Len(<<>>) = {} /\ <<>> \in Seq(BlockIds)
  OBVIOUS
<1>2. FreshFor(<<>>, pool)
  BY <1>1 DEF FreshFor
<1>3. PoolOK(pool)
  BY DEF ListOK
<1>4. Writes(pool, pool, <<>>, old, m)
  BY <1>1, <1>3 DEF Writes
<1> QED
  BY <1>2, <1>4

\* The same references, but for what they hold beyond block and owner.
Keeps(old, new, m) ==
    /\ new \in Seq(Ref) /\ m \in 0 .. Len(old) /\ Len(new) = m
    /\ \A k \in 1 .. m : new[k].block = old[k].block /\ new[k].owner = old[k].owner

LEMMA FollowsWithNone ==
    ASSUME NEW old, NEW new, NEW m, Keeps(old, new, m)
    PROVE  Follows(old, new, m, <<>>)
<1>1. 1 .. Len(<<>>) = {} /\ Len(<<>>) = 0
  OBVIOUS
<1>2. m \in Nat /\ Len(new) = m
  BY DEF Keeps
<1>3. Len(new) = m + Len(<<>>)
  BY <1>1, <1>2
<1> QED
  BY <1>1, <1>3 DEF Follows, Keeps

\* Reference m + 1 and those after it are dropped.
Prefix(old, m, new) ==
    /\ m \in 0 .. Len(old) /\ new \in Seq(Ref) /\ Len(new) = m
    /\ \A k \in 1 .. m : new[k] = old[k]

LEMMA KeepsPrefix ==
    ASSUME NEW old, NEW pool, ListOK(old, pool), NEW m, NEW new, Prefix(old, m, new), NEW valid,
           NEW next, next = Decref(pool, After(old, m))
    PROVE  /\ Replaced(pool, next, old, new) /\ Validates(old, new, m, valid)
           /\ Carries(old, pool, new, next, m, <<>>)
<1>1. /\ m \in 0 .. Len(old) /\ new \in Seq(Ref) /\ Len(new) = m
      /\ \A k \in 1 .. m : new[k] = old[k]
  BY DEF Prefix
<1>2. old \in Seq(Ref) /\ PoolOK(pool) /\ Tiled(old, pool) /\ m \in Nat
  BY <1>1 DEF ListOK
<1>3. Tiled(new, pool)
  <2>1. \A k \in 1 .. m : k \in 1 .. Len(old) /\ (k # 1 => k - 1 \in 1 .. m)
    BY <1>1, <1>2
  <2> QED
    BY <1>1, <1>2, <2>1 DEF Tiled
<1>4. Drops(pool, next, old, m)
  BY <1>1, <1>2, DecrefDrops
<1>5. Follows(old, new, m, <<>>)
  <2>1. Keeps(old, new, m)
    BY <1>1 DEF Keeps
  <2> QED
    BY <2>1, FollowsWithNone
<1>6. FreshFor(<<>>, pool) /\ Writes(pool, pool, <<>>, old, m)
  BY NoNewBlocks
<1>7. Replaced(pool, next, old, new)
  BY <1>3, <1>4, <1>5, <1>6, StepReplaces
<1>8. Validates(old, new, m, valid)
  <2>1. m <= Len(new) /\ m + 1 .. Len(new) = {}
    BY <1>1, <1>2
  <2> QED
    BY <1>1, <2>1 DEF Validates
<1>9. Carries(old, pool, new, next, m, <<>>)
  <2>1. <<>> \in Seq(Seq(Nat)) /\ Len(<<>>) = 0 /\ 1 .. 0 = {}
    BY EmptySeq
  <2>2. Carries(old, pool, new, pool, m, <<>>)
    BY <1>1, <1>2, <2>1 DEF Carries
  <2>3. Tiled(new, next)
    BY <1>7 DEF Replaced
  <2> QED
    BY <1>2, <1>4, <2>2, <2>3, DropsCarries
<1> QED
  BY <1>7, <1>8, <1>9

LEMMA EndedValidates ==
    ASSUME NEW old, NEW mid, NEW m, NEW r, NEW base, Ended(old, mid, m, r, base),
           m \in 0 .. Len(old) - 1, old \in Seq(Ref), r.valid = old[m + 1].valid, NEW valid
    PROVE  Validates(old, base, m + 1, valid)
<1>1. m + 1 \in 0 .. Len(old) /\ Len(base) = m + 1 /\ m + 1 <= Len(base)
      /\ (m + 1) + 1 .. Len(base) = {}
  BY DEF Ended
<1>2. ASSUME NEW k \in 1 .. m + 1 PROVE base[k].valid = old[k].valid
  <2>1. k = m + 1 \/ k \in 1 .. m
    OBVIOUS
  <2> QED
    BY <2>1 DEF Ended
<1> QED
  BY <1>1, <1>2 DEF Validates

LEMMA EndedCarries ==
    ASSUME NEW old, old \in Seq(Ref), NEW pool, NEW mid, NEW m, m \in 0 .. Len(old) - 1, NEW r,
           NEW base, Ended(old, mid, m, r, base), NEW ts, ts \in Seq(Nat),
           Holds(old, pool, mid, m, r, ts)
    PROVE  Carries(old, pool, base, mid, m, <<ts>>)
<1>1. <<ts>> \in Seq(Seq(Nat)) /\ Len(<<ts>>) = 1 /\ <<ts>>[1] = ts /\ \A k \in 1 .. 1 : k = 1
  OBVIOUS
<1>2. m \in 0 .. Len(old)
  OBVIOUS
<1> QED
  BY <1>1, <1>2 DEF Ended, Holds, Carries

LEMMA Truncates ==
    ASSUME NEW old, NEW pool, ListOK(old, pool), NEW m, NEW w, NEW ts, NEW r,
           Rewrites(old, pool, m, w, ts, r), NEW valid,
           NEW mid, mid = Rewrite(pool, w, ts),
           NEW next, next = Decref(mid, After(old, m + 1)),
           NEW base, base = Ending(old, m, r)
    PROVE  /\ Replaced(pool, next, old, base) /\ Validates(old, base, m + 1, valid)
           /\ Carries(old, pool, base, next, m, <<ts>>)
<1>1. Rewritten(old, pool, mid, m, r, base) /\ Holds(old, pool, mid, m, r, ts)
  BY RewrittenTiled
<1>2. Ended(old, mid, m, r, base) /\ Writes(pool, mid, <<>>, old, m + 1) /\ PoolOK(mid)
  BY <1>1 DEF Rewritten, Writes
<1>3. /\ old \in Seq(Ref) /\ m \in 0 .. Len(old) - 1 /\ m \in Nat /\ m + 1 \in 0 .. Len(old)
      /\ r.valid = old[m + 1].valid /\ r.block = old[m + 1].block /\ r.owner = old[m + 1].owner
  BY DEF Rewrites, ListOK
<1>4. /\ base \in Seq(Ref) /\ Len(base) = m + 1 /\ Tiled(base, mid) /\ base[m + 1] = r
      /\ \A k \in 1 .. m : base[k] = old[k]
  BY <1>2 DEF Ended
<1>5. ASSUME NEW k \in 1 .. m + 1 PROVE base[k].block = old[k].block /\ base[k].owner = old[k].owner
  <2>1. k = m + 1 \/ k \in 1 .. m
    BY <1>3
  <2> QED
    BY <1>3, <1>4, <2>1
<1>6. Follows(old, base, m + 1, <<>>)
  <2>1. Keeps(old, base, m + 1)
    BY <1>3, <1>4, <1>5 DEF Keeps
  <2> QED
    BY <2>1, FollowsWithNone
<1>7. Drops(mid, next, old, m + 1)
  BY <1>2, <1>3, DecrefDrops
<1>8. FreshFor(<<>>, pool)
  BY NoNewBlocks
<1>9. Replaced(pool, next, old, base)
  BY <1>2, <1>4, <1>6, <1>7, <1>8, StepReplaces
<1>10. Validates(old, base, m + 1, valid)
  BY <1>2, <1>3, EndedValidates
<1>11. Carries(old, pool, base, mid, m, <<ts>>)
  BY <1>1, <1>2, <1>3, EndedCarries DEF Rewrites
<1>12. Tiled(base, next)
  BY <1>9 DEF Replaced
<1>13. Carries(old, pool, base, next, m, <<ts>>)
  BY <1>3, <1>7, <1>11, <1>12, DropsCarries
<1> QED
  BY <1>9, <1>10, <1>13

LEMMA CutsByCopy ==
    ASSUME NEW old, NEW pool, ListOK(old, pool), NEW ids, FreshFor(ids, pool),
           NEW filling, NEW contents, NEW ts, Stored(ids, filling, ts, contents), Len(contents) = 0,
           NEW m, NEW r, Copies(old, m, ids[1], ts, r), NEW valid,
           NEW mid, mid = Allocate(pool, ids, filling),
           NEW next, next = Decref(mid, After(old, m)),
           NEW base, base = Ending(old, m, r)
    PROVE  /\ Replaced(pool, next, old, base) /\ Validates(old, base, m + 1, valid)
           /\ Carries(old, pool, base, next, m, <<ts>>)
<1>1. Copied(old, pool, mid, ids, filling, m, r, base) /\ Holds(old, pool, mid, m, r, ts)
  BY CopiedTiled
<1>2. Ended(old, mid, m, r, base) /\ Writes(pool, mid, ids, old, m) /\ PoolOK(mid)
  BY <1>1 DEF Copied, Writes
<1>3. /\ old \in Seq(Ref) /\ m \in 0 .. Len(old) - 1 /\ m \in Nat /\ m \in 0 .. Len(old)
      /\ r.valid = old[m + 1].valid /\ r.block = ids[1] /\ Len(ids) = 1
  BY DEF Copies, ListOK, Stored
<1>4. /\ base \in Seq(Ref) /\ Len(base) = m + 1 /\ Tiled(base, mid) /\ base[m + 1] = r
      /\ \A k \in 1 .. m : base[k] = old[k]
  BY <1>2 DEF Ended
<1>5. Follows(old, base, m, ids)
  <2>1. \A k \in 1 .. Len(ids) : k = 1
    BY <1>3
  <2> QED
    BY <1>3, <1>4, <2>1 DEF Follows
<1>6. Drops(mid, next, old, m)
  BY <1>2, <1>3, DecrefDrops
<1>7. Replaced(pool, next, old, base)
  BY <1>2, <1>4, <1>5, <1>6, StepReplaces
<1>8. Validates(old, base, m + 1, valid)
  BY <1>2, <1>3, EndedValidates
<1>9. Carries(old, pool, base, mid, m, <<ts>>)
  BY <1>1, <1>2, <1>3, EndedCarries DEF Copies
<1>10. Tiled(base, next)
  BY <1>7 DEF Replaced
<1>11. Carries(old, pool, base, next, m, <<ts>>)
  BY <1>3, <1>6, <1>9, <1>10, DropsCarries
<1> QED
  BY <1>7, <1>8, <1>11

\* The same references with another validity.
Relabels(old, new) ==
    /\ new \in Seq(Ref) /\ Len(new) = Len(old)
    /\ \A k \in 1 .. Len(old) : /\ new[k].start = old[k].start /\ new[k].end = old[k].end
                                /\ new[k].block = old[k].block /\ new[k].owner = old[k].owner

LEMMA RelabelReplaces ==
    ASSUME NEW old, NEW pool, ListOK(old, pool), NEW new, Relabels(old, new)
    PROVE  Replaced(pool, pool, old, new)
<1>1. old \in Seq(Ref) /\ PoolOK(pool) /\ Tiled(old, pool) /\ Len(old) \in 0 .. Len(old)
  BY DEF ListOK
<1>2. Tiled(new, pool)
  <2>1. \A k \in 1 .. Len(old) : k # 1 => k - 1 \in 1 .. Len(old)
    BY <1>1
  <2> QED
    BY <1>1, <2>1 DEF Tiled, Relabels
<1>3. Follows(old, new, Len(old), <<>>)
  <2>1. Keeps(old, new, Len(old))
    BY <1>1 DEF Keeps, Relabels
  <2> QED
    BY <2>1, FollowsWithNone
<1>4. Drops(pool, pool, old, Len(old))
  BY <1>1, DropsNothing
<1>5. FreshFor(<<>>, pool) /\ Writes(pool, pool, <<>>, old, Len(old))
  BY NoNewBlocks
<1> QED
  BY <1>2, <1>3, <1>4, <1>5, StepReplaces

-----------------------------------------------------------------------------
(***************************************************************************)
(* A step that replaces one list keeps the invariant                       *)
(***************************************************************************)

\* The lists of the table but l read as before.
OthersStay(Names, table, l, pool, next) ==
    \A n \in Names : n # l => Untouched(table[n], pool, next)

LEMMA ReplacedSound ==
    ASSUME NEW Names, NEW table, table \in [Names -> Seq(Ref)],
           NEW changed, changed \in [Names -> Seq(Ref)], NEW l, l \in Names,
           \A n \in Names : n # l => changed[n] = table[n],
           NEW pool, NEW next, Sound(table, pool),
           Replaced(pool, next, table[l], changed[l])
    PROVE  Sound(changed, next) /\ OthersStay(Names, table, l, pool, next)
<1>1. PICK m \in Nat : Replaces(pool, next, table[l], changed[l], m)
  BY DEF Replaced
<1>2. Updates(Names, table, changed, l, pool, next, m)
  BY <1>1 DEF Updates, Sound
<1>3. Counted(changed, next)
  BY <1>2, ReplacedCounted
<1>4. Laid(changed, next)
  <2>1. Tiled(changed[l], next) /\ Laid(table, pool)
    BY DEF Replaced, Sound
  <2> QED
    BY <1>2, <2>1, ReplacedLaid
<1>5. Sole(changed)
  <2>1. Sole(table)
    BY DEF Sound
  <2> QED
    BY <1>2, <2>1, ReplacedSole
<1>6. OthersStay(Names, table, l, pool, next)
  BY <1>2, OthersUntouched DEF OthersStay
<1> QED
  BY <1>3, <1>4, <1>5, <1>6 DEF Sound

\* The sessions and branches but the one of list l read as before.
RestStays(sessions, branches, l, pool, next) ==
    /\ \A s \in Owners : l # <<"session", s>> => Untouched(sessions[s], pool, next)
    /\ \A b \in BranchIds : l # <<"branch", b>> /\ b \in DOMAIN branches =>
          Untouched(branches[b], pool, next)

\* List l, that of a session or a branch, is the only one replaced.
LEMMA TableStep ==
    ASSUME NEW sessions, NEW branches, TypedLists(sessions, branches),
           NEW sessions2, NEW branches2, TypedLists(sessions2, branches2),
           NEW l, l \in AllLists,
           \A s \in Owners : l # <<"session", s>> => sessions2[s] = sessions[s],
           \A b \in BranchIds : l # <<"branch", b>> =>
               /\ b \in DOMAIN branches2 <=> b \in DOMAIN branches
               /\ b \in DOMAIN branches => branches2[b] = branches[b],
           NEW pool, NEW next, Sound(TableOf(sessions, branches), pool),
           Replaced(pool, next, TableOf(sessions, branches)[l], TableOf(sessions2, branches2)[l])
    PROVE  /\ Sound(TableOf(sessions2, branches2), next)
           /\ RestStays(sessions, branches, l, pool, next)
<1> DEFINE table == TableOf(sessions, branches)
           changed == TableOf(sessions2, branches2)
<1>1. /\ table \in [AllLists -> Seq(Ref)]
      /\ \A s \in Owners : <<"session", s>> \in AllLists /\ table[<<"session", s>>] = sessions[s]
      /\ \A b \in BranchIds : /\ <<"branch", b>> \in AllLists
                              /\ table[<<"branch", b>>] =
                                    IF b \in DOMAIN branches THEN branches[b] ELSE <<>>
      /\ \A n \in AllLists : \/ \E s \in Owners : n = <<"session", s>>
                             \/ \E b \in BranchIds : n = <<"branch", b>>
  BY TableFacts
<1>2. /\ changed \in [AllLists -> Seq(Ref)]
      /\ \A s \in Owners : <<"session", s>> \in AllLists /\ changed[<<"session", s>>] = sessions2[s]
      /\ \A b \in BranchIds : /\ <<"branch", b>> \in AllLists
                              /\ changed[<<"branch", b>>] =
                                    IF b \in DOMAIN branches2 THEN branches2[b] ELSE <<>>
  BY TableFacts
<1>3. Sound(table, pool) /\ Replaced(pool, next, table[l], changed[l])
  OBVIOUS
<1> HIDE DEF table, changed
<1>4. ASSUME NEW n \in AllLists, n # l PROVE changed[n] = table[n]
  <2>1. CASE \E s \in Owners : n = <<"session", s>>
    <3>1. PICK s \in Owners : n = <<"session", s>>
      BY <2>1
    <3> QED
      BY <1>1, <1>2, <1>4, <3>1
  <2>2. CASE \E b \in BranchIds : n = <<"branch", b>>
    <3>1. PICK b \in BranchIds : n = <<"branch", b>>
      BY <2>2
    <3> QED
      BY <1>1, <1>2, <1>4, <3>1
  <2> QED
    BY <1>1, <2>1, <2>2
<1>5. Sound(changed, next) /\ OthersStay(AllLists, table, l, pool, next)
  BY <1>1, <1>2, <1>3, <1>4, ReplacedSound
<1>6. ASSUME NEW s \in Owners, l # <<"session", s>> PROVE Untouched(sessions[s], pool, next)
  BY <1>1, <1>5, <1>6 DEF OthersStay
<1>7. ASSUME NEW b \in BranchIds, l # <<"branch", b>>, b \in DOMAIN branches
      PROVE  Untouched(branches[b], pool, next)
  BY <1>1, <1>5, <1>7 DEF OthersStay
<1> QED
  BY <1>5, <1>6, <1>7 DEF changed, RestStays

\* The references of session s become new.
SessionBecomes(s, new) ==
    /\ sessionRefs' = [sessionRefs EXCEPT ![s] = new]
    /\ branchRefs' = branchRefs

\* No other list is written to.
OnlySession(s, new) ==
    /\ sessionRefs' \in [Owners -> Seq(Ref)] /\ sessionRefs'[s] = new
    /\ branchRefs' = branchRefs
    /\ \A t \in Owners : t # s => /\ sessionRefs'[t] = sessionRefs[t]
                                  /\ Untouched(sessionRefs[t], blocks, blocks')
    /\ \A b \in DOMAIN branchRefs : Untouched(branchRefs[b], blocks, blocks')

LEMMA SessionStep ==
    ASSUME CacheInv, NEW s, s \in Owners, NEW new,
           Replaced(blocks, blocks', sessionRefs[s], new), FirmFirst(new),
           SessionBecomes(s, new)
    PROVE  CacheInv' /\ OnlySession(s, new)
<1>1. TypedLists(sessionRefs, branchRefs) /\ new \in Seq(Ref)
  BY DEF CacheInv, Replaced
<1>2. /\ sessionRefs' \in [Owners -> Seq(Ref)] /\ sessionRefs'[s] = new
      /\ \A t \in Owners : t # s => sessionRefs'[t] = sessionRefs[t]
      /\ branchRefs' = branchRefs
  BY <1>1 DEF TypedLists, SessionBecomes
<1>3. TypedLists(sessionRefs', branchRefs')
  BY <1>1, <1>2 DEF TypedLists
<1> DEFINE l == <<"session", s>>
<1>4. /\ l \in AllLists
      /\ TableOf(sessionRefs, branchRefs)[l] = sessionRefs[s]
      /\ TableOf(sessionRefs', branchRefs')[l] = new
  <2>1. l \in AllLists /\ TableOf(sessionRefs, branchRefs)[l] = sessionRefs[s]
    BY <1>1, TableFacts
  <2>2. TableOf(sessionRefs', branchRefs')[l] = sessionRefs'[s]
    BY <1>3, TableFacts
  <2> QED
    BY <1>2, <2>1, <2>2
<1>5. /\ \A t \in Owners : l # <<"session", t>> => sessionRefs'[t] = sessionRefs[t]
      /\ \A b \in BranchIds : l # <<"branch", b>> =>
            /\ b \in DOMAIN branchRefs' <=> b \in DOMAIN branchRefs
            /\ b \in DOMAIN branchRefs => branchRefs'[b] = branchRefs[b]
  BY <1>2
<1>6. Sound(TableOf(sessionRefs, branchRefs), blocks)
  BY DEF CacheInv
<1> HIDE DEF l
<1>7. Replaced(blocks, blocks', TableOf(sessionRefs, branchRefs)[l], TableOf(sessionRefs', branchRefs')[l])
  BY <1>4
<1>8. /\ Sound(TableOf(sessionRefs', branchRefs'), blocks')
      /\ RestStays(sessionRefs, branchRefs, l, blocks, blocks')
  BY <1>1, <1>3, <1>4, <1>5, <1>6, <1>7, TableStep
<1>9. PoolOK(blocks')
  BY DEF Replaced
<1>10. \A t \in Owners : FirmFirst(sessionRefs'[t])
  BY <1>2 DEF CacheInv
<1>11. OnlySession(s, new)
  <2>1. \A t \in Owners : t # s => l # <<"session", t>>
    BY DEF l
  <2>2. \A b \in DOMAIN branchRefs : b \in BranchIds /\ l # <<"branch", b>>
    BY <1>1 DEF l, TypedLists
  <2> QED
    BY <1>2, <1>8, <2>1, <2>2 DEF OnlySession, RestStays
<1> QED
  BY <1>3, <1>8, <1>9, <1>10, <1>11 DEF CacheInv

\* The references of branch b, none when it is not there, become new.
BranchBecomes(b, new) ==
    /\ TypedLists(sessionRefs', branchRefs')
    /\ sessionRefs' = sessionRefs
    /\ new = IF b \in DOMAIN branchRefs' THEN branchRefs'[b] ELSE <<>>
    /\ \A c \in BranchIds : c # b =>
          /\ c \in DOMAIN branchRefs' <=> c \in DOMAIN branchRefs
          /\ c \in DOMAIN branchRefs => branchRefs'[c] = branchRefs[c]

OnlyBranch(b, new) ==
    /\ BranchBecomes(b, new)
    /\ \A t \in Owners : Untouched(sessionRefs[t], blocks, blocks')
    /\ \A c \in DOMAIN branchRefs : c # b => Untouched(branchRefs[c], blocks, blocks')

LEMMA BranchStep ==
    ASSUME CacheInv, NEW b, b \in BranchIds, b \in DOMAIN branchRefs, NEW new,
           Replaced(blocks, blocks', branchRefs[b], new), BranchBecomes(b, new)
    PROVE  CacheInv' /\ OnlyBranch(b, new)
<1>1. TypedLists(sessionRefs, branchRefs)
  BY DEF CacheInv
<1>2. TypedLists(sessionRefs', branchRefs') /\ sessionRefs' = sessionRefs
  BY DEF BranchBecomes
<1> DEFINE l == <<"branch", b>>
<1>4. /\ l \in AllLists
      /\ TableOf(sessionRefs, branchRefs)[l] = branchRefs[b]
      /\ TableOf(sessionRefs', branchRefs')[l] = new
  <2>1. l \in AllLists /\ TableOf(sessionRefs, branchRefs)[l] = branchRefs[b]
    BY <1>1, TableFacts
  <2>2. TableOf(sessionRefs', branchRefs')[l] = IF b \in DOMAIN branchRefs' THEN branchRefs'[b] ELSE <<>>
    BY <1>2, TableFacts
  <2> QED
    BY <2>1, <2>2 DEF BranchBecomes
<1>5. /\ \A t \in Owners : l # <<"session", t>> => sessionRefs'[t] = sessionRefs[t]
      /\ \A c \in BranchIds : l # <<"branch", c>> =>
            /\ c \in DOMAIN branchRefs' <=> c \in DOMAIN branchRefs
            /\ c \in DOMAIN branchRefs => branchRefs'[c] = branchRefs[c]
  BY DEF BranchBecomes
<1>6. Sound(TableOf(sessionRefs, branchRefs), blocks)
  BY DEF CacheInv
<1> HIDE DEF l
<1>7. Replaced(blocks, blocks', TableOf(sessionRefs, branchRefs)[l], TableOf(sessionRefs', branchRefs')[l])
  BY <1>4
<1>8. /\ Sound(TableOf(sessionRefs', branchRefs'), blocks')
      /\ RestStays(sessionRefs, branchRefs, l, blocks, blocks')
  BY <1>1, <1>2, <1>4, <1>5, <1>6, <1>7, TableStep
<1>9. PoolOK(blocks')
  BY DEF Replaced
<1>10. \A t \in Owners : FirmFirst(sessionRefs'[t])
  BY <1>2 DEF CacheInv
<1>11. OnlyBranch(b, new)
  <2>1. \A t \in Owners : l # <<"session", t>>
    BY DEF l
  <2>2. \A c \in DOMAIN branchRefs : c \in BranchIds /\ (c # b => l # <<"branch", c>>)
    BY <1>1 DEF l, TypedLists
  <2> QED
    BY <1>8, <2>1, <2>2 DEF OnlyBranch, RestStays
<1> QED
  BY <1>2, <1>8, <1>9, <1>10, <1>11 DEF CacheInv

-----------------------------------------------------------------------------
(***************************************************************************)
(* What the sessions and branches read                                     *)
(***************************************************************************)

SessionTexts == [s \in Owners |-> Flat(sessionRefs[s])]
SessionFirm  == [s \in Owners |-> CommittedEnd(sessionRefs[s])]
BranchTexts  == [b \in DOMAIN branchRefs |-> Flat(branchRefs[b])]

\* Session s reads text afterwards, committed up to end, and nothing else changes.
SessionShows(s, text, end) ==
    /\ SessionTexts' = [SessionTexts EXCEPT ![s] = text]
    /\ SessionFirm' = [SessionFirm EXCEPT ![s] = end]
    /\ BranchTexts' = BranchTexts

\* Branch b reads text afterwards, when it is there, and nothing else changes.
BranchShows(b, text) ==
    /\ SessionTexts' = SessionTexts /\ SessionFirm' = SessionFirm
    /\ BranchTexts' = [c \in DOMAIN branchRefs' |-> IF c = b THEN text ELSE BranchTexts[c]]

LEMMA TextsRead ==
    /\ SessionTexts = [s \in Owners |-> Reads(sessionRefs[s], blocks)]
    /\ SessionTexts' = [s \in Owners |-> Reads(sessionRefs'[s], blocks')]
    /\ BranchTexts = [b \in DOMAIN branchRefs |-> Reads(branchRefs[b], blocks)]
    /\ BranchTexts' = [b \in DOMAIN branchRefs' |-> Reads(branchRefs'[b], blocks')]
    /\ SessionFirm' = [s \in Owners |-> CommittedEnd(sessionRefs'[s])]
<1>1. SessionTexts = [s \in Owners |-> Reads(sessionRefs[s], blocks)]
  BY DEF SessionTexts, Flat, TokensOf, Reads, Texts
<1>2. SessionTexts' = [s \in Owners |-> Reads(sessionRefs'[s], blocks')]
  BY DEF SessionTexts, Flat, TokensOf, Reads, Texts
<1>3. BranchTexts = [b \in DOMAIN branchRefs |-> Reads(branchRefs[b], blocks)]
  BY DEF BranchTexts, Flat, TokensOf, Reads, Texts
<1>4. BranchTexts' = [b \in DOMAIN branchRefs' |-> Reads(branchRefs'[b], blocks')]
  BY DEF BranchTexts, Flat, TokensOf, Reads, Texts
<1>5. SessionFirm' = [s \in Owners |-> CommittedEnd(sessionRefs'[s])]
  BY DEF SessionFirm, CommittedEnd
<1> QED
  BY <1>1, <1>2, <1>3, <1>4, <1>5

LEMMA SessionShown ==
    ASSUME CacheInv, NEW s, s \in Owners, NEW new, OnlySession(s, new),
           NEW text, text = Reads(new, blocks'), NEW end, end = CommittedEnd(new)
    PROVE  SessionShows(s, text, end)
<1>1. /\ sessionRefs' \in [Owners -> Seq(Ref)] /\ sessionRefs'[s] = new
      /\ branchRefs' = branchRefs
      /\ \A t \in Owners : t # s => /\ sessionRefs'[t] = sessionRefs[t]
                                    /\ Untouched(sessionRefs[t], blocks, blocks')
      /\ \A b \in DOMAIN branchRefs : Untouched(branchRefs[b], blocks, blocks')
  BY DEF OnlySession
<1>2. /\ \A t \in Owners : sessionRefs[t] \in Seq(Ref)
      /\ \A b \in DOMAIN branchRefs : branchRefs[b] \in Seq(Ref)
  BY DEF CacheInv, TypedLists
<1>3. ASSUME NEW t \in Owners, t # s
      PROVE  Reads(sessionRefs'[t], blocks') = Reads(sessionRefs[t], blocks)
  <2>1. Reads(sessionRefs[t], blocks') = Reads(sessionRefs[t], blocks)
    BY <1>1, <1>2, <1>3, UntouchedReads
  <2> QED
    BY <1>1, <1>3, <2>1
<1>4. ASSUME NEW b \in DOMAIN branchRefs
      PROVE  Reads(branchRefs[b], blocks') = Reads(branchRefs[b], blocks)
  BY <1>1, <1>2, UntouchedReads
<1>5. SessionTexts' = [SessionTexts EXCEPT ![s] = text]
  BY <1>1, <1>3, TextsRead
<1>6. SessionFirm' = [SessionFirm EXCEPT ![s] = end]
  BY <1>1, TextsRead DEF SessionFirm
<1>7. BranchTexts' = BranchTexts
  BY <1>1, <1>4, TextsRead
<1> QED
  BY <1>5, <1>6, <1>7 DEF SessionShows

LEMMA BranchShown ==
    ASSUME CacheInv, NEW b, b \in BranchIds, NEW new, OnlyBranch(b, new),
           NEW text, text = Reads(new, blocks')
    PROVE  BranchShows(b, text)
<1>1. /\ TypedLists(sessionRefs', branchRefs') /\ sessionRefs' = sessionRefs
      /\ new = IF b \in DOMAIN branchRefs' THEN branchRefs'[b] ELSE <<>>
      /\ \A c \in BranchIds : c # b =>
            /\ c \in DOMAIN branchRefs' <=> c \in DOMAIN branchRefs
            /\ c \in DOMAIN branchRefs => branchRefs'[c] = branchRefs[c]
      /\ \A t \in Owners : Untouched(sessionRefs[t], blocks, blocks')
      /\ \A c \in DOMAIN branchRefs : c # b => Untouched(branchRefs[c], blocks, blocks')
  BY DEF OnlyBranch, BranchBecomes
<1>2. /\ \A t \in Owners : sessionRefs[t] \in Seq(Ref)
      /\ \A c \in DOMAIN branchRefs : branchRefs[c] \in Seq(Ref)
      /\ \A c \in DOMAIN branchRefs' : c \in BranchIds
  BY <1>1 DEF CacheInv, TypedLists
<1>3. ASSUME NEW t \in Owners
      PROVE  Reads(sessionRefs[t], blocks') = Reads(sessionRefs[t], blocks)
  BY <1>1, <1>2, UntouchedReads
<1>4. ASSUME NEW c \in DOMAIN branchRefs, c # b
      PROVE  Reads(branchRefs[c], blocks') = Reads(branchRefs[c], blocks)
  BY <1>1, <1>2, <1>4, UntouchedReads
<1>5. SessionTexts' = SessionTexts
  BY <1>1, <1>3, TextsRead
<1>6. SessionFirm' = SessionFirm
  BY <1>1, TextsRead DEF SessionFirm
<1>7. ASSUME NEW c \in DOMAIN branchRefs'
      PROVE  Reads(branchRefs'[c], blocks') = IF c = b THEN text ELSE BranchTexts[c]
  <2>1. CASE c = b
    BY <1>1, <2>1
  <2>2. CASE c # b
    <3>1. c \in DOMAIN branchRefs /\ branchRefs'[c] = branchRefs[c]
      BY <1>1, <1>2, <2>2
    <3>2. BranchTexts[c] = Reads(branchRefs[c], blocks)
      BY <3>1, TextsRead
    <3> QED
      BY <1>4, <2>2, <3>1, <3>2
  <2> QED
    BY <2>1, <2>2
<1>8. BranchTexts' = [c \in DOMAIN branchRefs' |-> IF c = b THEN text ELSE BranchTexts[c]]
  BY <1>7, TextsRead
<1> QED
  BY <1>5, <1>6, <1>8 DEF BranchShows

-----------------------------------------------------------------------------
(***************************************************************************)
(* What the invariant says of one session or branch                        *)
(***************************************************************************)

LEMMA SessionListOK ==
    ASSUME CacheInv, NEW s, s \in Owners
    PROVE  ListOK(sessionRefs[s], blocks)
<1>1. TypedLists(sessionRefs, branchRefs) /\ PoolOK(blocks)
  BY DEF CacheInv
<1> DEFINE table == TableOf(sessionRefs, branchRefs)
           l == <<"session", s>>
<1>2. table \in [AllLists -> Seq(Ref)] /\ l \in AllLists /\ table[l] = sessionRefs[s]
  BY <1>1, TableFacts
<1>3. Counted(table, blocks) /\ Laid(table, blocks)
  BY DEF CacheInv, Sound
<1> HIDE DEF table, l
<1>4. ListOK(table[l], blocks)
  BY <1>1, <1>2, <1>3, ListFacts
<1> QED
  BY <1>2, <1>4

LEMMA BranchListOK ==
    ASSUME CacheInv, NEW b, b \in DOMAIN branchRefs
    PROVE  ListOK(branchRefs[b], blocks)
<1>1. TypedLists(sessionRefs, branchRefs) /\ PoolOK(blocks) /\ b \in BranchIds
  BY DEF CacheInv, TypedLists
<1> DEFINE table == TableOf(sessionRefs, branchRefs)
           l == <<"branch", b>>
<1>2. table \in [AllLists -> Seq(Ref)] /\ l \in AllLists /\ table[l] = branchRefs[b]
  BY <1>1, TableFacts
<1>3. Counted(table, blocks) /\ Laid(table, blocks)
  BY DEF CacheInv, Sound
<1> HIDE DEF table, l
<1>4. ListOK(table[l], blocks)
  BY <1>1, <1>2, <1>3, ListFacts
<1> QED
  BY <1>2, <1>4

LEMMA ListReads ==
    ASSUME NEW old, NEW pool, ListOK(old, pool)
    PROVE  /\ Readable(old, pool)
           /\ Reads(old, pool) \in Seq(Nat) /\ Len(Reads(old, pool)) = End(old)
<1>1. Readable(old, pool)
  BY DEF ListOK, Readable
<1> QED
  BY <1>1, ReadsAll

LEMMA ReplacedReadable ==
    ASSUME NEW pool, NEW next, NEW old, NEW new, Replaced(pool, next, old, new)
    PROVE  Readable(new, next)
BY DEF Replaced, Readable

-----------------------------------------------------------------------------
(***************************************************************************)
(* The steps of the store                                                  *)
(***************************************************************************)

LEMMA SessionRead ==
    ASSUME CacheInv, NEW s, s \in Owners
    PROVE  /\ SessionTexts[s] = Reads(sessionRefs[s], blocks)
           /\ SessionTexts[s] \in Seq(Nat) /\ Len(SessionTexts[s]) = End(sessionRefs[s])
           /\ SessionFirm[s] = CommittedEnd(sessionRefs[s])
           /\ DOMAIN SessionTexts = Owners /\ DOMAIN SessionFirm = Owners
<1>1. ListOK(sessionRefs[s], blocks)
  BY SessionListOK
<1>2. /\ Reads(sessionRefs[s], blocks) \in Seq(Nat)
      /\ Len(Reads(sessionRefs[s], blocks)) = End(sessionRefs[s])
  BY <1>1, ListReads
<1>3. SessionTexts[s] = Reads(sessionRefs[s], blocks) /\ DOMAIN SessionTexts = Owners
  BY TextsRead
<1>4. SessionFirm[s] = CommittedEnd(sessionRefs[s]) /\ DOMAIN SessionFirm = Owners
  BY DEF SessionFirm
<1> QED
  BY <1>2, <1>3, <1>4

LEMMA SameFirm ==
    ASSUME CacheInv, NEW s, s \in Owners
    PROVE  [SessionFirm EXCEPT ![s] = CommittedEnd(sessionRefs[s])] = SessionFirm
BY DEF SessionFirm

LEMMA ShowsAppend ==
    ASSUME CacheInv, NEW s, s \in Owners, NEW ts, ts \in Inputs, SessionFits(s, ts),
           NEW text, text = Reads(sessionRefs[s], blocks) \o ts,
           SessionShows(s, text, CommittedEnd(sessionRefs[s]))
    PROVE  Store!AppendTo(s, ts)
<1>1. SessionTexts[s] = Reads(sessionRefs[s], blocks) /\ Len(SessionTexts[s]) = End(sessionRefs[s])
  BY SessionRead
<1>2. Len(SessionTexts[s]) + Len(ts) <= MaxTokens
  BY <1>1 DEF SessionFits
<1>3. SessionTexts' = [SessionTexts EXCEPT ![s] = SessionTexts[s] \o ts]
  BY <1>1 DEF SessionShows
<1>4. SessionFirm' = SessionFirm /\ BranchTexts' = BranchTexts
  BY SameFirm DEF SessionShows
<1> QED
  BY <1>2, <1>3, <1>4 DEF Store!AppendTo, SessionTexts, SessionFirm, BranchTexts

LEMMA ShowsCut ==
    ASSUME CacheInv, NEW s, s \in Owners, NEW from, from \in Nat, Rollback(s, from),
           NEW text, text = SubSeq(Reads(sessionRefs[s], blocks), 1, from),
           SessionShows(s, text, CommittedEnd(sessionRefs[s]))
    PROVE  Store!CutBack(s, from)
<1>1. /\ SessionTexts[s] = Reads(sessionRefs[s], blocks) /\ Len(SessionTexts[s]) = End(sessionRefs[s])
      /\ SessionFirm[s] = CommittedEnd(sessionRefs[s])
  BY SessionRead
<1>2. from >= SessionFirm[s] /\ from < Len(SessionTexts[s])
  BY <1>1 DEF Rollback
<1>3. SessionTexts' = [SessionTexts EXCEPT ![s] = SubSeq(SessionTexts[s], 1, from)]
  BY <1>1 DEF SessionShows
<1>4. SessionFirm' = SessionFirm /\ BranchTexts' = BranchTexts
  BY SameFirm DEF SessionShows
<1> QED
  BY <1>2, <1>3, <1>4 DEF Store!CutBack, SessionTexts, SessionFirm, BranchTexts

LEMMA ShowsCommit ==
    ASSUME CacheInv, NEW s, s \in Owners,
           NEW text, text = Reads(sessionRefs[s], blocks), NEW end, end = End(sessionRefs[s]),
           SessionShows(s, text, end)
    PROVE  Store!CommitAll(s)
<1>1. /\ SessionTexts[s] = text /\ Len(SessionTexts[s]) = end
      /\ DOMAIN SessionTexts = Owners
  BY SessionRead
<1>2. SessionTexts' = SessionTexts
  <2>1. [SessionTexts EXCEPT ![s] = text] = SessionTexts
    BY <1>1 DEF SessionTexts
  <2> QED
    BY <2>1 DEF SessionShows
<1>3. SessionFirm' = [SessionFirm EXCEPT ![s] = Len(SessionTexts[s])] /\ BranchTexts' = BranchTexts
  BY <1>1 DEF SessionShows
<1> QED
  BY <1>2, <1>3 DEF Store!CommitAll, SessionTexts, SessionFirm, BranchTexts

LEMMA BranchRead ==
    ASSUME CacheInv, NEW b, b \in DOMAIN branchRefs
    PROVE  /\ BranchTexts[b] = Reads(branchRefs[b], blocks)
           /\ Len(BranchTexts[b]) = End(branchRefs[b])
<1>1. ListOK(branchRefs[b], blocks)
  BY BranchListOK
<1>2. Len(Reads(branchRefs[b], blocks)) = End(branchRefs[b])
  BY <1>1, ListReads
<1>3. BranchTexts[b] = Reads(branchRefs[b], blocks)
  BY TextsRead
<1> QED
  BY <1>2, <1>3

LEMMA ShowsContinue ==
    ASSUME CacheInv, NEW b, b \in DOMAIN branchRefs, NEW ts, ts \in Inputs, AppendBranch(b, ts),
           DOMAIN branchRefs' = DOMAIN branchRefs,
           NEW text, text = Reads(branchRefs[b], blocks) \o ts, BranchShows(b, text)
    PROVE  Store!Continue(b, ts)
<1>1. BranchTexts[b] = Reads(branchRefs[b], blocks) /\ Len(BranchTexts[b]) = End(branchRefs[b])
  BY BranchRead
<1>2. DOMAIN BranchTexts = DOMAIN branchRefs /\ b \in DOMAIN BranchTexts
  BY DEF BranchTexts
<1>3. Len(BranchTexts[b]) + Len(ts) <= MaxTokens
  BY <1>1 DEF AppendBranch
<1>4. BranchTexts' = [BranchTexts EXCEPT ![b] = BranchTexts[b] \o ts]
  <2>1. BranchTexts' = [c \in DOMAIN branchRefs |-> IF c = b THEN text ELSE BranchTexts[c]]
    BY DEF BranchShows
  <2>2. BranchTexts = [c \in DOMAIN branchRefs |-> BranchTexts[c]]
    BY DEF BranchTexts
  <2> QED
    BY <1>1, <1>2, <2>1, <2>2
<1>5. SessionTexts' = SessionTexts /\ SessionFirm' = SessionFirm
  BY DEF BranchShows
<1> QED
  BY <1>2, <1>3, <1>4, <1>5 DEF Store!Continue, SessionTexts, SessionFirm, BranchTexts

LEMMA ShowsReturn ==
    ASSUME NEW b, b \in DOMAIN branchRefs, DOMAIN branchRefs' = DOMAIN branchRefs \ {b},
           NEW text, BranchShows(b, text)
    PROVE  Store!Return(b)
<1>1. DOMAIN BranchTexts = DOMAIN branchRefs
  BY DEF BranchTexts
<1>2. BranchTexts' = [c \in DOMAIN BranchTexts \ {b} |-> BranchTexts[c]]
  <2>1. BranchTexts' = [c \in DOMAIN branchRefs \ {b} |-> IF c = b THEN text ELSE BranchTexts[c]]
    BY DEF BranchShows
  <2> QED
    BY <1>1, <2>1
<1>3. SessionTexts' = SessionTexts /\ SessionFirm' = SessionFirm
  BY DEF BranchShows
<1> QED
  BY <1>1, <1>2, <1>3 DEF Store!Return, SessionTexts, SessionFirm, BranchTexts

LEMMA ShowsCopy ==
    ASSUME CacheInv, NEW b, b \notin DOMAIN branchRefs, NEW s, s \in Owners,
           NEW tail, tail \in BOOLEAN, DOMAIN branchRefs' = DOMAIN branchRefs \cup {b},
           NEW text, text = IF tail THEN Reads(sessionRefs[s], blocks)
                            ELSE SubSeq(Reads(sessionRefs[s], blocks), 1, CommittedEnd(sessionRefs[s])),
           BranchShows(b, text)
    PROVE  Store!Copy(b, s, tail)
<1>1. SessionTexts[s] = Reads(sessionRefs[s], blocks) /\ SessionFirm[s] = CommittedEnd(sessionRefs[s])
  BY SessionRead
<1>2. DOMAIN BranchTexts = DOMAIN branchRefs
  BY DEF BranchTexts
<1>3. BranchTexts' = [c \in DOMAIN BranchTexts \cup {b} |->
                         IF c # b THEN BranchTexts[c]
                         ELSE IF tail THEN SessionTexts[s]
                         ELSE SubSeq(SessionTexts[s], 1, SessionFirm[s])]
  <2>1. BranchTexts' = [c \in DOMAIN branchRefs \cup {b} |-> IF c = b THEN text ELSE BranchTexts[c]]
    BY DEF BranchShows
  <2>2. text = IF tail THEN SessionTexts[s] ELSE SubSeq(SessionTexts[s], 1, SessionFirm[s])
    BY <1>1
  <2> QED
    BY <1>2, <2>1, <2>2
<1>4. SessionTexts' = SessionTexts /\ SessionFirm' = SessionFirm
  BY DEF BranchShows
<1> QED
  BY <1>2, <1>3, <1>4 DEF Store!Copy, SessionTexts, SessionFirm, BranchTexts

-----------------------------------------------------------------------------
(***************************************************************************)
(* The append actions                                                      *)
(***************************************************************************)

LEMMA FreshIdsAreFresh ==
    ASSUME PoolOK(blocks), NEW n, n \in Nat, Available(n)
    PROVE  FreshFor(FreshIds(n), blocks) /\ Len(FreshIds(n)) = n
<1>1. DOMAIN blocks \subseteq BlockIds
  BY DEF PoolOK
<1>2. /\ FreshIds(n) \in Seq(BlockIds) /\ Len(FreshIds(n)) = n
      /\ \A k \in 1 .. n : FreshIds(n)[k] \in BlockIds /\ FreshIds(n)[k] \notin DOMAIN blocks
      /\ \A j, k \in 1 .. n : FreshIds(n)[j] = FreshIds(n)[k] => j = k
  BY <1>1, FreshIdsProperties
<1> QED
  BY <1>2 DEF FreshFor

LEMMA InputsAreSequences ==
    ASSUME NEW ts, ts \in Inputs
    PROVE  ts \in Seq(Nat) /\ Len(ts) > 0
<1>1. ts \in Seq(Nat) /\ ts # <<>>
  BY CacheAssumption
<1> QED
  BY <1>1, EmptySeq

\* The last block takes the first tokens of ts.
Topped(old, ts, take, last, filled) ==
    /\ Len(old) > 0 /\ last = old[Len(old)] /\ last \in Ref /\ last.block \in DOMAIN blocks
    /\ take \in 0 .. Len(ts) /\ Rest(ts, take) \in Seq(Nat)
    /\ filled = TokensOf(last) \o SubSeq(ts, 1, take)
    /\ filled \in Seq(Nat) /\ Len(filled) \in 1 .. BlockSize
    /\ last.end + take = last.start + Len(filled)

LEMMA RoomTopped ==
    ASSUME NEW old, ListOK(old, blocks), Room(old) > 0, NEW ts, ts \in Seq(Nat), Len(ts) > 0,
           NEW take, take = Fits(old, ts), NEW last, last = Last(old),
           NEW filled, filled = TokensOf(last) \o SubSeq(ts, 1, take)
    PROVE  Topped(old, ts, take, last, filled)
<1>1. old \in Seq(Ref) /\ PoolOK(blocks) /\ Tiled(old, blocks) /\ Len(old) \in Nat
  BY DEF ListOK
<1>2. old # <<>>
  BY DEF Room
<1>3. Len(old) > 0 /\ Len(old) \in 1 .. Len(old) /\ last = old[Len(old)]
  BY <1>1, <1>2, EmptySeq DEF Last
<1>4. last \in Ref
  BY <1>1, <1>3
<1>5. last.block \in DOMAIN blocks /\ last.end = last.start + Len(TokensOf(last))
  BY <1>1, <1>3 DEF Tiled, TokensOf
<1>6. TokensOf(last) \in Seq(Nat) /\ Len(TokensOf(last)) \in 1 .. BlockSize
  BY <1>1, <1>5 DEF PoolOK, Block, TokensOf
<1> DEFINE held == TokensOf(last)
           n == Len(held)
<1>7. Room(old) = BlockSize - n /\ BlockSize \in Nat /\ n \in Nat
  BY <1>2, <1>6, CacheAssumption DEF Room
<1>8. take \in 1 .. Len(ts) /\ n + take <= BlockSize /\ Len(ts) \in Nat
  <2>1. take = IF Len(ts) <= Room(old) THEN Len(ts) ELSE Room(old)
    BY DEF Fits
  <2> HIDE DEF n
  <2> QED
    BY <1>7, <2>1
<1>9. SubSeq(ts, 1, take) \in Seq(Nat) /\ Len(SubSeq(ts, 1, take)) = take
  BY <1>8
<1>10. Rest(ts, take) \in Seq(Nat)
  BY <1>8 DEF Rest
<1> DEFINE head == SubSeq(ts, 1, take)
<1>11. filled = held \o head
  OBVIOUS
<1> HIDE DEF held, head
<1>12. filled \in Seq(Nat) /\ Len(filled) = Len(held) + Len(head)
  <2>1. held \in Seq(Nat) /\ head \in Seq(Nat)
    BY <1>6, <1>9 DEF held, head
  <2>2. held \o head \in Seq(Nat) /\ Len(held \o head) = Len(held) + Len(head)
    BY <2>1, ConcatProperties
  <2> QED
    BY <1>11, <2>2, Zenon
<1>13. Len(filled) = n + take
  BY <1>9, <1>12 DEF head
<1>14. last.end + take = last.start + Len(filled)
  <2>1. last.end = last.start + n /\ last.start \in Nat
    BY <1>4, <1>5, RefFields DEF held
  <2> HIDE DEF n
  <2> QED
    BY <1>7, <1>8, <1>13, <2>1
<1>15. Len(filled) \in 1 .. BlockSize
  <2> HIDE DEF n
  <2> QED
    BY <1>7, <1>8, <1>13
<1>16. take \in 0 .. Len(ts)
  BY <1>8
<1>17. Len(old) > 0 /\ last = old[Len(old)] /\ last.block \in DOMAIN blocks /\ filled \in Seq(Nat)
  BY <1>3, <1>5, <1>12
<1>18. filled = TokensOf(last) \o SubSeq(ts, 1, take)
  OBVIOUS
<1> QED
  BY <1>4, <1>10, <1>14, <1>15, <1>16, <1>17, <1>18, Zenon DEF Topped

LEMMA LastReplaced ==
    ASSUME NEW old, old \in Seq(Ref), Len(old) > 0, NEW r
    PROVE  /\ WithLast(old, r) = Ending(old, Len(old) - 1, r)
           /\ After(old, Len(old) - 1) = <<old[Len(old)]>>
<1>1. Len(old) \in Nat /\ Len(old) - (Len(old) - 1) = 1 /\ Len(old) - 1 + 1 = Len(old)
  OBVIOUS
<1>2. WithLast(old, r) = Ending(old, Len(old) - 1, r)
  BY DEF WithLast, Ending, Front
<1>3. After(old, Len(old) - 1) = [n \in 1 .. 1 |-> old[Len(old) - 1 + n]]
  BY <1>1 DEF After
<1>4. [n \in 1 .. 1 |-> old[Len(old) - 1 + n]] = <<old[Len(old)]>>
  BY <1>1
<1> QED
  BY <1>2, <1>3, <1>4

LEMMA NewBlocksAdded ==
    ASSUME NEW old, ListOK(old, blocks), NEW ts, ts \in Seq(Nat),
           NEW chunks, chunks = Chunks(ts), Available(Len(chunks)),
           NEW ids, ids = FreshIds(Len(chunks)),
           NEW valid, valid \in Validity, NEW owner, owner \in Ownership
    PROVE  LET new == Joined(old, NewRefs(End(old), ids, chunks, valid, owner)) IN
           /\ Replaced(blocks, Allocate(blocks, ids, chunks), old, new)
           /\ Validates(old, new, Len(old), valid)
           /\ Carries(old, blocks, new, Allocate(blocks, ids, chunks), Len(old), chunks)
<1>1. Cut(chunks) /\ Len(chunks) \in Nat
  BY ChunksAreCut
<1>2. PoolOK(blocks)
  BY DEF ListOK
<1>3. FreshFor(ids, blocks) /\ Len(chunks) = Len(ids)
  BY <1>1, <1>2, FreshIdsAreFresh
<1> QED
  BY <1>1, <1>3, AddsBlocks

\* The last block of the list is filled up; the rest of the tokens go to new ones.
TopsUpLast(old, ts, take, last, filled, chunks, more) ==
    /\ Topped(old, ts, take, last, filled)
    /\ chunks = Chunks(Rest(ts, take)) /\ more = <<filled>> \o chunks

\* The last block of the list, counted once, is filled up in place.
FillsLast(old, ts, take, last, filled, chunks, ids, r, more) ==
    /\ TopsUpLast(old, ts, take, last, filled, chunks, more)
    /\ blocks[last.block].count = 1 /\ Available(Len(chunks))
    /\ ids = FreshIds(Len(chunks))
    /\ r \in Ref /\ r.start = last.start /\ r.end = last.end + take
    /\ r.block = last.block /\ r.owner = last.owner /\ r.valid = last.valid

LEMMA FillsInPlace ==
    ASSUME NEW old, NEW ts, NEW take, NEW last, NEW filled, NEW chunks, NEW ids, NEW r, NEW more,
           TopsUpLast(old, ts, take, last, filled, chunks, more),
           r = [last EXCEPT !.end = @ + take], blocks[last.block].count = 1,
           Available(Len(chunks)), ids = FreshIds(Len(chunks))
    PROVE  FillsLast(old, ts, take, last, filled, chunks, ids, r, more)
<1> DEFINE e == last.end + take
<1>1. last \in Ref /\ take \in Nat
  BY DEF TopsUpLast, Topped
<1>2. last.end \in Nat
  BY <1>1, RefFields
<1>3. e \in Nat /\ r = [last EXCEPT !.end = e]
  BY <1>1, <1>2
<1> HIDE DEF e
<1>4. /\ r \in Ref /\ r.start = last.start /\ r.end = e
      /\ r.block = last.block /\ r.owner = last.owner /\ r.valid = last.valid
  BY <1>1, <1>3 DEF Ref
<1> QED
  BY <1>4 DEF FillsLast, e

LEMMA LastFilled ==
    ASSUME NEW old, ListOK(old, blocks), NEW ts, NEW take, NEW last, NEW filled,
           NEW chunks, NEW ids, NEW r, NEW more,
           FillsLast(old, ts, take, last, filled, chunks, ids, r, more),
           NEW valid, valid \in Validity, NEW owner, owner \in Ownership,
           NEW base, base = WithLast(old, r),
           NEW added, added = NewRefs(last.end + take, ids, chunks, valid, owner),
           NEW m, m = Len(old) - 1,
           NEW next, next = Allocate(Rewrite(blocks, last.block, filled), ids, chunks)
    PROVE  /\ Replaced(blocks, next, old, Joined(base, added))
           /\ Validates(old, Joined(base, added), Len(old), valid)
           /\ Carries(old, blocks, Joined(base, added), next, m, more)
<1> DEFINE w == last.block
<1>0. /\ Topped(old, ts, take, last, filled)
      /\ chunks = Chunks(Rest(ts, take)) /\ more = <<filled>> \o chunks
      /\ blocks[last.block].count = 1 /\ Available(Len(chunks))
      /\ ids = FreshIds(Len(chunks))
  BY DEF FillsLast, TopsUpLast
<1>1. /\ Len(old) > 0 /\ last = old[Len(old)] /\ last \in Ref /\ w \in DOMAIN blocks
      /\ take \in Nat /\ Rest(ts, take) \in Seq(Nat)
      /\ filled \in Seq(Nat) /\ Len(filled) \in 1 .. BlockSize
      /\ last.end + take = last.start + Len(filled)
  BY <1>0 DEF Topped
<1>2. old \in Seq(Ref) /\ PoolOK(blocks) /\ Len(old) \in Nat
  BY DEF ListOK
<1>3. /\ r \in Ref /\ r.start = last.start /\ r.end = last.end + take
      /\ r.block = last.block /\ r.owner = last.owner /\ r.valid = last.valid
  BY DEF FillsLast
<1>4. m \in 0 .. Len(old) - 1 /\ old[m + 1] = last
  BY <1>1, <1>2
<1>5. Rewrites(old, blocks, m, w, filled, r)
  BY <1>0, <1>1, <1>3, <1>4 DEF Rewrites
<1>6. base = Ending(old, m, r)
  BY <1>1, <1>2, LastReplaced
<1> DEFINE mid == Rewrite(blocks, w, filled)
<1>7. End(base) = last.end + take
  <2>1. Rewritten(old, blocks, mid, m, r, base)
    BY <1>5, <1>6, RewrittenTiled
  <2> QED
    BY <1>3, <2>1 DEF Rewritten, Ended
<1>8. Cut(chunks) /\ Len(chunks) \in Nat
  BY <1>0, <1>1, ChunksAreCut
<1>9. FreshFor(ids, blocks) /\ Len(chunks) = Len(ids)
  BY <1>0, <1>2, <1>8, FreshIdsAreFresh
<1>10. m = Len(old) - 1 /\ mid = Rewrite(blocks, w, filled) /\ next = Allocate(mid, ids, chunks)
       /\ added = NewRefs(End(base), ids, chunks, valid, owner)
  BY <1>7
<1> HIDE DEF mid
<1>11. /\ Replaced(blocks, next, old, Joined(base, added))
       /\ Validates(old, Joined(base, added), Len(old), valid)
       /\ Carries(old, blocks, Joined(base, added), next, m, more)
  <2>1. InPlace(old, blocks, m, w, filled, r, ids, chunks)
    BY <1>5, <1>8, <1>9, <1>10 DEF InPlace
  <2>2. Prepended(filled, chunks, more)
    BY <1>0, <1>1, <1>8, PrependIs DEF Cut
  <2>3. /\ Grown(blocks, next, old, Joined(base, added), Len(old), valid)
        /\ Carries(old, blocks, Joined(base, added), next, m, more)
    BY <1>6, <1>10, <2>1, <2>2, GrowsInPlace
  <2> QED
    BY <2>3 DEF Grown
<1> QED
  BY <1>11

\* The last block of the list is replaced by r, to a filled up copy; the rest of
\* the tokens go to new blocks.
CopiesLast(old, ts, take, last, filled, chunks, ids, r, filling) ==
    /\ TopsUpLast(old, ts, take, last, filled, chunks, filling)
    /\ Available(Len(chunks) + 1) /\ ids = FreshIds(Len(chunks) + 1)
    /\ r \in Ref /\ r.start = last.start /\ r.end = last.end + take
    /\ r.block = ids[1] /\ r.valid = last.valid

LEMMA LastCopied ==
    ASSUME NEW old, ListOK(old, blocks), NEW ts, NEW take, NEW last, NEW filled,
           NEW chunks, NEW ids, NEW r, NEW filling,
           CopiesLast(old, ts, take, last, filled, chunks, ids, r, filling),
           NEW valid, valid \in Validity, NEW owner, owner \in Ownership,
           NEW base, base = WithLast(old, r),
           NEW added, added = NewRefs(last.end + take, Tail(ids), chunks, valid, owner),
           NEW m, m = Len(old) - 1,
           NEW next, next = Decref(Allocate(blocks, ids, filling), <<last>>)
    PROVE  /\ Replaced(blocks, next, old, Joined(base, added))
           /\ Validates(old, Joined(base, added), Len(old), valid)
           /\ Carries(old, blocks, Joined(base, added), next, m, filling)
<1>0. /\ Topped(old, ts, take, last, filled)
      /\ chunks = Chunks(Rest(ts, take)) /\ Available(Len(chunks) + 1)
      /\ ids = FreshIds(Len(chunks) + 1)
      /\ r \in Ref /\ r.start = last.start /\ r.end = last.end + take
      /\ r.block = ids[1] /\ r.valid = last.valid
      /\ filling = <<filled>> \o chunks
  BY DEF CopiesLast, TopsUpLast
<1>1. /\ Len(old) > 0 /\ last = old[Len(old)] /\ last \in Ref
      /\ take \in Nat /\ Rest(ts, take) \in Seq(Nat)
      /\ filled \in Seq(Nat) /\ Len(filled) \in 1 .. BlockSize
      /\ last.end + take = last.start + Len(filled)
  BY <1>0 DEF Topped
<1>2. old \in Seq(Ref) /\ PoolOK(blocks) /\ Len(old) \in Nat
  BY DEF ListOK
<1>3. m \in 0 .. Len(old) - 1 /\ old[m + 1] = last /\ m + 1 = Len(old)
  BY <1>1, <1>2
<1>4. Copies(old, m, ids[1], filled, r)
  BY <1>0, <1>1, <1>3 DEF Copies
<1>5. Cut(chunks) /\ Len(chunks) \in Nat /\ Len(chunks) + 1 \in Nat /\ chunks \in Seq(Seq(Nat))
  <2>1. Cut(chunks) /\ Len(chunks) \in Nat
    BY <1>0, <1>1, ChunksAreCut
  <2>2. Len(chunks) + 1 \in Nat
    BY <2>1
  <2>3. chunks \in Seq(Seq(Nat))
    BY <2>1, Zenon DEF Cut
  <2> QED
    BY <2>1, <2>2, <2>3
<1>6. FreshFor(ids, blocks) /\ Len(ids) = Len(chunks) + 1 /\ ids \in Seq(BlockIds)
  <2>1. FreshFor(ids, blocks) /\ Len(ids) = Len(chunks) + 1
    BY <1>0, <1>2, <1>5, FreshIdsAreFresh
  <2> QED
    BY <2>1 DEF FreshFor
<1>7. Stored(ids, filling, filled, chunks)
  <2>1. Prepended(filled, chunks, filling)
    BY <1>0, <1>1, <1>5, PrependIs
  <2> QED
    BY <1>5, <1>6, <2>1 DEF Stored
<1>8. base = Ending(old, m, r) /\ After(old, m) = <<last>>
  BY <1>1, <1>2, LastReplaced
<1> DEFINE mid == Allocate(blocks, ids, filling)
<1>9. End(base) = last.end + take
  <2>1. Copied(old, blocks, mid, ids, filling, m, r, base)
    BY <1>4, <1>6, <1>7, <1>8, CopiedTiled
  <2> QED
    BY <1>0, <2>1 DEF Copied, Ended
<1> DEFINE others == Tail(ids)
<1>10. /\ others \in Seq(BlockIds) /\ Len(others) = Len(chunks)
       /\ \A k \in 1 .. Len(chunks) : others[k] = ids[k + 1]
  BY <1>5, <1>6
<1>11. /\ mid = Allocate(blocks, ids, filling) /\ next = Decref(mid, After(old, m))
       /\ added = NewRefs(End(base), others, chunks, valid, owner)
  BY <1>8, <1>9
<1> HIDE DEF mid, others
<1>12. /\ Replaced(blocks, next, old, Joined(base, added))
       /\ Validates(old, Joined(base, added), m + 1, valid)
       /\ Carries(old, blocks, Joined(base, added), next, m, filling)
  <2>1. ByCopy(old, blocks, m, r, filled, ids, others, filling, chunks)
    BY <1>4, <1>6, <1>7, <1>10 DEF ByCopy
  <2>2. /\ Grown(blocks, next, old, Joined(base, added), m + 1, valid)
        /\ Carries(old, blocks, Joined(base, added), next, m, filling)
    BY <1>8, <1>11, <2>1, GrowsByCopy
  <2> QED
    BY <2>2 DEF Grown
<1> QED
  BY <1>3, <1>12

LEMMA FirstCopyId ==
    ASSUME NEW old, ListOK(old, blocks), NEW ts, NEW take, NEW last, NEW filled,
           Topped(old, ts, take, last, filled),
           NEW chunks, chunks = Chunks(Rest(ts, take)), Available(Len(chunks) + 1),
           NEW ids, ids = FreshIds(Len(chunks) + 1)
    PROVE  ids[1] \in BlockIds
<1>1. Len(chunks) \in Nat
  BY ChunksAreCut DEF Topped
<1>2. Len(chunks) + 1 \in Nat /\ PoolOK(blocks)
  BY <1>1 DEF ListOK
<1>3. ids \in Seq(BlockIds) /\ Len(ids) = Len(chunks) + 1
  BY <1>2, FreshIdsAreFresh DEF FreshFor
<1>4. 1 \in 1 .. Len(ids)
  BY <1>1, <1>3
<1> QED
  BY <1>3, <1>4

\* What an operation that leaves the committed references alone owes session s.
Retexts(s, new, n, m, more) ==
    /\ Replaced(blocks, blocks', sessionRefs[s], new)
    /\ Validates(sessionRefs[s], new, n, "tentative")
    /\ Carries(sessionRefs[s], blocks, new, blocks', m, more) /\ m <= n
    /\ \A k \in m + 1 .. Len(sessionRefs[s]) : sessionRefs[s][k].valid # "committed"

LEMMA TentativeStep ==
    ASSUME CacheInv, NEW s, s \in Owners, NEW new, NEW n, NEW m, NEW more,
           Retexts(s, new, n, m, more), SessionBecomes(s, new),
           NEW text, text = Reads(new, blocks')
    PROVE  CacheInv' /\ SessionShows(s, text, CommittedEnd(sessionRefs[s]))
<1>1. /\ sessionRefs[s] \in Seq(Ref) /\ new \in Seq(Ref) /\ FirmFirst(sessionRefs[s])
      /\ Replaced(blocks, blocks', sessionRefs[s], new)
      /\ Validates(sessionRefs[s], new, n, "tentative")
  BY DEF CacheInv, TypedLists, Replaced, Retexts
<1>2. FirmFirst(new)
  BY <1>1, FirmStaysFirst
<1>3. CacheInv' /\ OnlySession(s, new)
  BY <1>1, <1>2, SessionStep
<1>4. CommittedEnd(new) = CommittedEnd(sessionRefs[s])
  <2> DEFINE old == sessionRefs[s]
  <2>1. Readable(old, blocks) /\ Readable(new, blocks')
    BY <1>1, SessionListOK, ListReads, ReplacedReadable
  <2>2. /\ Carries(old, blocks, new, blocks', m, more) /\ m <= n
        /\ \A k \in m + 1 .. Len(old) : old[k].valid # "committed"
        /\ FirmFirst(old) /\ Validates(old, new, n, "tentative")
    BY <1>1 DEF Retexts
  <2> HIDE DEF old
  <2>3. CommittedEnd(new) = CommittedEnd(old)
    BY <2>1, <2>2, FirmKept
  <2> QED
    BY <2>3 DEF old
<1> DEFINE end == CommittedEnd(new)
<1>5. SessionShows(s, text, end)
  <2>1. end = CommittedEnd(new)
    OBVIOUS
  <2> HIDE DEF end
  <2> QED
    BY <1>3, <2>1, SessionShown
<1> QED
  BY <1>3, <1>4, <1>5

\* The last block filled up, and the blocks behind it, hold the tokens appended.
LEMMA ReadsTopped ==
    ASSUME NEW old, ListOK(old, blocks), NEW ts, ts \in Seq(Nat),
           NEW take, NEW last, NEW filled, NEW chunks, NEW more,
           TopsUpLast(old, ts, take, last, filled, chunks, more), NEW new, NEW next, Readable(new, next), NEW m, m = Len(old) - 1,
           Carries(old, blocks, new, next, m, more)
    PROVE  Reads(new, next) = Reads(old, blocks) \o ts
<1> DEFINE head == SubSeq(ts, 1, take)
           rest == Rest(ts, take)
<1>1. /\ Len(old) > 0 /\ last = old[Len(old)] /\ take \in 0 .. Len(ts) /\ rest \in Seq(Nat)
      /\ filled = TokensOf(last) \o head /\ more = <<filled>> \o Chunks(rest)
  BY DEF Topped, TopsUpLast
<1>2. Readable(old, blocks)
  BY ListReads
<1>3. head \in Seq(Nat) /\ head \o rest = ts
  <2>1. take \in Nat /\ Len(ts) \in Nat /\ take <= Len(ts)
    BY <1>1
  <2>2. head \in Seq(Nat)
    BY <2>1, SubSeqProperties
  <2> DEFINE one == 1
             size == Len(ts)
  <2>3. SubSeq(ts, one, take) \o SubSeq(ts, take + 1, size) = SubSeq(ts, one, size)
    <3>1. one \in 1 .. Len(ts) + 1 /\ take \in one - 1 .. Len(ts) /\ size \in take .. Len(ts)
      BY <2>1
    <3> HIDE DEF one, size
    <3> QED
      BY <3>1, ConcatAdjacentSubSeq
  <2>4. SubSeq(ts, 1, Len(ts)) = ts
    BY SubSeqFull
  <2> QED
    BY <2>2, <2>3, <2>4 DEF Rest
<1>4. filled = blocks[old[Len(old)].block].tokens \o head
  BY <1>1 DEF TokensOf
<1> HIDE DEF head, rest
<1>5. FillsUp(old, blocks, ts, head, rest, m, filled, more)
  BY <1>1, <1>3, <1>4 DEF FillsUp
<1> QED
  BY <1>2, <1>5, ReadsFilled

LEMMA LastIsTentative ==
    ASSUME NEW s, TopsUp(s), ListOK(sessionRefs[s], blocks),
           NEW m, m = Len(sessionRefs[s]) - 1
    PROVE  /\ m <= Len(sessionRefs[s])
           /\ \A k \in m + 1 .. Len(sessionRefs[s]) : sessionRefs[s][k].valid # "committed"
<1> DEFINE old == sessionRefs[s]
<1>1. old \in Seq(Ref) /\ Len(old) \in Nat
  BY DEF ListOK
<1>2. Last(old) = old[Len(old)]
  BY DEF Last
<1>3. old[Len(old)].valid # "committed"
  BY <1>2 DEF TopsUp
<1>4. \A k \in m + 1 .. Len(old) : k = Len(old)
  BY <1>1
<1>5. m <= Len(old)
  BY <1>1
<1> QED
  BY <1>3, <1>4, <1>5

LEMMA AppendNewBlocksImplements ==
    ASSUME CacheInv, NEW s, s \in Owners, NEW ts, ts \in Inputs, AppendNewBlocks(s, ts)
    PROVE  CacheInv' /\ Store!AppendTo(s, ts)
<1> DEFINE old == sessionRefs[s]
           chunks == Chunks(ts)
           ids == FreshIds(Len(chunks))
           new == Joined(old, NewRefs(End(old), ids, chunks, "tentative", "spine"))
<1>1. ListOK(old, blocks) /\ ts \in Seq(Nat)
  BY SessionListOK, InputsAreSequences
<1>2. /\ Available(Len(chunks))
      /\ blocks' = Allocate(blocks, ids, chunks)
      /\ SessionBecomes(s, new)
  BY DEF AppendNewBlocks, SessionBecomes, Joined
<1>3. "tentative" \in Validity /\ "spine" \in Ownership
  BY DEF Validity, Ownership
<1>4. /\ Replaced(blocks, blocks', old, new) /\ Validates(old, new, Len(old), "tentative")
      /\ Carries(old, blocks, new, blocks', Len(old), chunks)
  BY <1>1, <1>2, <1>3, NewBlocksAdded
<1> HIDE DEF new
<1>5. Retexts(s, new, Len(old), Len(old), chunks)
  <2>1. Len(old) <= Len(old) /\ Len(old) + 1 .. Len(old) = {}
    BY <1>1 DEF ListOK
  <2> QED
    BY <1>4, <2>1 DEF Retexts
<1>6. Reads(new, blocks') = Reads(old, blocks) \o ts
  BY <1>1, <1>4, ListReads, ReplacedReadable, ReadsAppended
<1> DEFINE text == Reads(new, blocks')
<1>7. CacheInv' /\ SessionShows(s, text, CommittedEnd(old))
  BY <1>2, <1>5, TentativeStep
<1> HIDE DEF text
<1>8. Store!AppendTo(s, ts)
  <2>1. text = Reads(sessionRefs[s], blocks) \o ts
    BY <1>6 DEF text
  <2>2. SessionFits(s, ts)
    BY DEF AppendNewBlocks
  <2> QED
    BY <1>7, <2>1, <2>2, ShowsAppend
<1> QED
  BY <1>7, <1>8

LEMMA AppendInPlaceImplements ==
    ASSUME CacheInv, NEW s, s \in Owners, NEW ts, ts \in Inputs, AppendInPlace(s, ts)
    PROVE  CacheInv' /\ Store!AppendTo(s, ts)
<1> DEFINE old == sessionRefs[s]
           last == Last(old)
           take == Fits(old, ts)
           filled == TokensOf(last) \o SubSeq(ts, 1, take)
           chunks == Chunks(Rest(ts, take))
           ids == FreshIds(Len(chunks))
           r == [last EXCEPT !.end = @ + take]
           added == NewRefs(last.end + take, ids, chunks, "tentative", "spine")
           base == WithLast(old, r)
           more == <<filled>> \o chunks
           new == Joined(base, added)
           m == Len(old) - 1
<1>1. ListOK(old, blocks) /\ ts \in Seq(Nat) /\ Len(ts) > 0
  BY SessionListOK, InputsAreSequences
<1>2. /\ Available(Len(chunks)) /\ Room(old) > 0 /\ blocks[last.block].count = 1
      /\ blocks' = Allocate(Rewrite(blocks, last.block, filled), ids, chunks)
      /\ SessionBecomes(s, new)
  BY DEF AppendInPlace, TopsUp, SessionBecomes, Joined
<1>3. "tentative" \in Validity /\ "spine" \in Ownership
  BY DEF Validity, Ownership
<1>4. Topped(old, ts, take, last, filled)
  BY <1>1, <1>2, RoomTopped
<1>5. /\ r = [last EXCEPT !.end = @ + take] /\ chunks = Chunks(Rest(ts, take))
      /\ ids = FreshIds(Len(chunks)) /\ base = WithLast(old, r)
      /\ added = NewRefs(last.end + take, ids, chunks, "tentative", "spine")
      /\ new = Joined(base, added) /\ more = <<filled>> \o chunks /\ m = Len(old) - 1
  OBVIOUS
<1> HIDE DEF old, last, take, filled, chunks, ids, r, added, base, more, new, m
<1>6. FillsLast(old, ts, take, last, filled, chunks, ids, r, more) /\ m = Len(old) - 1
  <2>1. TopsUpLast(old, ts, take, last, filled, chunks, more)
    BY <1>4, <1>5 DEF TopsUpLast
  <2>2. FillsLast(old, ts, take, last, filled, chunks, ids, r, more)
    BY <1>2, <1>5, <2>1, FillsInPlace
  <2> QED
    BY <1>5, <2>2
<1>7. /\ Replaced(blocks, blocks', old, new) /\ Validates(old, new, Len(old), "tentative")
      /\ Carries(old, blocks, new, blocks', m, more)
  BY <1>1, <1>2, <1>3, <1>5, <1>6, LastFilled
<1>8. Retexts(s, new, Len(old), m, more)
  <2>1. TopsUp(s)
    BY DEF AppendInPlace
  <2>2. m <= Len(old) /\ \A k \in m + 1 .. Len(old) : old[k].valid # "committed"
    BY <1>1, <1>5, <2>1, LastIsTentative DEF old
  <2> QED
    BY <1>7, <2>2 DEF Retexts, old
<1>9. Reads(new, blocks') = Reads(old, blocks) \o ts
  <2>1. Readable(new, blocks') /\ TopsUpLast(old, ts, take, last, filled, chunks, more)
    BY <1>6, <1>7, ReplacedReadable DEF FillsLast
  <2> QED
    BY <1>1, <1>6, <1>7, <2>1, ReadsTopped
<1> DEFINE text == Reads(new, blocks')
<1>10. CacheInv' /\ SessionShows(s, text, CommittedEnd(old))
  BY <1>2, <1>8, TentativeStep DEF old
<1> HIDE DEF text
<1>11. Store!AppendTo(s, ts)
  <2>1. text = Reads(sessionRefs[s], blocks) \o ts
    BY <1>9 DEF text, old
  <2>2. SessionFits(s, ts)
    BY DEF AppendInPlace
  <2> QED
    BY <1>10, <2>1, <2>2, ShowsAppend DEF old
<1> QED
  BY <1>10, <1>11

LEMMA AppendByCopyImplements ==
    ASSUME CacheInv, NEW s, s \in Owners, NEW ts, ts \in Inputs, AppendByCopy(s, ts)
    PROVE  CacheInv' /\ Store!AppendTo(s, ts)
<1> DEFINE old == sessionRefs[s]
           last == Last(old)
           take == Fits(old, ts)
           filled == TokensOf(last) \o SubSeq(ts, 1, take)
           chunks == Chunks(Rest(ts, take))
           ids == FreshIds(Len(chunks) + 1)
           r == [last EXCEPT !.end = @ + take, !.block = ids[1]]
           filling == <<filled>> \o chunks
           added == NewRefs(last.end + take, Tail(ids), chunks, "tentative", "spine")
           base == WithLast(old, r)
           new == Joined(base, added)
           m == Len(old) - 1
<1>1. ListOK(old, blocks) /\ ts \in Seq(Nat) /\ Len(ts) > 0
  BY SessionListOK, InputsAreSequences
<1>2. /\ Available(Len(chunks) + 1) /\ Room(old) > 0
      /\ blocks' = Decref(Allocate(blocks, ids, filling), <<last>>)
      /\ SessionBecomes(s, new)
  BY DEF AppendByCopy, TopsUp, SessionBecomes, Joined
<1>3. "tentative" \in Validity /\ "spine" \in Ownership
  BY DEF Validity, Ownership
<1>4. Topped(old, ts, take, last, filled)
  BY <1>1, <1>2, RoomTopped
<1>5. /\ chunks = Chunks(Rest(ts, take))
      /\ ids = FreshIds(Len(chunks) + 1) /\ base = WithLast(old, r)
      /\ filling = <<filled>> \o chunks
      /\ added = NewRefs(last.end + take, Tail(ids), chunks, "tentative", "spine")
      /\ new = Joined(base, added)
      /\ r = [last EXCEPT !.end = last.end + take, !.block = ids[1]] /\ m = Len(old) - 1
  OBVIOUS
<1> HIDE DEF old, last, take, filled, chunks, ids, r, added, base, new, filling, m
<1>6. /\ r \in Ref /\ r.start = last.start /\ r.end = last.end + take
      /\ r.block = ids[1] /\ r.valid = last.valid
  <2>1. ids[1] \in BlockIds
    BY <1>1, <1>2, <1>4, <1>5, FirstCopyId
  <2>2. last \in Ref /\ last.end + take \in Nat
    BY <1>4, RefFields DEF Topped
  <2> DEFINE e == last.end + take
             i == ids[1]
  <2>3. e \in Nat /\ i \in BlockIds /\ r = [last EXCEPT !.end = e, !.block = i]
    BY <1>5, <2>1, <2>2
  <2> HIDE DEF e, i
  <2>4. /\ r \in Ref /\ r.start = last.start /\ r.end = e
        /\ r.block = i /\ r.valid = last.valid
    BY <2>2, <2>3 DEF Ref
  <2> QED
    BY <2>4 DEF e, i
<1>7. CopiesLast(old, ts, take, last, filled, chunks, ids, r, filling)
  BY <1>2, <1>4, <1>5, <1>6 DEF CopiesLast, TopsUpLast
<1>8. /\ Replaced(blocks, blocks', old, new) /\ Validates(old, new, Len(old), "tentative")
      /\ Carries(old, blocks, new, blocks', m, filling)
  BY <1>1, <1>2, <1>3, <1>5, <1>7, LastCopied
<1>9. Retexts(s, new, Len(old), m, filling)
  <2>1. TopsUp(s)
    BY DEF AppendByCopy
  <2>2. m <= Len(old) /\ \A k \in m + 1 .. Len(old) : old[k].valid # "committed"
    BY <1>1, <1>5, <2>1, LastIsTentative DEF old
  <2> QED
    BY <1>8, <2>2 DEF Retexts, old
<1>10. Reads(new, blocks') = Reads(old, blocks) \o ts
  <2>1. Readable(new, blocks') /\ TopsUpLast(old, ts, take, last, filled, chunks, filling)
    BY <1>7, <1>8, ReplacedReadable DEF CopiesLast
  <2> QED
    BY <1>1, <1>5, <1>8, <2>1, ReadsTopped
<1> DEFINE text == Reads(new, blocks')
<1>11. CacheInv' /\ SessionShows(s, text, CommittedEnd(old))
  BY <1>2, <1>9, TentativeStep DEF old
<1> HIDE DEF text
<1>12. Store!AppendTo(s, ts)
  <2>1. text = Reads(sessionRefs[s], blocks) \o ts
    BY <1>10 DEF text, old
  <2>2. SessionFits(s, ts)
    BY DEF AppendByCopy
  <2> QED
    BY <1>11, <2>1, <2>2, ShowsAppend DEF old
<1> QED
  BY <1>11, <1>12

-----------------------------------------------------------------------------
(***************************************************************************)
(* The actions on branches                                                 *)
(***************************************************************************)

\* The block of a private reference is counted once.
LEMMA PrivateOnce ==
    ASSUME CacheInv, NEW b, b \in DOMAIN branchRefs, NEW k, k \in 1 .. Len(branchRefs[b]),
           branchRefs[b][k].owner # "shared"
    PROVE  blocks[branchRefs[b][k].block].count = 1
<1> DEFINE table == TableOf(sessionRefs, branchRefs)
           l == <<"branch", b>>
           i == branchRefs[b][k].block
<1>1. TypedLists(sessionRefs, branchRefs) /\ b \in BranchIds
  BY DEF CacheInv, TypedLists
<1>2. table \in [AllLists -> Seq(Ref)] /\ l \in AllLists /\ table[l] = branchRefs[b]
  BY <1>1, TableFacts
<1>3. Counted(table, blocks) /\ Sole(table)
  BY DEF CacheInv, Sound
<1>4. l[1] = "branch"
  OBVIOUS
<1> HIDE DEF table, l
<1>5. DOMAIN table = AllLists /\ k \in 1 .. Len(table[l])
      /\ table[l][k].owner # "shared" /\ table[l][k].block = i
  BY <1>2
<1>6. i \in DOMAIN blocks
  BY <1>2, <1>3, <1>5 DEF Counted
<1> HIDE DEF i
<1>7. IsSlot(AllLists, table, i, <<l, k>>)
  BY <1>2, <1>5 DEF IsSlot
<1>8. ASSUME NEW p, IsSlot(AllLists, table, i, p) PROVE p = <<l, k>>
  <2>1. PICK n \in AllLists : \E j \in 1 .. Len(table[n]) : p = <<n, j>> /\ table[n][j].block = i
    BY <1>8, Zenon DEF IsSlot
  <2>2. PICK j \in 1 .. Len(table[n]) : p = <<n, j>> /\ table[n][j].block = i
    BY <2>1
  <2>3. n = l /\ j = k
    BY <1>2, <1>3, <1>4, <1>5, <2>2 DEF Sole
  <2> QED
    BY <2>2, <2>3
<1>9. Slots(table, i) = {<<l, k>>}
  <2>1. \A p : p \in Slots(table, i) <=> IsSlot(AllLists, table, i, p)
    BY <1>2, InSlots
  <2> QED
    BY <1>7, <1>8, <2>1
<1>10. blocks[i].count = 1
  BY <1>3, <1>6, <1>9, FS_Singleton DEF Counted
<1> QED
  BY <1>10 DEF i

LEMMA BranchExcept ==
    ASSUME CacheInv, NEW b, b \in DOMAIN branchRefs, NEW new, new \in Seq(Ref),
           branchRefs' = [branchRefs EXCEPT ![b] = new], sessionRefs' = sessionRefs
    PROVE  BranchBecomes(b, new)
<1>1. TypedLists(sessionRefs, branchRefs)
  BY DEF CacheInv
<1>2. /\ DOMAIN branchRefs' = DOMAIN branchRefs /\ branchRefs'[b] = new
      /\ branchRefs' \in [DOMAIN branchRefs -> Seq(Ref)]
      /\ \A c \in DOMAIN branchRefs : c # b => branchRefs'[c] = branchRefs[c]
  BY <1>1 DEF TypedLists
<1>3. TypedLists(sessionRefs', branchRefs')
  BY <1>1, <1>2 DEF TypedLists
<1> QED
  BY <1>2, <1>3 DEF BranchBecomes

LEMMA BranchReplaced ==
    ASSUME CacheInv, NEW b, b \in DOMAIN branchRefs, NEW new,
           Replaced(blocks, blocks', branchRefs[b], new),
           branchRefs' = [branchRefs EXCEPT ![b] = new], sessionRefs' = sessionRefs
    PROVE  CacheInv' /\ OnlyBranch(b, new)
<1>1. new \in Seq(Ref) /\ b \in BranchIds
  BY DEF Replaced, CacheInv, TypedLists
<1>2. BranchBecomes(b, new)
  BY <1>1, BranchExcept
<1> QED
  BY <1>1, <1>2, BranchStep

LEMMA BranchContinues ==
    ASSUME CacheInv, NEW b, NEW ts, ts \in Inputs, AppendBranch(b, ts), NEW new,
           Replaced(blocks, blocks', branchRefs[b], new),
           branchRefs' = [branchRefs EXCEPT ![b] = new],
           NEW text, text = Reads(branchRefs[b], blocks) \o ts, Reads(new, blocks') = text
    PROVE  CacheInv' /\ Store!Continue(b, ts)
<1>1. b \in DOMAIN branchRefs /\ sessionRefs' = sessionRefs
  BY DEF AppendBranch
<1>2. CacheInv' /\ OnlyBranch(b, new)
  BY <1>1, BranchReplaced
<1>3. b \in BranchIds
  BY <1>1 DEF CacheInv, TypedLists
<1>4. BranchShows(b, text)
  BY <1>2, <1>3, BranchShown
<1>5. DOMAIN branchRefs' = DOMAIN branchRefs
  OBVIOUS
<1> QED
  BY <1>1, <1>2, <1>4, <1>5, ShowsContinue

LEMMA BranchNewBlocksImplements ==
    ASSUME CacheInv, NEW b, b \in BranchIds, NEW ts, ts \in Inputs, BranchNewBlocks(b, ts)
    PROVE  CacheInv' /\ Store!Continue(b, ts)
<1> DEFINE old == branchRefs[b]
           chunks == Chunks(ts)
           ids == FreshIds(Len(chunks))
           new == Joined(old, NewRefs(End(old), ids, chunks, "committed", "branch_private"))
<1>1. AppendBranch(b, ts) /\ b \in DOMAIN branchRefs
  BY DEF BranchNewBlocks, AppendBranch
<1>2. ListOK(old, blocks) /\ ts \in Seq(Nat)
  BY <1>1, BranchListOK, InputsAreSequences
<1>3. /\ Available(Len(chunks))
      /\ blocks' = Allocate(blocks, ids, chunks)
      /\ branchRefs' = [branchRefs EXCEPT ![b] = new]
  BY DEF BranchNewBlocks, AppendBranch, Joined
<1>4. "committed" \in Validity /\ "branch_private" \in Ownership
  BY DEF Validity, Ownership
<1>5. /\ Replaced(blocks, blocks', old, new)
      /\ Carries(old, blocks, new, blocks', Len(old), chunks)
  BY <1>2, <1>3, <1>4, NewBlocksAdded
<1> HIDE DEF new
<1>6. Reads(new, blocks') = Reads(old, blocks) \o ts
  BY <1>2, <1>5, ListReads, ReplacedReadable, ReadsAppended
<1> QED
  BY <1>1, <1>3, <1>5, <1>6, BranchContinues

LEMMA BranchInPlaceImplements ==
    ASSUME CacheInv, NEW b, b \in BranchIds, NEW ts, ts \in Inputs, BranchInPlace(b, ts)
    PROVE  CacheInv' /\ Store!Continue(b, ts)
<1> DEFINE old == branchRefs[b]
           last == Last(old)
           take == Fits(old, ts)
           filled == TokensOf(last) \o SubSeq(ts, 1, take)
           chunks == Chunks(Rest(ts, take))
           ids == FreshIds(Len(chunks))
           r == [last EXCEPT !.end = @ + take]
           added == NewRefs(last.end + take, ids, chunks, "committed", "branch_private")
           base == WithLast(old, r)
           more == <<filled>> \o chunks
           new == Joined(base, added)
           m == Len(old) - 1
<1>1. AppendBranch(b, ts) /\ b \in DOMAIN branchRefs
  BY DEF BranchInPlace, AppendBranch
<1>2. ListOK(old, blocks) /\ ts \in Seq(Nat) /\ Len(ts) > 0
  BY <1>1, BranchListOK, InputsAreSequences
<1>3. /\ Available(Len(chunks)) /\ Room(old) > 0 /\ last.owner # "shared"
      /\ blocks' = Allocate(Rewrite(blocks, last.block, filled), ids, chunks)
      /\ branchRefs' = [branchRefs EXCEPT ![b] = new]
  BY DEF BranchInPlace, AppendBranch, Joined
<1>4. "committed" \in Validity /\ "branch_private" \in Ownership
  BY DEF Validity, Ownership
<1>5. Topped(old, ts, take, last, filled)
  BY <1>2, <1>3, RoomTopped
<1>6. blocks[last.block].count = 1
  <2>1. Len(old) > 0 /\ last = old[Len(old)] /\ Len(old) \in Nat
    BY <1>2, <1>5 DEF Topped, ListOK
  <2>2. Len(old) \in 1 .. Len(old) /\ old[Len(old)].owner # "shared"
    BY <1>3, <2>1
  <2>3. blocks[old[Len(old)].block].count = 1
    BY <1>1, <2>2, PrivateOnce
  <2> QED
    BY <2>1, <2>3
<1>7. /\ r = [last EXCEPT !.end = @ + take] /\ chunks = Chunks(Rest(ts, take))
      /\ ids = FreshIds(Len(chunks)) /\ base = WithLast(old, r)
      /\ added = NewRefs(last.end + take, ids, chunks, "committed", "branch_private")
      /\ new = Joined(base, added) /\ more = <<filled>> \o chunks /\ m = Len(old) - 1
  OBVIOUS
<1> HIDE DEF old, last, take, filled, chunks, ids, r, added, base, new, more, m
<1>8. /\ FillsLast(old, ts, take, last, filled, chunks, ids, r, more) /\ m = Len(old) - 1
      /\ TopsUpLast(old, ts, take, last, filled, chunks, more)
  <2>1. TopsUpLast(old, ts, take, last, filled, chunks, more)
    BY <1>5, <1>7 DEF TopsUpLast
  <2>2. FillsLast(old, ts, take, last, filled, chunks, ids, r, more)
    BY <1>3, <1>6, <1>7, <2>1, FillsInPlace
  <2> QED
    BY <1>7, <2>1, <2>2
<1>9. Replaced(blocks, blocks', old, new) /\ Carries(old, blocks, new, blocks', m, more)
  BY <1>2, <1>3, <1>4, <1>7, <1>8, LastFilled
<1>10. Reads(new, blocks') = Reads(old, blocks) \o ts
  BY <1>2, <1>8, <1>9, ReplacedReadable, ReadsTopped
<1> QED
  BY <1>1, <1>3, <1>9, <1>10, BranchContinues DEF old

LEMMA BranchByCopyImplements ==
    ASSUME CacheInv, NEW b, b \in BranchIds, NEW ts, ts \in Inputs, BranchByCopy(b, ts)
    PROVE  CacheInv' /\ Store!Continue(b, ts)
<1> DEFINE old == branchRefs[b]
           last == Last(old)
           take == Fits(old, ts)
           filled == TokensOf(last) \o SubSeq(ts, 1, take)
           chunks == Chunks(Rest(ts, take))
           ids == FreshIds(Len(chunks) + 1)
           r == [last EXCEPT !.end = @ + take, !.block = ids[1], !.owner = "branch_private"]
           filling == <<filled>> \o chunks
           added == NewRefs(last.end + take, Tail(ids), chunks, "committed", "branch_private")
           base == WithLast(old, r)
           new == Joined(base, added)
           m == Len(old) - 1
<1>1. AppendBranch(b, ts) /\ b \in DOMAIN branchRefs
  BY DEF BranchByCopy, AppendBranch
<1>2. ListOK(old, blocks) /\ ts \in Seq(Nat) /\ Len(ts) > 0
  BY <1>1, BranchListOK, InputsAreSequences
<1>3. /\ Available(Len(chunks) + 1) /\ Room(old) > 0
      /\ blocks' = Decref(Allocate(blocks, ids, filling), <<last>>)
      /\ branchRefs' = [branchRefs EXCEPT ![b] = new]
  BY DEF BranchByCopy, AppendBranch, Joined
<1>4. "committed" \in Validity /\ "branch_private" \in Ownership
  BY DEF Validity, Ownership
<1>5. Topped(old, ts, take, last, filled)
  BY <1>2, <1>3, RoomTopped
<1>6. /\ chunks = Chunks(Rest(ts, take))
      /\ ids = FreshIds(Len(chunks) + 1) /\ base = WithLast(old, r)
      /\ filling = <<filled>> \o chunks
      /\ added = NewRefs(last.end + take, Tail(ids), chunks, "committed", "branch_private")
      /\ new = Joined(base, added)
      /\ r = [last EXCEPT !.end = last.end + take, !.block = ids[1], !.owner = "branch_private"]
      /\ m = Len(old) - 1
  OBVIOUS
<1> HIDE DEF old, last, take, filled, chunks, ids, r, added, base, new, filling, m
<1>7. /\ r \in Ref /\ r.start = last.start /\ r.end = last.end + take
      /\ r.block = ids[1] /\ r.valid = last.valid
  <2>1. ids[1] \in BlockIds
    BY <1>2, <1>3, <1>5, <1>6, FirstCopyId
  <2>2. last \in Ref /\ last.end + take \in Nat
    BY <1>5, RefFields DEF Topped
  <2> DEFINE e == last.end + take
             i == ids[1]
  <2>3. e \in Nat /\ i \in BlockIds
        /\ r = [last EXCEPT !.end = e, !.block = i, !.owner = "branch_private"]
    BY <1>6, <2>1, <2>2
  <2> HIDE DEF e, i
  <2>4. /\ r \in Ref /\ r.start = last.start /\ r.end = e
        /\ r.block = i /\ r.valid = last.valid
    BY <1>4, <2>2, <2>3 DEF Ref
  <2> QED
    BY <2>4 DEF e, i
<1>8. /\ CopiesLast(old, ts, take, last, filled, chunks, ids, r, filling) /\ m = Len(old) - 1
      /\ TopsUpLast(old, ts, take, last, filled, chunks, filling)
  BY <1>3, <1>5, <1>6, <1>7 DEF CopiesLast, TopsUpLast
<1>9. Replaced(blocks, blocks', old, new) /\ Carries(old, blocks, new, blocks', m, filling)
  BY <1>2, <1>3, <1>4, <1>6, <1>8, LastCopied
<1>10. Reads(new, blocks') = Reads(old, blocks) \o ts
  BY <1>2, <1>8, <1>9, ReplacedReadable, ReadsTopped
<1> QED
  BY <1>1, <1>3, <1>9, <1>10, BranchContinues DEF old

LEMMA ReleaseBranchImplements ==
    ASSUME CacheInv, NEW b, b \in BranchIds, ReleaseBranch(b)
    PROVE  CacheInv' /\ Store!Return(b)
<1> DEFINE old == branchRefs[b]
<1>1. /\ b \in DOMAIN branchRefs /\ blocks' = Decref(blocks, old)
      /\ branchRefs' = [c \in DOMAIN branchRefs \ {b} |-> branchRefs[c]]
      /\ sessionRefs' = sessionRefs
  BY DEF ReleaseBranch
<1>2. ListOK(old, blocks) /\ old \in Seq(Ref) /\ Len(old) \in Nat
  BY <1>1, BranchListOK DEF ListOK
<1>3. TypedLists(sessionRefs, branchRefs)
  BY DEF CacheInv
<1>4. BranchBecomes(b, <<>>)
  <2>1. TypedLists(sessionRefs', branchRefs')
    BY <1>1, <1>3 DEF TypedLists
  <2> QED
    BY <1>1, <2>1 DEF BranchBecomes
<1>5. After(old, 0) = old
  BY <1>2 DEF After
<1>6. Prefix(old, 0, <<>>)
  <2>1. 0 \in 0 .. Len(old) /\ <<>> \in Seq(Ref) /\ Len(<<>>) = 0 /\ 1 .. 0 = {}
    BY <1>2
  <2> QED
    BY <2>1 DEF Prefix
<1> HIDE DEF old
<1>7. Replaced(blocks, blocks', old, <<>>)
  BY <1>1, <1>2, <1>5, <1>6, KeepsPrefix
<1>8. CacheInv' /\ OnlyBranch(b, <<>>)
  <2> DEFINE gone == <<>>
  <2>1. BranchBecomes(b, gone) /\ Replaced(blocks, blocks', branchRefs[b], gone)
    BY <1>4, <1>7 DEF old
  <2> HIDE DEF gone
  <2>2. CacheInv' /\ OnlyBranch(b, gone)
    BY <1>1, <2>1, BranchStep
  <2> QED
    BY <2>2 DEF gone
<1>9. Store!Return(b)
  <2> DEFINE gone == <<>>
             text == Reads(gone, blocks')
  <2>1. OnlyBranch(b, gone)
    BY <1>8
  <2> HIDE DEF gone
  <2>2. text = Reads(gone, blocks')
    OBVIOUS
  <2> HIDE DEF text
  <2>3. BranchShows(b, text)
    BY <2>1, <2>2, BranchShown
  <2>4. DOMAIN branchRefs' = DOMAIN branchRefs \ {b}
    BY <1>1
  <2> QED
    BY <1>1, <2>3, <2>4, ShowsReturn
<1> QED
  BY <1>8, <1>9

-----------------------------------------------------------------------------
(***************************************************************************)
(* rollback_tentative and commit_tentative                                 *)
(***************************************************************************)

\* A rollback to `from` keeps the first m references; the next may straddle it.
Cutting(old, from, m) ==
    /\ m \in 0 .. Len(old)
    /\ Below(old, from) = SubSeq(old, 1, m) /\ Prefix(old, m, SubSeq(old, 1, m))
    /\ \A k \in 1 .. m : old[k].end <= from
    /\ \A k \in m + 1 .. Len(old) : from < old[k].end
    /\ \A k \in DOMAIN old : Straddles(old[k], from) => k = m + 1
    /\ (\E k \in DOMAIN old : Straddles(old[k], from)) => Beyond(old, from) = After(old, m + 1)
    /\ (\A k \in DOMAIN old : ~Straddles(old[k], from)) => Beyond(old, from) = After(old, m)

LEMMA RollbackCut ==
    ASSUME NEW old, NEW pool, ListOK(old, pool), NEW from, from \in Nat
    PROVE  \E m \in Nat : Cutting(old, from, m)
<1>1. /\ old \in Seq(Ref) /\ PoolOK(pool) /\ Tiled(old, pool) /\ Len(old) \in Nat
      /\ DOMAIN old = 1 .. Len(old)
  BY DEF ListOK
<1>2. PICK m \in 0 .. Len(old) :
          /\ \A k \in 1 .. m : old[k].end <= from
          /\ \A k \in m + 1 .. Len(old) : from < old[k].end
          /\ \A k \in m + 2 .. Len(old) : from <= old[k].start
  BY <1>1, CutPoint
<1>3. m \in Nat /\ m <= Len(old)
  BY <1>1, <1>2
<1>4. \A k \in 1 .. Len(old) : /\ old[k].start \in Nat /\ old[k].end \in Nat
                               /\ old[k].start < old[k].end
  BY <1>1, RefFields, TiledIsOrdered
<1>5. Below(old, from) = SubSeq(old, 1, m) /\ Prefix(old, m, SubSeq(old, 1, m))
  <2>1. {k \in DOMAIN old : old[k].end <= from} = 1 .. m
    BY <1>1, <1>2, <1>3, <1>4
  <2>2. Below(old, from) = [n \in 1 .. m |-> old[n]]
    BY <1>3, <2>1, KeptPrefix DEF Below
  <2>3. SubSeq(old, 1, m) = [n \in 1 .. m |-> old[n]]
    BY <1>1, <1>3
  <2>4. Prefix(old, m, SubSeq(old, 1, m))
    BY <1>1, <1>2, <1>3 DEF Prefix
  <2> QED
    BY <2>2, <2>3, <2>4
<1>6. ASSUME NEW k \in 1 .. Len(old), Straddles(old[k], from) PROVE k = m + 1
  <2>1. old[k].start < from /\ from < old[k].end
    BY <1>6 DEF Straddles
  <2>2. k \notin 1 .. m /\ k \notin m + 2 .. Len(old)
    BY <1>2, <1>4, <2>1
  <2> QED
    BY <1>3, <2>2
<1>7. ASSUME NEW n \in Nat, n <= Len(old),
             {k \in DOMAIN old : old[k].start >= from} = n + 1 .. Len(old)
      PROVE  Beyond(old, from) = After(old, n)
  <2>1. Kept(old, n + 1 .. Len(old)) = [j \in 1 .. Len(old) - n |-> old[n + j]]
    <3> DEFINE L == Len(old)
    <3>1. L \in Nat /\ n <= L
      BY <1>1, <1>7
    <3> HIDE DEF L
    <3>2. Kept(old, n + 1 .. L) = [j \in 1 .. L - n |-> old[n + j]]
      BY <3>1, KeptSuffix
    <3> QED
      BY <3>2 DEF L
  <2>2. Beyond(old, from) = Kept(old, n + 1 .. Len(old))
    BY <1>7, Zenon DEF Beyond
  <2>3. After(old, n) = [j \in 1 .. Len(old) - n |-> old[n + j]]
    BY DEF After
  <2> QED
    BY <2>1, <2>2, <2>3, Zenon
<1>8. ASSUME NEW k \in DOMAIN old, Straddles(old[k], from)
      PROVE  Beyond(old, from) = After(old, m + 1)
  <2>1. k = m + 1 /\ m + 1 \in 1 .. Len(old) /\ old[m + 1].start < from
    BY <1>1, <1>6, <1>8 DEF Straddles
  <2>2. m + 1 \in Nat /\ m + 1 <= Len(old) /\ (m + 1) + 1 = m + 2
    BY <1>3, <2>1
  <2>3. {j \in DOMAIN old : old[j].start >= from} = (m + 1) + 1 .. Len(old)
    <3>1. ASSUME NEW j \in 1 .. Len(old), old[j].start >= from PROVE j \in m + 2 .. Len(old)
      <4>1. j \notin 1 .. m /\ j # m + 1
        BY <1>2, <1>4, <2>1, <3>1
      <4> QED
        BY <1>3, <4>1
    <3>2. ASSUME NEW j \in m + 2 .. Len(old) PROVE j \in 1 .. Len(old) /\ old[j].start >= from
      <4>1. j \in 1 .. Len(old)
        BY <1>3
      <4> QED
        BY <1>2, <1>4, <4>1
    <3> QED
      BY <1>1, <2>2, <3>1, <3>2
  <2> QED
    BY <1>7, <2>2, <2>3
<1>9. ASSUME \A k \in DOMAIN old : ~Straddles(old[k], from)
      PROVE  Beyond(old, from) = After(old, m)
  <2>1. {j \in DOMAIN old : old[j].start >= from} = m + 1 .. Len(old)
    <3>1. ASSUME NEW j \in 1 .. Len(old), old[j].start >= from PROVE j \in m + 1 .. Len(old)
      <4>1. j \notin 1 .. m
        BY <1>2, <1>4, <3>1
      <4> QED
        BY <1>3, <4>1
    <3>2. ASSUME NEW j \in m + 1 .. Len(old) PROVE j \in 1 .. Len(old) /\ old[j].start >= from
      <4>1. j \in 1 .. Len(old)
        BY <1>3
      <4>2. ~(old[j].start < from) /\ old[j].start \in Nat
        BY <1>1, <1>2, <1>4, <1>9, <4>1 DEF Straddles
      <4> QED
        BY <4>1, <4>2
    <3> QED
      BY <1>1, <3>1, <3>2
  <2> QED
    BY <1>3, <1>7, <2>1
<1>10. Cutting(old, from, m)
  BY <1>1, <1>2, <1>5, <1>6, <1>8, <1>9 DEF Cutting
<1> QED
  BY <1>3, <1>10

\* What a rollback owes session s: the first m references, and the beginning of the next.
CutsBack(s, from, new, n, m, more) ==
    /\ Cutting(sessionRefs[s], from, m) /\ CutsAt(sessionRefs[s], blocks, from, m, more)
    /\ m <= n /\ SessionBecomes(s, new)
    /\ Replaced(blocks, blocks', sessionRefs[s], new)
    /\ Validates(sessionRefs[s], new, n, "tentative")
    /\ Carries(sessionRefs[s], blocks, new, blocks', m, more)

LEMMA RollbackStep ==
    ASSUME CacheInv, NEW s, s \in Owners, NEW from, from \in Nat, Rollback(s, from),
           NEW new, NEW n, NEW m, NEW more, CutsBack(s, from, new, n, m, more)
    PROVE  CacheInv' /\ Store!CutBack(s, from)
<1> DEFINE old == sessionRefs[s]
<1>1. /\ Cutting(old, from, m) /\ CutsAt(old, blocks, from, m, more)
      /\ m <= n /\ SessionBecomes(s, new)
      /\ Replaced(blocks, blocks', old, new) /\ Validates(old, new, n, "tentative")
      /\ Carries(old, blocks, new, blocks', m, more)
  BY DEF CutsBack
<1>2. ListOK(old, blocks) /\ FirmFirst(old) /\ from >= CommittedEnd(old)
  BY SessionListOK DEF CacheInv, Rollback
<1>3. Readable(old, blocks) /\ Readable(new, blocks')
  BY <1>1, <1>2, ListReads, ReplacedReadable
<1>4. ASSUME NEW k \in m + 1 .. Len(old) PROVE old[k].valid # "committed"
  <2>1. k \in 1 .. Len(old) /\ from < old[k].end
    <3>1. m \in Nat /\ Len(old) \in Nat
      BY <1>1, <1>2 DEF Cutting, ListOK
    <3>2. k \in 1 .. Len(old)
      BY <3>1
    <3> QED
      BY <1>1, <3>2 DEF Cutting
  <2> HIDE DEF old
  <2> QED
    BY <1>2, <1>3, <2>1, FirmBelow
<1>5. Retexts(s, new, n, m, more)
  BY <1>1, <1>4 DEF Retexts
<1>6. Reads(new, blocks') = SubSeq(Reads(old, blocks), 1, from)
  <2> HIDE DEF old
  <2> QED
    BY <1>1, <1>3, ReadsCut
<1> DEFINE text == Reads(new, blocks')
<1>7. CacheInv' /\ SessionShows(s, text, CommittedEnd(old))
  BY <1>1, <1>5, TentativeStep
<1> HIDE DEF text
<1>8. text = SubSeq(Reads(sessionRefs[s], blocks), 1, from)
  BY <1>6 DEF text
<1> QED
  BY <1>7, <1>8, ShowsCut

LEMMA CutBetween ==
    ASSUME NEW old, ListOK(old, blocks), NEW from, from \in Nat, from < End(old),
           NEW m, Cutting(old, from, m), \A k \in DOMAIN old : ~Straddles(old[k], from)
    PROVE  CutsAt(old, blocks, from, m, <<>>)
<1>1. /\ old \in Seq(Ref) /\ Tiled(old, blocks) /\ PoolOK(blocks) /\ Len(old) \in Nat
      /\ DOMAIN old = 1 .. Len(old)
  BY DEF ListOK
<1>2. /\ m \in 0 .. Len(old) /\ \A k \in 1 .. m : old[k].end <= from
      /\ \A k \in m + 1 .. Len(old) : from < old[k].end
  BY DEF Cutting
<1>3. \A k \in 1 .. Len(old) : old[k].start \in Nat /\ old[k].end \in Nat
  BY <1>1, RefFields
<1>4. Len(old) > 0 /\ from < old[Len(old)].end
  <2>1. old # <<>>
    BY DEF End
  <2>2. Len(old) > 0
    BY <1>1, <2>1, EmptySeq
  <2>3. End(old) = old[Len(old)].end
    BY <2>1 DEF End, Last
  <2> QED
    BY <2>2, <2>3
<1>5. m \in 0 .. Len(old) - 1
  <2>1. Len(old) \in 1 .. Len(old)
    BY <1>1, <1>4
  <2>2. ~(old[Len(old)].end <= from)
    BY <1>3, <1>4, <2>1
  <2>3. Len(old) \notin 1 .. m
    BY <1>2, <2>2
  <2> QED
    BY <1>1, <1>2, <2>1, <2>3
<1>6. m + 1 \in 1 .. Len(old) /\ m + 1 \in m + 1 .. Len(old) /\ (m + 1 = 1 <=> m = 0) /\ (m + 1) - 1 = m
      /\ (m # 0 => m \in 1 .. m /\ m \in 1 .. Len(old))
  BY <1>1, <1>5
<1>7. from <= old[m + 1].start
  <2>1. ~Straddles(old[m + 1], from) /\ from < old[m + 1].end
    BY <1>1, <1>2, <1>6
  <2> QED
    BY <1>3, <1>6, <2>1 DEF Straddles
<1>8. old[m + 1].start = IF m = 0 THEN 0 ELSE old[m].end
  BY <1>1, <1>6 DEF Tiled
<1>9. old[m + 1].start <= from
  BY <1>2, <1>6, <1>8
<1>10. from = old[m + 1].start /\ from = old[m + 1].start + 0
  BY <1>3, <1>6, <1>7, <1>9
<1>11. 0 \in 0 .. Len(blocks[old[m + 1].block].tokens)
  <2>1. blocks[old[m + 1].block].tokens \in Seq(Nat)
    BY <1>1, <1>6 DEF Tiled, PoolOK, Block
  <2> QED
    BY <2>1
<1> QED
  BY <1>5, <1>10, <1>11 DEF CutsAt

LEMMA RollbackBetweenBlocksImplements ==
    ASSUME CacheInv, NEW s, s \in Owners, NEW from, from \in Nat, RollbackBetweenBlocks(s, from)
    PROVE  CacheInv' /\ Store!CutBack(s, from)
<1> DEFINE old == sessionRefs[s]
<1>1. ListOK(old, blocks) /\ Rollback(s, from)
  BY SessionListOK DEF RollbackBetweenBlocks
<1>2. PICK m \in Nat : Cutting(old, from, m)
  BY <1>1, RollbackCut
<1> DEFINE new == SubSeq(old, 1, m)
<1>3. Below(old, from) = new /\ Prefix(old, m, new) /\ Beyond(old, from) = After(old, m)
  BY <1>2 DEF Cutting, RollbackBetweenBlocks
<1>4. /\ blocks' = Decref(blocks, After(old, m))
      /\ SessionBecomes(s, new)
  BY <1>3 DEF RollbackBetweenBlocks, Rollback, SessionBecomes
<1>5. from < End(old) /\ \A k \in DOMAIN old : ~Straddles(old[k], from)
  BY DEF RollbackBetweenBlocks, Rollback
<1> HIDE DEF old, new
<1>6. CutsAt(old, blocks, from, m, <<>>)
  BY <1>1, <1>2, <1>5, CutBetween
<1>7. /\ Replaced(blocks, blocks', old, new) /\ Validates(old, new, m, "tentative")
      /\ Carries(old, blocks, new, blocks', m, <<>>)
  BY <1>1, <1>3, <1>4, KeepsPrefix
<1> DEFINE more == <<>>
<1>8. CutsBack(s, from, new, m, m, more)
  BY <1>2, <1>4, <1>6, <1>7 DEF CutsBack, old
<1> HIDE DEF more
<1> QED
  BY <1>1, <1>8, RollbackStep

\* The straddling reference, ended at the cut, holds ts.
EndedAt(cut, from, ts) ==
    /\ cut \in Ref /\ cut.start \in Nat
    /\ ts \in Seq(Nat) /\ Len(ts) \in 1 .. BlockSize /\ from = cut.start + Len(ts)
    /\ Len(ts) <= Len(TokensOf(cut)) /\ ts = SubSeq(TokensOf(cut), 1, Len(ts))

LEMMA StraddlerEnded ==
    ASSUME NEW old, ListOK(old, blocks), NEW from, from \in Nat, NEW k, k \in DOMAIN old,
           NEW cut, cut = old[k], Straddles(cut, from),
           NEW ts, ts = SubSeq(TokensOf(cut), 1, from - cut.start)
    PROVE  EndedAt(cut, from, ts)
<1>1. /\ old \in Seq(Ref) /\ PoolOK(blocks) /\ Tiled(old, blocks) /\ k \in 1 .. Len(old)
  BY DEF ListOK
<1>2. cut \in Ref /\ cut.start \in Nat /\ cut.end \in Nat
  BY <1>1, RefFields
<1>3. cut.block \in DOMAIN blocks /\ cut.end = cut.start + Len(TokensOf(cut))
  BY <1>1 DEF Tiled, TokensOf
<1>4. TokensOf(cut) \in Seq(Nat) /\ Len(TokensOf(cut)) \in 1 .. BlockSize
  BY <1>1, <1>3 DEF PoolOK, Block, TokensOf
<1> DEFINE held == TokensOf(cut)
           n == from - cut.start
<1>5. n \in 1 .. Len(held) /\ from = cut.start + n
  <2>1. cut.start < from /\ from < cut.end
    BY DEF Straddles
  <2> QED
    BY <1>2, <1>3, <1>4, <2>1
<1>6. ts = SubSeq(held, 1, n)
  OBVIOUS
<1>7. held \in Seq(Nat) /\ Len(held) \in 1 .. BlockSize
  BY <1>4
<1> HIDE DEF held, n
<1>8. ts \in Seq(Nat) /\ Len(ts) = n
  <2>1. /\ 1 \in Int /\ n \in Int /\ 1 <= n /\ n - 1 + 1 = n
        /\ \A i \in 1 .. n : held[i] \in Nat
    BY <1>5, <1>7
  <2>2. SubSeq(held, 1, n) \in Seq(Nat) /\ Len(SubSeq(held, 1, n)) = n
    BY <2>1, SubSeqProperties
  <2> QED
    BY <1>6, <2>2, Zenon
<1>9. Len(ts) \in 1 .. BlockSize /\ Len(ts) <= Len(held)
  BY <1>5, <1>7, <1>8, CacheAssumption
<1>10. ts = SubSeq(held, 1, Len(ts))
  BY <1>6, <1>8
<1> QED
  BY <1>2, <1>5, <1>8, <1>9, <1>10 DEF EndedAt, held

LEMMA CutInside ==
    ASSUME NEW old, NEW from, NEW m, m \in 0 .. Len(old) - 1, NEW cut, cut = old[m + 1], NEW ts,
           EndedAt(cut, from, ts), TokensOf(cut) \in Seq(Nat), NEW more, more = <<ts>>
    PROVE  CutsAt(old, blocks, from, m, more)
<1> DEFINE j == Len(ts)
           held == blocks[cut.block].tokens
<1>1. /\ ts \in Seq(Nat) /\ j \in 1 .. BlockSize /\ from = cut.start + j
      /\ j <= Len(held) /\ ts = SubSeq(held, 1, j) /\ held \in Seq(Nat)
  BY DEF EndedAt, TokensOf
<1> HIDE DEF j
<1>2. j \in 0 .. Len(held) /\ j # 0
  <2> HIDE DEF held
  <2> QED
    BY <1>1, CacheAssumption
<1>3. more = IF j = 0 THEN <<>> ELSE <<SubSeq(held, 1, j)>>
  BY <1>1, <1>2
<1> QED
  BY <1>1, <1>2, <1>3 DEF CutsAt

LEMMA TextOfRef ==
    ASSUME NEW old, ListOK(old, blocks), NEW k, k \in 1 .. Len(old)
    PROVE  TokensOf(old[k]) \in Seq(Nat)
BY DEF ListOK, Tiled, PoolOK, Block, TokensOf

LEMMA RollbackByTruncationImplements ==
    ASSUME CacheInv, NEW s, s \in Owners, NEW from, from \in Nat, RollbackByTruncation(s, from)
    PROVE  CacheInv' /\ Store!CutBack(s, from)
<1> DEFINE old == sessionRefs[s]
<1>1. ListOK(old, blocks)
  BY SessionListOK
<1>2. PICK k \in DOMAIN old :
          /\ Straddles(old[k], from)
          /\ blocks[old[k].block].count = 1
          /\ blocks' = Decref(Rewrite(blocks, old[k].block,
                                      SubSeq(TokensOf(old[k]), 1, from - old[k].start)),
                              Beyond(old, from))
          /\ sessionRefs' = [sessionRefs EXCEPT ![s] =
                 Append(Below(old, from), [old[k] EXCEPT !.end = from])]
  BY DEF RollbackByTruncation
<1>3. branchRefs' = branchRefs /\ Rollback(s, from)
  BY DEF RollbackByTruncation, Rollback
<1>4. PICK m \in Nat : Cutting(old, from, m)
  BY <1>1, RollbackCut
<1> DEFINE cut == old[k]
           w == cut.block
           ts == SubSeq(TokensOf(cut), 1, from - cut.start)
           r == [cut EXCEPT !.end = from]
           mid == Rewrite(blocks, w, ts)
           new == Ending(old, m, r)
<1>5. k = m + 1 /\ Below(old, from) = SubSeq(old, 1, m) /\ Beyond(old, from) = After(old, m + 1)
  BY <1>2, <1>4 DEF Cutting
<1>6. blocks' = Decref(mid, After(old, m + 1)) /\ SessionBecomes(s, new)
  BY <1>2, <1>3, <1>5 DEF SessionBecomes, Ending
<1>7. EndedAt(cut, from, ts)
  <2>1. Straddles(cut, from) /\ cut = old[k] /\ k \in DOMAIN old
        /\ ts = SubSeq(TokensOf(cut), 1, from - cut.start)
    BY <1>2
  <2> HIDE DEF old, cut, ts
  <2> QED
    BY <1>1, <2>1, StraddlerEnded
<1>8. /\ r \in Ref /\ r.start = cut.start /\ r.end = from
      /\ r.block = cut.block /\ r.owner = cut.owner /\ r.valid = cut.valid
  <2>1. cut \in Ref
    BY <1>7 DEF EndedAt
  <2> HIDE DEF cut
  <2> QED
    BY <2>1 DEF Ref
<1>9. /\ m \in 0 .. Len(old) - 1 /\ cut = old[m + 1] /\ blocks[w].count = 1
      /\ TokensOf(cut) \in Seq(Nat)
  <2>1. k \in 1 .. Len(old) /\ Len(old) \in Nat
    BY <1>1, <1>2 DEF ListOK
  <2>2. TokensOf(old[k]) \in Seq(Nat)
    <3> HIDE DEF old
    <3> QED
      BY <1>1, <2>1, TextOfRef
  <2> QED
    BY <1>2, <1>5, <2>1, <2>2
<1> DEFINE more == <<ts>>
           n == m + 1
<1>10. /\ mid = Rewrite(blocks, w, ts) /\ w = cut.block /\ new = Ending(old, m, r)
       /\ more = <<ts>> /\ n = m + 1 /\ m <= n
  OBVIOUS
<1> HIDE DEF old, cut, w, ts, r, mid, new
<1>11. Rewrites(old, blocks, m, w, ts, r)
  BY <1>7, <1>8, <1>9, <1>10 DEF Rewrites, EndedAt
<1>12. /\ Replaced(blocks, blocks', old, new) /\ Validates(old, new, m + 1, "tentative")
       /\ Carries(old, blocks, new, blocks', m, <<ts>>)
  BY <1>1, <1>6, <1>10, <1>11, Truncates
<1> HIDE DEF more
<1>13. CutsAt(old, blocks, from, m, more)
  BY <1>7, <1>9, <1>10, CutInside
<1>14. CutsBack(s, from, new, n, m, more)
  BY <1>4, <1>6, <1>10, <1>12, <1>13 DEF CutsBack, old
<1> HIDE DEF n
<1> QED
  BY <1>3, <1>14, RollbackStep

LEMMA AfterHead ==
    ASSUME NEW old, old \in Seq(Ref), NEW m, m \in 0 .. Len(old) - 1
    PROVE  <<old[m + 1]>> \o After(old, m + 1) = After(old, m)
<1>1. m \in Nat /\ Len(old) \in Nat /\ m + 1 \in 1 .. Len(old)
      /\ Len(old) - m \in Nat /\ Len(old) - (m + 1) \in Nat
  OBVIOUS
<1>2. /\ After(old, m + 1) = [n \in 1 .. Len(old) - (m + 1) |-> old[m + 1 + n]]
      /\ After(old, m) = [n \in 1 .. Len(old) - m |-> old[m + n]]
  BY DEF After
<1>3. \A n \in 1 .. Len(old) - (m + 1) : old[m + 1 + n] \in Ref
  BY <1>1
<1>4. \A n \in 1 .. Len(old) - m : old[m + n] \in Ref
  BY <1>1
<1>5. After(old, m + 1) \in Seq(Ref) /\ Len(After(old, m + 1)) = Len(old) - (m + 1)
  <2> DEFINE L == Len(old) - (m + 1)
  <2>1. L \in Nat /\ After(old, m + 1) = [n \in 1 .. L |-> old[m + 1 + n]]
        /\ \A n \in 1 .. L : old[m + 1 + n] \in Ref
    BY <1>1, <1>2, <1>3
  <2> HIDE DEF L
  <2> DEFINE f == After(old, m + 1)
  <2>3. L \in Nat /\ f \in [1 .. L -> Ref]
    BY <2>1
  <2> HIDE DEF f
  <2>4. f \in Seq(Ref) /\ Len(f) = L
    BY <2>3
  <2>2. After(old, m + 1) \in Seq(Ref) /\ Len(After(old, m + 1)) = L
    BY <2>4 DEF f
  <2> QED
    BY <2>2 DEF L
<1>6. After(old, m) \in Seq(Ref) /\ Len(After(old, m)) = Len(old) - m
  BY <1>1, <1>2, <1>4
<1> DEFINE head == <<old[m + 1]>>
           tail == After(old, m + 1)
           all == head \o tail
<1>7. head \in Seq(Ref) /\ Len(head) = 1 /\ head[1] = old[m + 1]
  BY <1>1
<1> HIDE DEF head
<1>8. /\ all \in Seq(Ref) /\ Len(all) = 1 + Len(tail)
      /\ \A n \in 1 .. 1 + Len(tail) : all[n] = IF n <= 1 THEN head[n] ELSE tail[n - 1]
  <2>1. tail \in Seq(Ref)
    BY <1>5
  <2> HIDE DEF tail
  <2>2. head \in Seq(Ref) /\ Len(head) = 1
    BY <1>7
  <2>3. /\ all \in Seq(Ref) /\ Len(all) = Len(head) + Len(tail)
        /\ \A n \in 1 .. Len(head) + Len(tail) :
              all[n] = IF n <= Len(head) THEN head[n] ELSE tail[n - Len(head)]
    BY <2>1, <2>2, ConcatProperties
  <2> QED
    BY <2>2, <2>3
<1>9. ASSUME NEW n \in 1 .. Len(old) - m PROVE all[n] = After(old, m)[n]
  <2>1. n \in 1 .. 1 + Len(tail)
    BY <1>1, <1>5
  <2>2. After(old, m)[n] = old[m + n]
    BY <1>2
  <2>3. CASE n = 1
    BY <1>7, <1>8, <2>1, <2>2, <2>3
  <2>4. CASE n # 1
    <3>1. n - 1 \in 1 .. Len(old) - (m + 1) /\ m + 1 + (n - 1) = m + n /\ ~(n <= 1)
      BY <1>1, <2>4
    <3>2. all[n] = tail[n - 1]
      BY <1>8, <2>1, <3>1
    <3>3. tail[n - 1] = old[m + 1 + (n - 1)]
      BY <1>2, <3>1
    <3> QED
      BY <2>2, <3>1, <3>2, <3>3
  <2> QED
    BY <2>3, <2>4
<1>10. Len(all) = Len(old) - m
  BY <1>1, <1>5, <1>8
<1>11. all = After(old, m)
  <2> HIDE DEF all
  <2> QED
    BY <1>6, <1>8, <1>9, <1>10, SeqEqual
<1> QED
  BY <1>11 DEF head

LEMMA RollbackByCopyImplements ==
    ASSUME CacheInv, NEW s, s \in Owners, NEW from, from \in Nat, RollbackByCopy(s, from)
    PROVE  CacheInv' /\ Store!CutBack(s, from)
<1> DEFINE old == sessionRefs[s]
           ids == FreshIds(1)
<1>1. ListOK(old, blocks)
  BY SessionListOK
<1>2. PICK k \in DOMAIN old :
          /\ Straddles(old[k], from)
          /\ blocks' = Decref(Allocate(blocks, ids,
                                  <<SubSeq(TokensOf(old[k]), 1, from - old[k].start)>>),
                              <<old[k]>> \o Beyond(old, from))
          /\ sessionRefs' = [sessionRefs EXCEPT ![s] =
                 Append(Below(old, from), [old[k] EXCEPT !.end = from, !.block = ids[1]])]
  BY DEF RollbackByCopy
<1>3. branchRefs' = branchRefs /\ Available(1) /\ Rollback(s, from)
  BY DEF RollbackByCopy, Rollback
<1>4. PICK m \in Nat : Cutting(old, from, m)
  BY <1>1, RollbackCut
<1> DEFINE cut == old[k]
           ts == SubSeq(TokensOf(cut), 1, from - cut.start)
           r == [cut EXCEPT !.end = from, !.block = ids[1]]
           filling == <<ts>>
           mid == Allocate(blocks, ids, filling)
           new == Ending(old, m, r)
<1>5. k = m + 1 /\ Below(old, from) = SubSeq(old, 1, m) /\ Beyond(old, from) = After(old, m + 1)
  BY <1>2, <1>4 DEF Cutting
<1>6. EndedAt(cut, from, ts)
  <2>1. Straddles(cut, from) /\ cut = old[k] /\ k \in DOMAIN old
        /\ ts = SubSeq(TokensOf(cut), 1, from - cut.start)
    BY <1>2
  <2> HIDE DEF old, cut, ts
  <2> QED
    BY <1>1, <2>1, StraddlerEnded
<1>7. FreshFor(ids, blocks) /\ Len(ids) = 1 /\ ids[1] \in BlockIds
  <2>1. PoolOK(blocks) /\ 1 \in Nat
    BY DEF CacheInv
  <2>2. FreshFor(ids, blocks) /\ Len(ids) = 1
    BY <1>3, <2>1, FreshIdsAreFresh
  <2> HIDE DEF ids
  <2>3. ids \in Seq(BlockIds) /\ 1 \in 1 .. Len(ids)
    BY <2>2 DEF FreshFor
  <2>4. ids[1] \in BlockIds
    BY <2>3
  <2> QED
    BY <2>2, <2>4
<1>8. /\ m \in 0 .. Len(old) - 1 /\ cut = old[m + 1] /\ old \in Seq(Ref)
      /\ TokensOf(cut) \in Seq(Nat)
  <2>1. k \in 1 .. Len(old) /\ Len(old) \in Nat
    BY <1>1, <1>2 DEF ListOK
  <2>2. TokensOf(old[k]) \in Seq(Nat)
    <3> HIDE DEF old
    <3> QED
      BY <1>1, <2>1, TextOfRef
  <2> QED
    BY <1>1, <1>2, <1>5, <2>1, <2>2 DEF ListOK
<1>9. blocks' = Decref(mid, After(old, m)) /\ SessionBecomes(s, new)
  <2>1. <<cut>> \o After(old, m + 1) = After(old, m)
    BY <1>8, AfterHead
  <2>2. blocks' = Decref(mid, <<cut>> \o After(old, m + 1))
    BY <1>2, <1>5
  <2>3. SessionBecomes(s, new)
    BY <1>2, <1>3, <1>5 DEF SessionBecomes, Ending
  <2> QED
    BY <2>1, <2>2, <2>3, Zenon
<1>10. /\ r \in Ref /\ r.start = cut.start /\ r.end = from
       /\ r.block = ids[1] /\ r.valid = cut.valid
  <2> DEFINE i == ids[1]
  <2>1. cut \in Ref /\ i \in BlockIds
    BY <1>6, <1>7 DEF EndedAt
  <2>2. r = [cut EXCEPT !.end = from, !.block = i]
    OBVIOUS
  <2> HIDE DEF cut, i, r
  <2>3. /\ r \in Ref /\ r.start = cut.start /\ r.end = from
        /\ r.block = i /\ r.valid = cut.valid
    BY <2>1, <2>2 DEF Ref
  <2> QED
    BY <2>3 DEF i
<1> DEFINE n == m + 1
<1>11. /\ mid = Allocate(blocks, ids, filling) /\ new = Ending(old, m, r)
       /\ filling = <<ts>> /\ n = m + 1 /\ m <= n
  OBVIOUS
<1>12. Stored(ids, filling, ts, <<>>)
  <2>1. ts \in Seq(Nat)
    BY <1>6 DEF EndedAt
  <2> HIDE DEF ids, ts
  <2>2. filling[1] = ts /\ filling \in Seq(Seq(Nat)) /\ Len(filling) = 1
    BY <2>1
  <2> HIDE DEF filling
  <2>3. <<>> \in Seq(Seq(Nat)) /\ Len(<<>>) = 0
    BY EmptySeq
  <2>4. 1 .. 0 = {}
    OBVIOUS
  <2> QED
    BY <1>7, <2>2, <2>3, <2>4 DEF Stored, Cut, Prepended
<1> HIDE DEF old, ids, cut, ts, r, filling, mid, new
<1>13. Copies(old, m, ids[1], ts, r)
  BY <1>6, <1>8, <1>10 DEF Copies, EndedAt
<1>14. Len(<<>>) = 0
  OBVIOUS
<1>15. /\ Replaced(blocks, blocks', old, new) /\ Validates(old, new, m + 1, "tentative")
       /\ Carries(old, blocks, new, blocks', m, <<ts>>)
  BY <1>1, <1>7, <1>9, <1>11, <1>12, <1>13, <1>14, CutsByCopy
<1>16. CutsAt(old, blocks, from, m, filling)
  BY <1>6, <1>8, <1>11, CutInside
<1>17. CutsBack(s, from, new, n, m, filling)
  BY <1>4, <1>9, <1>11, <1>15, <1>16 DEF CutsBack, old
<1> HIDE DEF n
<1> QED
  BY <1>3, <1>17, RollbackStep

LEMMA CommitTentativeImplements ==
    ASSUME CacheInv, NEW s, s \in Owners, CommitTentative(s)
    PROVE  CacheInv' /\ Store!CommitAll(s)
<1> DEFINE old == sessionRefs[s]
           new == [k \in DOMAIN old |-> [old[k] EXCEPT !.valid = "committed"]]
<1>1. ListOK(old, blocks)
  BY SessionListOK
<1>2. old \in Seq(Ref) /\ Len(old) \in Nat /\ DOMAIN old = 1 .. Len(old)
  BY <1>1 DEF ListOK
<1>3. SessionBecomes(s, new) /\ blocks' = blocks
  BY DEF CommitTentative, SessionBecomes
<1> HIDE DEF old
<1>4. ASSUME NEW k \in 1 .. Len(old)
      PROVE  /\ new[k] \in Ref /\ new[k].start = old[k].start /\ new[k].end = old[k].end
             /\ new[k].block = old[k].block /\ new[k].owner = old[k].owner
             /\ new[k].valid = "committed"
  <2>1. new[k] = [old[k] EXCEPT !.valid = "committed"] /\ old[k] \in Ref
    BY <1>2
  <2> HIDE DEF new
  <2> QED
    BY <2>1 DEF Ref, Validity
<1>5. new \in Seq(Ref) /\ Len(new) = Len(old)
  <2>1. new \in [1 .. Len(old) -> Ref]
    BY <1>2, <1>4
  <2> HIDE DEF new
  <2> QED
    BY <1>2, <2>1
<1> HIDE DEF new
<1>6. Relabels(old, new)
  BY <1>4, <1>5 DEF Relabels
<1>7. Replaced(blocks, blocks', old, new)
  BY <1>1, <1>3, <1>6, RelabelReplaces
<1>8. FirmFirst(new)
  <2>1. \A k \in 2 .. Len(new) : k - 1 \in 1 .. Len(old)
    BY <1>2, <1>5
  <2> QED
    BY <1>4, <2>1 DEF FirmFirst
<1>9. CacheInv' /\ OnlySession(s, new)
  BY <1>3, <1>7, <1>8, SessionStep DEF old
<1>10. Reads(new, blocks') = Reads(old, blocks)
  <2>1. DOMAIN new = DOMAIN old /\ \A k \in DOMAIN old : new[k].block = old[k].block
    BY <1>2, <1>4, <1>5
  <2>2. Texts(new, blocks') = Texts(old, blocks)
    BY <1>3, <2>1 DEF Texts
  <2> QED
    BY <2>2 DEF Reads
<1>11. CommittedEnd(new) = End(old)
  <2> DEFINE L == Len(new)
  <2>1. Readable(new, blocks') /\ L \in 0 .. Len(new) /\ L = Len(old)
    BY <1>2, <1>5, <1>7, ReplacedReadable
  <2>2. FirmAre(new, L)
    BY <1>2, <1>4, <1>5 DEF FirmAre
  <2> HIDE DEF L
  <2>3. CommittedEnd(new) = IF L = 0 THEN 0 ELSE new[L].end
    BY <2>1, <2>2, CommittedEndIs
  <2>4. End(old) = IF L = 0 THEN 0 ELSE old[L].end
    BY <1>2, <2>1, EmptySeq DEF End, Last
  <2>5. L # 0 => new[L].end = old[L].end
    BY <1>2, <1>4, <2>1
  <2> QED
    BY <2>3, <2>4, <2>5
<1> DEFINE text == Reads(new, blocks')
           end == CommittedEnd(new)
<1>12. text = Reads(new, blocks') /\ end = CommittedEnd(new)
  OBVIOUS
<1>13. text = Reads(sessionRefs[s], blocks) /\ end = End(sessionRefs[s])
  BY <1>10, <1>11 DEF old
<1> HIDE DEF text, end
<1>14. SessionShows(s, text, end)
  BY <1>9, <1>12, SessionShown
<1> QED
  BY <1>9, <1>13, <1>14, ShowsCommit

-----------------------------------------------------------------------------
(***************************************************************************)
(* fork_branch                                                             *)
(***************************************************************************)

\* The first m references of a list, as shared ones, and the pool that counts them.
Lends(refs, m, new, pool, next) ==
    /\ m \in 0 .. Len(refs) /\ new \in Seq(Ref) /\ Len(new) = m
    /\ \A k \in 1 .. m : /\ new[k].block = refs[k].block
                         /\ new[k].start = refs[k].start
                         /\ new[k].end = refs[k].end
                         /\ new[k].owner = "shared"
    /\ DOMAIN next = DOMAIN pool
    /\ \A i \in DOMAIN pool : /\ next[i].tokens = pool[i].tokens
                              /\ next[i].count = pool[i].count + Lent(refs, m, i)
    /\ PoolOK(next)

LEMMA ForkStep ==
    ASSUME CacheInv, NEW b, b \in BranchIds, b \notin DOMAIN branchRefs,
           NEW s, s \in Owners, NEW new, NEW m,
           Lends(sessionRefs[s], m, new, blocks, blocks'), BranchBecomes(b, new)
    PROVE  CacheInv' /\ OnlyBranch(b, new) /\ Tiled(new, blocks')
<1>1. TypedLists(sessionRefs, branchRefs)
  BY DEF CacheInv
<1>2. TypedLists(sessionRefs', branchRefs') /\ sessionRefs' = sessionRefs
  BY DEF BranchBecomes
<1> DEFINE table == TableOf(sessionRefs, branchRefs)
           changed == TableOf(sessionRefs', branchRefs')
           l == <<"branch", b>>
           src == <<"session", s>>
<1>3. /\ table \in [AllLists -> Seq(Ref)]
      /\ \A t \in Owners : <<"session", t>> \in AllLists /\ table[<<"session", t>>] = sessionRefs[t]
      /\ \A c \in BranchIds : /\ <<"branch", c>> \in AllLists
                              /\ table[<<"branch", c>>] =
                                    IF c \in DOMAIN branchRefs THEN branchRefs[c] ELSE <<>>
      /\ \A n \in AllLists : \/ \E t \in Owners : n = <<"session", t>>
                             \/ \E c \in BranchIds : n = <<"branch", c>>
  BY <1>1, TableFacts
<1>4. /\ changed \in [AllLists -> Seq(Ref)]
      /\ \A t \in Owners : changed[<<"session", t>>] = sessionRefs'[t]
      /\ \A c \in BranchIds : changed[<<"branch", c>>] =
                                  IF c \in DOMAIN branchRefs' THEN branchRefs'[c] ELSE <<>>
  BY <1>2, TableFacts
<1>5. Sound(table, blocks)
  BY DEF CacheInv
<1>6. l \in AllLists /\ src \in AllLists /\ src[1] # "branch"
      /\ table[l] = <<>> /\ table[src] = sessionRefs[s] /\ changed[l] = new
  <2>1. changed[l] = new
    BY <1>4 DEF BranchBecomes
  <2> QED
    BY <1>3, <2>1
<1> HIDE DEF table, changed
<1>7. ASSUME NEW n \in AllLists, n # l PROVE changed[n] = table[n]
  <2>1. CASE \E t \in Owners : n = <<"session", t>>
    BY <1>2, <1>3, <1>4, <2>1
  <2>2. CASE \E c \in BranchIds : n = <<"branch", c>>
    <3>1. PICK c \in BranchIds : n = <<"branch", c>>
      BY <2>2
    <3>2. c # b
      BY <1>7, <3>1
    <3> QED
      BY <1>3, <1>4, <3>1, <3>2 DEF BranchBecomes
  <2> QED
    BY <1>3, <2>1, <2>2
<1> HIDE DEF l, src
<1>8. Forks(AllLists, table, changed, l, src, blocks, blocks', m)
  BY <1>3, <1>4, <1>6, <1>7 DEF Forks, Lends
<1>9. Sound(changed, blocks')
  <2>1. Counted(table, blocks) /\ Laid(table, blocks) /\ Sole(table)
    BY <1>5 DEF Sound
  <2>2. Counted(changed, blocks')
    BY <1>8, <2>1, ForkedCounted
  <2>3. Laid(changed, blocks')
    BY <1>8, <2>1, ForkedLaid
  <2>4. Sole(changed)
    BY <1>8, <2>1, ForkedSole
  <2> QED
    BY <2>2, <2>3, <2>4 DEF Sound
<1>10. \A t \in Owners : FirmFirst(sessionRefs'[t])
  BY <1>2 DEF CacheInv
<1>11. CacheInv'
  BY <1>2, <1>9, <1>10 DEF CacheInv, changed, Lends
<1>12. ASSUME NEW n \in AllLists PROVE Untouched(table[n], blocks, blocks')
  <2>1. Counted(table, blocks) /\ DOMAIN table = AllLists
    BY <1>3, <1>5 DEF Sound
  <2>2. \A k \in 1 .. Len(table[n]) : table[n][k].block \in DOMAIN blocks
    BY <2>1 DEF Counted
  <2> QED
    BY <2>2 DEF Untouched, Lends
<1>13. OnlyBranch(b, new)
  <2>1. \A t \in Owners : Untouched(sessionRefs[t], blocks, blocks')
    BY <1>3, <1>12
  <2>2. \A c \in DOMAIN branchRefs : c \in BranchIds
    BY <1>1 DEF TypedLists
  <2>3. \A c \in DOMAIN branchRefs : Untouched(branchRefs[c], blocks, blocks')
    BY <1>3, <1>12, <2>2
  <2> QED
    BY <2>1, <2>3 DEF OnlyBranch
<1>14. Tiled(new, blocks')
  BY <1>4, <1>6, <1>9 DEF Sound, Laid
<1> QED
  BY <1>11, <1>13, <1>14

\* What a branch reads that was lent the first m references of a list.
LEMMA LentReads ==
    ASSUME NEW refs, ListOK(refs, blocks), NEW m, NEW new, Tiled(new, blocks'),
           Lends(refs, m, new, blocks, blocks')
    PROVE  Readable(new, blocks') /\ Carries(refs, blocks, new, blocks', m, <<>>)
<1>1. /\ m \in 0 .. Len(refs) /\ new \in Seq(Ref) /\ Len(new) = m
      /\ \A k \in 1 .. m : new[k].block = refs[k].block
      /\ \A i \in DOMAIN blocks : blocks'[i].tokens = blocks[i].tokens
      /\ PoolOK(blocks')
  BY DEF Lends
<1>2. /\ Len(refs) \in Nat
      /\ \A k \in 1 .. Len(refs) : refs[k].block \in DOMAIN blocks
  BY DEF ListOK, Tiled
<1>3. Readable(new, blocks')
  BY <1>1 DEF Readable
<1>4. \A k \in 1 .. m : blocks'[new[k].block].tokens = blocks[refs[k].block].tokens
  BY <1>1, <1>2
<1>5. <<>> \in Seq(Seq(Nat)) /\ Len(<<>>) = 0 /\ 1 .. 0 = {} /\ m = m + 0
  BY <1>1, EmptySeq
<1> QED
  BY <1>1, <1>3, <1>4, <1>5 DEF Carries

LEMMA FirmReads ==
    ASSUME NEW refs, ListOK(refs, blocks), NEW m, FirmAre(refs, m), NEW new,
           NEW next, Readable(new, next), NEW more, more = <<>>, Carries(refs, blocks, new, next, m, more),
           NEW end, end = CommittedEnd(refs)
    PROVE  Reads(new, next) = SubSeq(Reads(refs, blocks), 1, end)
<1>1. /\ Readable(refs, blocks) /\ Reads(refs, blocks) \in Seq(Nat)
      /\ Len(Reads(refs, blocks)) = End(refs)
  BY ListReads
<1>2. /\ refs \in Seq(Ref) /\ Len(refs) \in Nat /\ Tiled(refs, blocks) /\ PoolOK(blocks)
      /\ m \in 0 .. Len(refs)
  BY DEF ListOK, Carries
<1>3. end = IF m = 0 THEN 0 ELSE refs[m].end
  BY <1>1, <1>2, CommittedEndIs
<1>4. CASE m = Len(refs)
  <2>1. Reads(new, next) = Reads(refs, blocks)
    BY <1>1, <1>4, ReadsKept
  <2>2. end = End(refs)
    BY <1>2, <1>3, <1>4, EmptySeq DEF End, Last
  <2> DEFINE text == Reads(refs, blocks)
  <2>3. text \in Seq(Nat) /\ Len(text) = end
    BY <1>1, <2>2
  <2> HIDE DEF text
  <2>4. SubSeq(text, 1, Len(text)) = text
    BY <2>3, SubSeqFull
  <2> QED
    BY <2>1, <2>3, <2>4 DEF text
<1>5. CASE m # Len(refs)
  <2>1. /\ m \in 0 .. Len(refs) - 1 /\ m + 1 \in 1 .. Len(refs)
        /\ (m + 1 = 1 <=> m = 0) /\ (m + 1) - 1 = m
    BY <1>2, <1>5
  <2>2. refs[m + 1].start = IF m = 0 THEN 0 ELSE refs[m].end
    BY <1>2, <2>1 DEF Tiled
  <2>3. refs[m + 1].start \in Nat
    BY <1>2, <2>1, RefFields
  <2>4. end = refs[m + 1].start + 0
    BY <1>3, <2>2, <2>3
  <2>5. 0 \in 0 .. Len(blocks[refs[m + 1].block].tokens)
    <3>1. blocks[refs[m + 1].block].tokens \in Seq(Nat)
      BY <1>2, <2>1 DEF Tiled, PoolOK, Block
    <3> QED
      BY <3>1
  <2>6. CutsAt(refs, blocks, end, m, more)
    BY <2>1, <2>4, <2>5 DEF CutsAt
  <2> QED
    BY <1>1, <2>6, ReadsCut
<1> QED
  BY <1>4, <1>5

LEMMA ForkBranchImplements ==
    ASSUME CacheInv, NEW b, b \in BranchIds, NEW s, s \in Owners, NEW tail, tail \in BOOLEAN,
           ForkBranch(b, s, tail)
    PROVE  CacheInv' /\ Store!Copy(b, s, tail)
<1> DEFINE refs == sessionRefs[s]
           firm == {k \in DOMAIN refs : tail \/ refs[k].valid = "committed"}
           source == Kept(refs, firm)
           new == Shared(source)
<1>1. /\ b \notin DOMAIN branchRefs /\ blocks' = Incref(blocks, source)
      /\ branchRefs' = [c \in DOMAIN branchRefs \cup {b} |-> IF c # b THEN branchRefs[c] ELSE new]
      /\ sessionRefs' = sessionRefs
  BY DEF ForkBranch
<1>2. /\ PoolOK(blocks) /\ TypedLists(sessionRefs, branchRefs)
      /\ refs \in Seq(Ref) /\ Len(refs) \in Nat /\ FirmFirst(refs)
  BY DEF CacheInv, TypedLists
<1>3. PICK m \in 0 .. Len(refs) : firm = 1 .. m
  BY <1>2, CommittedArePrefix
<1>4. tail => m = Len(refs)
  <2>1. DOMAIN refs = 1 .. Len(refs)
    BY <1>2
  <2>2. ASSUME tail PROVE 1 .. m = 1 .. Len(refs)
    BY <1>3, <2>1, <2>2
  <2> QED
    BY <1>2, <1>3, <2>2
<1>5. ~tail => FirmAre(refs, m)
  BY <1>3 DEF FirmAre
<1> HIDE DEF firm
<1>6. m \in Nat /\ \A k \in 1 .. m : k \in 1 .. Len(refs) /\ refs[k] \in Ref
  BY <1>2, <1>3
<1> HIDE DEF refs
<1>7. source = [k \in 1 .. m |-> refs[k]]
  BY <1>3, <1>6, KeptPrefix
<1>8. DOMAIN source = 1 .. m /\ \A k \in 1 .. m : source[k] = refs[k]
  BY <1>7
<1> HIDE DEF source
<1>9. ASSUME NEW k \in 1 .. m
      PROVE  /\ new[k] \in Ref /\ new[k].block = refs[k].block
             /\ new[k].start = refs[k].start /\ new[k].end = refs[k].end
             /\ new[k].owner = "shared"
  <2>1. new[k] = [refs[k] EXCEPT !.owner = "shared"] /\ refs[k] \in Ref
    BY <1>6, <1>8 DEF Shared
  <2> HIDE DEF new
  <2> QED
    BY <2>1 DEF Ref, Ownership
<1>10. new \in Seq(Ref) /\ Len(new) = m
  <2>1. new \in [1 .. m -> Ref]
    <3>1. DOMAIN new = 1 .. m /\ new = [k \in 1 .. m |-> new[k]]
      BY <1>8 DEF Shared
    <3> HIDE DEF new
    <3> QED
      BY <1>9, <3>1
  <2> HIDE DEF new
  <2> QED
    BY <1>6, <2>1
<1> HIDE DEF new
<1>11. BranchBecomes(b, new)
  <2>1. TypedLists(sessionRefs', branchRefs')
    BY <1>1, <1>2, <1>10 DEF TypedLists
  <2> QED
    BY <1>1, <2>1 DEF BranchBecomes
<1>12. /\ DOMAIN blocks' = DOMAIN blocks
       /\ \A i \in DOMAIN blocks : /\ blocks'[i].tokens = blocks[i].tokens
                                   /\ blocks'[i].count = blocks[i].count + Lent(refs, m, i)
       /\ PoolOK(blocks')
  BY <1>1, <1>2, <1>6, <1>8, IncrefProperties
<1>13. Lends(refs, m, new, blocks, blocks')
  BY <1>3, <1>9, <1>10, <1>12 DEF Lends
<1>14. Lends(sessionRefs[s], m, new, blocks, blocks')
  BY <1>13 DEF refs
<1>15. CacheInv' /\ OnlyBranch(b, new) /\ Tiled(new, blocks')
  BY <1>1, <1>11, <1>14, ForkStep
<1>16. ListOK(refs, blocks)
  BY SessionListOK DEF refs
<1> DEFINE more == <<>>
<1>17. Readable(new, blocks') /\ Carries(refs, blocks, new, blocks', m, more)
  BY <1>13, <1>15, <1>16, LentReads
<1>18. more = <<>>
  OBVIOUS
<1> HIDE DEF more
<1> DEFINE text == Reads(new, blocks')
<1>19. text = Reads(new, blocks')
  OBVIOUS
<1>20. tail => text = Reads(refs, blocks)
  <2>1. Readable(refs, blocks)
    BY <1>16, ListReads
  <2> QED
    BY <1>4, <1>17, <1>18, <2>1, ReadsKept
<1> DEFINE end == CommittedEnd(refs)
<1>21. end = CommittedEnd(refs)
  OBVIOUS
<1> HIDE DEF end
<1>22. ~tail => text = SubSeq(Reads(refs, blocks), 1, end)
  BY <1>5, <1>16, <1>17, <1>18, <1>21, FirmReads
<1> HIDE DEF text
<1>23. BranchShows(b, text)
  BY <1>15, <1>19, BranchShown
<1>24. text = IF tail THEN Reads(sessionRefs[s], blocks)
              ELSE SubSeq(Reads(sessionRefs[s], blocks), 1, CommittedEnd(sessionRefs[s]))
  BY <1>20, <1>21, <1>22 DEF refs
<1>25. DOMAIN branchRefs' = DOMAIN branchRefs \cup {b}
  BY <1>1
<1> QED
  BY <1>1, <1>15, <1>23, <1>24, <1>25, ShowsCopy

-----------------------------------------------------------------------------
(***************************************************************************)
(* The theorems                                                            *)
(***************************************************************************)

LEMMA InitCacheInv == CacheInit => CacheInv
<1> SUFFICES ASSUME CacheInit PROVE CacheInv
  OBVIOUS
<1>1. /\ blocks = <<>> /\ branchRefs = <<>> /\ sessionRefs = [s \in Owners |-> <<>>]
  BY DEF CacheInit
<1>2. DOMAIN blocks = {} /\ DOMAIN branchRefs = {}
  BY <1>1
<1>3. PoolOK(blocks)
  BY <1>2 DEF PoolOK
<1>4. <<>> \in Seq(Ref) /\ Len(<<>>) = 0 /\ \A i : i \notin 1 .. 0
  BY EmptySeq
<1>5. TypedLists(sessionRefs, branchRefs)
  <2>1. branchRefs \in [DOMAIN branchRefs -> Seq(Ref)]
    BY <1>1, <1>2
  <2>2. sessionRefs \in [Owners -> Seq(Ref)]
    BY <1>1, <1>4
  <2> QED
    BY <1>2, <2>1, <2>2 DEF TypedLists
<1> DEFINE table == TableOf(sessionRefs, branchRefs)
<1>6. /\ table \in [AllLists -> Seq(Ref)]
      /\ \A s \in Owners : table[<<"session", s>>] = sessionRefs[s]
      /\ \A b \in BranchIds : table[<<"branch", b>>] =
             IF b \in DOMAIN branchRefs THEN branchRefs[b] ELSE <<>>
      /\ \A l \in AllLists : \/ \E s \in Owners : l = <<"session", s>>
                             \/ \E b \in BranchIds : l = <<"branch", b>>
  BY <1>5, TableFacts
<1> HIDE DEF table
<1>7. ASSUME NEW l \in AllLists PROVE Len(table[l]) = 0
  <2>1. table[l] = <<>>
    <3>1. CASE \E s \in Owners : l = <<"session", s>>
      BY <1>1, <1>6, <3>1
    <3>2. CASE \E b \in BranchIds : l = <<"branch", b>>
      BY <1>2, <1>6, <3>2
    <3> QED
      BY <1>6, <3>1, <3>2
  <2> QED
    BY <1>4, <2>1
<1>8. DOMAIN table = AllLists
  BY <1>6
<1>9. Counted(table, blocks) /\ Laid(table, blocks) /\ Sole(table)
  BY <1>2, <1>4, <1>7, <1>8 DEF Counted, Laid, Sole, Tiled
<1>10. \A s \in Owners : FirmFirst(sessionRefs[s])
  <2>1. \A s \in Owners : Len(sessionRefs[s]) = 0
    BY <1>1, <1>4
  <2>2. \A k : k \notin 2 .. 0
    OBVIOUS
  <2> QED
    BY <2>1, <2>2 DEF FirmFirst
<1> QED
  BY <1>3, <1>5, <1>9, <1>10 DEF CacheInv, Sound, table

LEMMA SessionImplements ==
    ASSUME CacheInv, NEW s, s \in Owners,
           \/ \E ts \in Inputs : \/ AppendNewBlocks(s, ts)
                                 \/ AppendInPlace(s, ts)
                                 \/ AppendByCopy(s, ts)
           \/ \E from \in 0 .. MaxTokens : \/ RollbackBetweenBlocks(s, from)
                                           \/ RollbackByTruncation(s, from)
                                           \/ RollbackByCopy(s, from)
           \/ CommitTentative(s)
    PROVE  CacheInv' /\ Store!StoreNext
<1>1. CASE \E ts \in Inputs : \/ AppendNewBlocks(s, ts)
                              \/ AppendInPlace(s, ts)
                              \/ AppendByCopy(s, ts)
  BY <1>1, AppendNewBlocksImplements, AppendInPlaceImplements, AppendByCopyImplements DEF Store!StoreNext
<1>2. CASE \E from \in 0 .. MaxTokens : \/ RollbackBetweenBlocks(s, from)
                                        \/ RollbackByTruncation(s, from)
                                        \/ RollbackByCopy(s, from)
  <2>1. PICK from \in 0 .. MaxTokens : \/ RollbackBetweenBlocks(s, from)
                                       \/ RollbackByTruncation(s, from)
                                       \/ RollbackByCopy(s, from)
    BY <1>2
  <2>2. from \in Nat
    BY CacheAssumption
  <2> QED
    BY <2>1, <2>2, RollbackBetweenBlocksImplements, RollbackByTruncationImplements,
       RollbackByCopyImplements DEF Store!StoreNext
<1>3. CASE CommitTentative(s)
  BY <1>3, CommitTentativeImplements DEF Store!StoreNext
<1> QED
  BY <1>1, <1>2, <1>3

LEMMA BranchImplements ==
    ASSUME CacheInv, NEW b, b \in BranchIds,
           \/ \E s \in Owners, tail \in BOOLEAN : ForkBranch(b, s, tail)
           \/ \E ts \in Inputs : \/ BranchNewBlocks(b, ts)
                                 \/ BranchInPlace(b, ts)
                                 \/ BranchByCopy(b, ts)
           \/ ReleaseBranch(b)
    PROVE  CacheInv' /\ Store!StoreNext
<1>1. CASE \E s \in Owners, tail \in BOOLEAN : ForkBranch(b, s, tail)
  BY <1>1, ForkBranchImplements DEF Store!StoreNext
<1>2. CASE \E ts \in Inputs : \/ BranchNewBlocks(b, ts)
                              \/ BranchInPlace(b, ts)
                              \/ BranchByCopy(b, ts)
  BY <1>2, BranchNewBlocksImplements, BranchInPlaceImplements, BranchByCopyImplements DEF Store!StoreNext
<1>3. CASE ReleaseBranch(b)
  BY <1>3, ReleaseBranchImplements DEF Store!StoreNext
<1> QED
  BY <1>1, <1>2, <1>3

LEMMA StutterImplements ==
    ASSUME CacheInv, UNCHANGED cacheVars
    PROVE  CacheInv' /\ UNCHANGED Store!storeVars
<1>1. blocks' = blocks /\ sessionRefs' = sessionRefs /\ branchRefs' = branchRefs
  BY DEF cacheVars
<1>2. PoolOK(blocks') /\ TypedLists(sessionRefs', branchRefs')
  BY <1>1 DEF CacheInv
<1>3. Sound(TableOf(sessionRefs', branchRefs'), blocks')
  BY <1>1 DEF CacheInv
<1>4. \A s \in Owners : FirmFirst(sessionRefs'[s])
  BY <1>1 DEF CacheInv
<1>5. SessionTexts' = SessionTexts /\ SessionFirm' = SessionFirm /\ BranchTexts' = BranchTexts
  BY <1>1, TextsRead DEF SessionFirm
<1>6. UNCHANGED Store!storeVars
  BY <1>5 DEF Store!storeVars, SessionTexts, SessionFirm, BranchTexts
<1> QED
  BY <1>2, <1>3, <1>4, <1>6 DEF CacheInv

LEMMA NextImplements ==
    CacheInv /\ [CacheNext]_cacheVars => CacheInv' /\ [Store!StoreNext]_(Store!storeVars)
<1> SUFFICES ASSUME CacheInv, [CacheNext]_cacheVars
             PROVE  CacheInv' /\ [Store!StoreNext]_(Store!storeVars)
  OBVIOUS
<1>1. CASE CacheNext
  BY <1>1, SessionImplements, BranchImplements DEF CacheNext
<1>2. CASE UNCHANGED cacheVars
  BY <1>2, StutterImplements
<1> QED
  BY <1>1, <1>2

(***************************************************************************)
(* The pool and every list of references stay right together: the counts   *)
(* are those of the references there are, the references of every list     *)
(* tile it, the committed ones of a session come first, and a block a      *)
(* branch may write to is nobody else's.                                   *)
(***************************************************************************)
THEOREM CacheInvHolds == CacheSpec => []CacheInv
BY InitCacheInv, NextImplements, PTL DEF CacheSpec

LEMMA InitImplements == CacheInit => Store!StoreInit
<1> SUFFICES ASSUME CacheInit PROVE Store!StoreInit
  OBVIOUS
<1>1. /\ blocks = <<>> /\ branchRefs = <<>> /\ sessionRefs = [s \in Owners |-> <<>>]
  BY DEF CacheInit
<1>2. SessionTexts = [s \in Owners |-> <<>>]
  <2>1. Texts(<<>>, blocks) = <<>>
    BY DEF Texts
  <2>2. Reads(<<>>, blocks) = <<>>
    BY <2>1, FlattenEmpty DEF Reads
  <2> QED
    BY <1>1, <2>2, TextsRead
<1>3. SessionFirm = [s \in Owners |-> 0]
  <2>1. CommittedEnd(<<>>) = 0
    BY DEF CommittedEnd
  <2> QED
    BY <1>1, <2>1 DEF SessionFirm
<1>4. BranchTexts = <<>>
  BY <1>1 DEF BranchTexts
<1> QED
  BY <1>2, <1>3, <1>4 DEF Store!StoreInit, SessionTexts, SessionFirm, BranchTexts

(***************************************************************************)
(* VersionedKVManager keeps every session and every branch a token         *)
(* sequence of its own: read through the references, appending, rolling    *)
(* back, committing, forking and releasing are what TokenStore does, and   *)
(* sharing, copying, truncating and freeing blocks are invisible.          *)
(***************************************************************************)
THEOREM CacheIsTokenStore == CacheSpec => ImplementsTokenStore
BY InitImplements, InitCacheInv, NextImplements, PTL DEF CacheSpec, ImplementsTokenStore, Store!StoreSpec

LEMMA InvTypeOK == CacheInv => CacheTypeOK
BY DEF CacheInv, CacheTypeOK, PoolOK, TypedLists

(***************************************************************************)
(* Blocks and references keep their types; no block is empty, fuller than  *)
(* block_size or kept with a count of zero (BlockPool).                    *)
(***************************************************************************)
THEOREM CacheTypes == CacheSpec => []CacheTypeOK
BY CacheInvHolds, InvTypeOK, PTL

LEMMA ListNames ==
    ASSUME CacheInv, NEW table, table = TableOf(sessionRefs, branchRefs), NEW l
    PROVE  /\ l \in Lists => l \in AllLists /\ RefsOf(l) = table[l]
           /\ l \in AllLists /\ l \notin Lists => table[l] = <<>>
           /\ l \in Lists => RefsOf(l) \in Seq(Ref) /\ Tiled(RefsOf(l), blocks)
<1>1. TypedLists(sessionRefs, branchRefs) /\ Laid(table, blocks)
  BY DEF CacheInv, Sound
<1>2. /\ table \in [AllLists -> Seq(Ref)]
      /\ \A s \in Owners : <<"session", s>> \in AllLists /\ table[<<"session", s>>] = sessionRefs[s]
      /\ \A b \in BranchIds : /\ <<"branch", b>> \in AllLists
                              /\ table[<<"branch", b>>] =
                                    IF b \in DOMAIN branchRefs THEN branchRefs[b] ELSE <<>>
      /\ \A n \in AllLists : \/ \E s \in Owners : n = <<"session", s>>
                             \/ \E b \in BranchIds : n = <<"branch", b>>
  BY <1>1, TableFacts
<1>3. DOMAIN branchRefs \subseteq BranchIds
  BY <1>1 DEF TypedLists
<1>4. ASSUME l \in Lists PROVE l \in AllLists /\ RefsOf(l) = table[l]
  <2>1. CASE \E s \in Owners : l = <<"session", s>>
    <3>1. PICK s \in Owners : l = <<"session", s>>
      BY <2>1
    <3>2. RefsOf(l) = sessionRefs[s]
      BY <3>1 DEF RefsOf
    <3> QED
      BY <1>2, <3>1, <3>2
  <2>2. CASE \E b \in DOMAIN branchRefs : l = <<"branch", b>>
    <3>1. PICK b \in DOMAIN branchRefs : l = <<"branch", b>>
      BY <2>2
    <3>2. RefsOf(l) = branchRefs[b]
      BY <3>1 DEF RefsOf
    <3> QED
      BY <1>2, <1>3, <3>1, <3>2
  <2> QED
    BY <1>4, <2>1, <2>2 DEF Lists
<1>5. ASSUME l \in AllLists, l \notin Lists PROVE table[l] = <<>>
  <2>1. ~ \E s \in Owners : l = <<"session", s>>
    BY <1>5 DEF Lists
  <2>2. PICK b \in BranchIds : l = <<"branch", b>>
    BY <1>2, <1>5, <2>1
  <2>3. b \notin DOMAIN branchRefs
    BY <1>5, <2>2 DEF Lists
  <2> QED
    BY <1>2, <2>2, <2>3
<1>6. ASSUME l \in Lists PROVE RefsOf(l) \in Seq(Ref) /\ Tiled(RefsOf(l), blocks)
  BY <1>1, <1>2, <1>4, <1>6 DEF Laid
<1> QED
  BY <1>4, <1>5, <1>6

LEMMA InvRefsTile == CacheInv => RefsTile
<1> SUFFICES ASSUME CacheInv, NEW l \in Lists
             PROVE  LET refs == RefsOf(l)
                    IN  /\ refs # <<>> => refs[1].start = 0
                        /\ \A k \in DOMAIN refs :
                              /\ refs[k].end - refs[k].start = Len(TokensOf(refs[k]))
                              /\ k > 1 => refs[k].start = refs[k - 1].end
                              /\ l[1] = "session" /\ k > 1 /\ refs[k].valid = "committed" =>
                                    refs[k - 1].valid = "committed"
  BY Zenon DEF RefsTile
<1> DEFINE refs == RefsOf(l)
<1>1. refs \in Seq(Ref) /\ Tiled(refs, blocks)
  BY ListNames
<1>2. l[1] = "session" => FirmFirst(refs)
  BY DEF CacheInv, Lists, RefsOf
<1>3. PoolOK(blocks)
  BY DEF CacheInv
<1> HIDE DEF refs
<1>4. Len(refs) \in Nat /\ DOMAIN refs = 1 .. Len(refs)
  BY <1>1
<1>5. ASSUME refs # <<>> PROVE refs[1].start = 0
  <2>1. 1 \in 1 .. Len(refs)
    BY <1>1, <1>5, EmptySeq
  <2> QED
    BY <2>1, <1>1 DEF Tiled
<1>6. ASSUME NEW k \in 1 .. Len(refs)
      PROVE  /\ refs[k].end - refs[k].start = Len(TokensOf(refs[k]))
             /\ k > 1 => refs[k].start = refs[k - 1].end
             /\ l[1] = "session" /\ k > 1 /\ refs[k].valid = "committed" =>
                   refs[k - 1].valid = "committed"
  <2>1. /\ refs[k].end = refs[k].start + Len(TokensOf(refs[k]))
        /\ refs[k].start = IF k = 1 THEN 0 ELSE refs[k - 1].end
        /\ refs[k].block \in DOMAIN blocks
    BY <1>1 DEF Tiled, TokensOf
  <2>2. refs[k].start \in Nat /\ Len(TokensOf(refs[k])) \in Nat
    <3>1. refs[k].start \in Nat
      BY <1>1, RefFields
    <3>2. TokensOf(refs[k]) \in Seq(Nat)
      BY <1>3, <2>1 DEF PoolOK, Block, TokensOf
    <3> QED
      BY <3>1, <3>2
  <2>3. refs[k].end - refs[k].start = Len(TokensOf(refs[k]))
    BY <2>1, <2>2
  <2>4. k > 1 => k \in 2 .. Len(refs) /\ k # 1
    BY <1>4
  <2> QED
    BY <1>2, <2>1, <2>3, <2>4 DEF FirmFirst
<1> QED
  BY <1>4, <1>5, <1>6 DEF refs

(***************************************************************************)
(* The references of every session and branch tile it from token 0, each   *)
(* as long as its block, and those a session committed come first          *)
(* (append_session, rollback_tentative, append_branch).                    *)
(***************************************************************************)
THEOREM ReferencesTile == CacheSpec => []RefsTile
BY CacheInvHolds, InvRefsTile, PTL

LEMMA InvPrivateIsUnshared == CacheInv => PrivateIsUnshared
<1> SUFFICES ASSUME CacheInv, NEW b \in DOMAIN branchRefs, NEW k \in DOMAIN branchRefs[b],
                    branchRefs[b][k].owner # "shared"
             PROVE  blocks[branchRefs[b][k].block].count = 1
  BY DEF PrivateIsUnshared
<1>1. branchRefs[b] \in Seq(Ref)
  BY DEF CacheInv, TypedLists
<1>2. k \in 1 .. Len(branchRefs[b])
  BY <1>1
<1> QED
  BY <1>2, PrivateOnce

LEMMA InvRefCountsExact == CacheInv => RefCountsExact
<1> SUFFICES ASSUME CacheInv PROVE RefCountsExact
  OBVIOUS
<1> DEFINE table == TableOf(sessionRefs, branchRefs)
           slots == UNION {{<<l, k>> : k \in DOMAIN RefsOf(l)} : l \in Lists}
           target(slot) == RefsOf(slot[1])[slot[2]].block
<1>1. Counted(table, blocks) /\ TypedLists(sessionRefs, branchRefs)
  BY DEF CacheInv, Sound
<1>2. table \in [AllLists -> Seq(Ref)]
  BY <1>1, TableFacts
<1>3. table = TableOf(sessionRefs, branchRefs)
  OBVIOUS
<1> HIDE DEF table
<1>4. ASSUME NEW l
      PROVE  /\ l \in Lists => l \in AllLists /\ RefsOf(l) = table[l]
             /\ l \in AllLists /\ l \notin Lists => table[l] = <<>>
             /\ l \in Lists => RefsOf(l) \in Seq(Ref)
  BY <1>3, ListNames
\* The slots of the lists there are, one by one.
<1>5. ASSUME NEW slot
      PROVE  slot \in slots <=>
                 \E l \in Lists : \E k \in 1 .. Len(table[l]) : slot = <<l, k>>
  <2>1. \A l \in Lists : DOMAIN RefsOf(l) = 1 .. Len(table[l])
    BY <1>4
  <2>2. slot \in slots <=> \E l \in Lists : \E k \in DOMAIN RefsOf(l) : slot = <<l, k>>
    OBVIOUS
  <2> HIDE DEF slots
  <2> QED
    BY <2>1, <2>2
<1>6. ASSUME NEW l \in Lists, NEW k
      PROVE  target(<<l, k>>) = table[l][k].block
  BY <1>4
<1> HIDE DEF slots, target
<1>7. ASSUME NEW slot \in slots PROVE target(slot) \in DOMAIN blocks
  <2>1. PICK l \in Lists : \E k \in 1 .. Len(table[l]) : slot = <<l, k>>
    BY <1>5
  <2>2. PICK k \in 1 .. Len(table[l]) : slot = <<l, k>>
    BY <2>1
  <2>3. target(slot) = table[l][k].block /\ l \in AllLists
    BY <1>4, <1>6, <2>2
  <2> QED
    BY <1>1, <1>2, <2>3 DEF Counted
<1>8. ASSUME NEW i PROVE Slots(table, i) = {slot \in slots : target(slot) = i}
  <2>1. ASSUME NEW p, IsSlot(AllLists, table, i, p) PROVE p \in slots /\ target(p) = i
    <3>1. PICK l \in AllLists : \E k \in 1 .. Len(table[l]) : p = <<l, k>> /\ table[l][k].block = i
      BY <2>1, Zenon DEF IsSlot
    <3>2. PICK k \in 1 .. Len(table[l]) : p = <<l, k>> /\ table[l][k].block = i
      BY <3>1
    <3>3. table[l] # <<>>
      BY <1>2, <3>2, EmptySeq
    <3>4. l \in Lists
      BY <1>4, <3>3
    <3> QED
      BY <1>5, <1>6, <3>2, <3>4
  <2>2. ASSUME NEW p \in slots, target(p) = i PROVE IsSlot(AllLists, table, i, p)
    <3>1. PICK l \in Lists : \E k \in 1 .. Len(table[l]) : p = <<l, k>>
      BY <1>5
    <3>2. PICK k \in 1 .. Len(table[l]) : p = <<l, k>>
      BY <3>1
    <3>3. table[l][k].block = i /\ l \in AllLists
      BY <1>4, <1>6, <2>2, <3>2
    <3> QED
      BY <3>2, <3>3 DEF IsSlot
  <2>3. \A p : p \in Slots(table, i) <=> IsSlot(AllLists, table, i, p)
    BY <1>2, InSlots
  <2> QED
    BY <2>1, <2>2, <2>3
<1>9. \A i \in DOMAIN blocks : blocks[i].count = Cardinality({slot \in slots : target(slot) = i})
  BY <1>1, <1>8 DEF Counted
<1>10. PrivateIsUnshared
  BY InvPrivateIsUnshared
<1> QED
  BY <1>7, <1>9, <1>10, Zenon DEF RefCountsExact, slots, target

(***************************************************************************)
(* validate_ref_counts never raises: every reference names a block of the  *)
(* pool, and the count of a block is the number of references to it, so    *)
(* that it is released with the last of them and not before.  A block that *)
(* append_branch writes in place, looking at the ownership and not at the  *)
(* count, has no other reference.                                          *)
(***************************************************************************)
THEOREM CountsAreReferences == CacheSpec => []RefCountsExact
BY CacheInvHolds, InvRefCountsExact, PTL

=============================================================================
