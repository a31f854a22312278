---------------------------- MODULE SpeakerProofs ----------------------------
(***************************************************************************)
(* What SpeakerService promises, for every set of sessions, voices and     *)
(* chunks, every batch size and every list of workers.                     *)
(*                                                                         *)
(* The batcher is a recursion (the loop over a bucket), a fold (the store  *)
(* after a batch), a sum (the backlog) and a ranking (the turns of the     *)
(* sessions), and facts about these need induction over the numbers and    *)
(* over finite sets.  The induction theorems of the library take an        *)
(* operator; here the values a fact fails for are a set, and that this set *)
(* is empty follows from WFMin: it has no least member.                    *)
(***************************************************************************)
EXTENDS SpeakerService, WellFoundedInduction, FiniteSetTheorems, SequenceTheorems, TLAPS

LEMMA LeastNat ==
    ASSUME NEW T \in SUBSET Nat, T # {}
    PROVE  \E x \in T : \A y \in T : x <= y
<1>1. PICK x \in T : \A y \in T : ~(<<y, x>> \in OpToRel(<, Nat))
  BY NatLessThanWellFounded, WFMin, Zenon
<1>2. \A y \in T : ~(y < x)
  BY <1>1, Zenon DEF OpToRel
<1> QED
  BY <1>2

\* Induction over the numbers: what holds of 0 and of the successor of every
\* number it holds of, holds of all; C are the numbers it fails for.
LEMMA NoLeast ==
    ASSUME NEW C \in SUBSET Nat, 0 \notin C, \A n \in Nat : n + 1 \in C => n \in C
    PROVE  C = {}
<1> SUFFICES ASSUME C # {}
             PROVE  FALSE
  OBVIOUS
<1>1. PICK x \in C : \A y \in C : x <= y
  BY LeastNat
<1>2. x # 0 /\ x - 1 \in Nat /\ (x - 1) + 1 = x
  BY <1>1
<1>3. x - 1 \in C
  BY <1>1, <1>2
<1> QED
  BY <1>1, <1>2, <1>3

\* A recursion over the numbers up to N
StepsBy(N, V, base, step) ==
    N \in Nat /\ base \in V /\ step \in [(1 .. N) \X V -> V]

StepIs(N, V, base, step, g) ==
    /\ g \in [0 .. N -> V]
    /\ \A k \in 0 .. N : g[k] = IF k = 0 THEN base ELSE step[<<k, g[k - 1]>>]

LEMMA Recursion ==
    ASSUME NEW N, NEW V, NEW base, NEW step, StepsBy(N, V, base, step)
    PROVE  \E g : StepIs(N, V, base, step, g)
<1> USE DEF StepsBy
<1> DEFINE Good(n) == \E g \in [0 .. n -> V] :
              \A k \in 0 .. n : g[k] = IF k = 0 THEN base ELSE step[<<k, g[k - 1]>>]
           C == {n \in Nat : n <= N /\ ~Good(n)}
<1>1. 0 \notin C
  <2>1. [k \in 0 .. 0 |-> base] \in [0 .. 0 -> V]
    OBVIOUS
  <2>2. \A k \in 0 .. 0 : k = 0 /\ [i \in 0 .. 0 |-> base][k] = base
    OBVIOUS
  <2>3. Good(0)
    BY <2>1, <2>2
  <2> HIDE DEF Good
  <2> QED
    BY <2>3
<1>2. ASSUME NEW n \in Nat, n + 1 \in C
      PROVE  n \in C
  <2>1. n + 1 <= N /\ ~Good(n + 1)
    BY <1>2
  <2> SUFFICES ASSUME Good(n)
               PROVE  FALSE
    <3> HIDE DEF Good
    <3> QED
      BY <2>1
  <2>2. PICK g \in [0 .. n -> V] :
              \A k \in 0 .. n : g[k] = IF k = 0 THEN base ELSE step[<<k, g[k - 1]>>]
    OBVIOUS
  <2>3. step[<<n + 1, g[n]>>] \in V
    BY <2>1
  <2> DEFINE h == [k \in 0 .. n + 1 |-> IF k = n + 1 THEN step[<<n + 1, g[n]>>] ELSE g[k]]
  <2>4. h \in [0 .. n + 1 -> V]
    BY <2>3
  <2>5. ASSUME NEW k \in 0 .. n + 1
        PROVE  h[k] = IF k = 0 THEN base ELSE step[<<k, h[k - 1]>>]
    <3>1. CASE k = n + 1
      <4>1. h[k] = step[<<n + 1, g[n]>>] /\ h[k - 1] = g[n] /\ k # 0
        BY <3>1
      <4> QED
        BY <3>1, <4>1
    <3>2. CASE k # n + 1
      <4>1. k \in 0 .. n /\ h[k] = g[k] /\ (k # 0 => h[k - 1] = g[k - 1])
        BY <3>2
      <4> QED
        BY <2>2, <4>1
    <3> QED
      BY <3>1, <3>2
  <2> HIDE DEF h
  <2>6. Good(n + 1)
    BY <2>4, <2>5
  <2> QED
    BY <2>1, <2>6
<1>3. C \in SUBSET Nat
  OBVIOUS
<1>4. C = {}
  <2> HIDE DEF C
  <2> QED
    BY <1>1, <1>2, <1>3, NoLeast
<1>5. Good(N)
  <2> HIDE DEF Good
  <2> QED
    BY <1>4
<1> QED
  BY <1>5 DEF StepIs

LEMMA SmallestSet ==
    ASSUME NEW D, IsFiniteSet(D), NEW C \in SUBSET (SUBSET D), C # {}
    PROVE  \E x \in C : \A y \in SUBSET x : y # x => y \notin C
<1>1. \A s \in SUBSET D : IsFiniteSet(s) /\ Cardinality(s) \in Nat
  BY FS_Subset, FS_CardinalityType
<1> DEFINE Sizes == {Cardinality(s) : s \in C}
<1>2. Sizes \in SUBSET Nat /\ Sizes # {}
  BY <1>1
<1>3. PICK k \in Sizes : \A i \in Sizes : k <= i
  <2> HIDE DEF Sizes
  <2> QED
    BY <1>2, LeastNat
<1>4. PICK x \in C : k = Cardinality(x)
  OBVIOUS
<1>5. ASSUME NEW y \in SUBSET x, y # x, y \in C
      PROVE  FALSE
  <2>1. Cardinality(x) <= Cardinality(y)
    BY <1>3, <1>4, <1>5
  <2>2. Cardinality(y) <= Cardinality(x) /\ Cardinality(x) # Cardinality(y)
    BY <1>1, <1>5, FS_Subset
  <2> QED
    BY <1>1, <1>5, <2>1, <2>2
<1> QED
  BY <1>5

\* A fold over the subsets of D that takes the elements in the order of c
FoldsBy(D, c, V, base, step) ==
    /\ IsFiniteSet(D) /\ base \in V /\ step \in [D \X V -> V]
    /\ \A s \in SUBSET D : s # {} => c[s] \in s

FoldIs(D, c, V, base, step, g) ==
    /\ g \in [SUBSET D -> V]
    /\ \A s \in SUBSET D : g[s] = IF s = {} THEN base ELSE step[<<c[s], g[s \ {c[s]}]>>]

LEMMA SetRecursion ==
    ASSUME NEW D, NEW c, NEW V, NEW base, NEW step, FoldsBy(D, c, V, base, step)
    PROVE  \E g : FoldIs(D, c, V, base, step, g)
<1> USE DEF FoldsBy
<1> DEFINE Small(n) == {s \in SUBSET D : Cardinality(s) <= n}
           Good(n) == \E g \in [Small(n) -> V] : \A s \in Small(n) :
                          g[s] = IF s = {} THEN base ELSE step[<<c[s], g[s \ {c[s]}]>>]
           C == {n \in Nat : ~Good(n)}
<1>0. \A s \in SUBSET D : IsFiniteSet(s) /\ Cardinality(s) \in Nat /\ (Cardinality(s) = 0 <=> s = {})
  BY FS_Subset, FS_CardinalityType, FS_EmptySet
<1>1. 0 \notin C
  <2>1. \A s \in Small(0) : s = {}
    BY <1>0
  <2> DEFINE g == [s \in Small(0) |-> base]
  <2>2. g \in [Small(0) -> V] /\ \A s \in Small(0) : g[s] = base
    OBVIOUS
  <2> HIDE DEF g, Small
  <2>3. Good(0)
    BY <2>1, <2>2
  <2> HIDE DEF Good
  <2> QED
    BY <2>3
<1>2. ASSUME NEW n \in Nat, n + 1 \in C
      PROVE  n \in C
  <2> SUFFICES ASSUME Good(n)
               PROVE  Good(n + 1)
    <3> HIDE DEF Good
    <3> QED
      BY <1>2
  <2>1. PICK g \in [Small(n) -> V] : \A s \in Small(n) :
                g[s] = IF s = {} THEN base ELSE step[<<c[s], g[s \ {c[s]}]>>]
    OBVIOUS
  <2>2. ASSUME NEW s \in Small(n + 1), s # {}
        PROVE  c[s] \in D /\ s \ {c[s]} \in Small(n)
    <3>1. s \in SUBSET D /\ c[s] \in s
      BY <2>2
    <3>2. Cardinality(s \ {c[s]}) = Cardinality(s) - 1
      BY <1>0, <3>1, FS_RemoveElement
    <3> QED
      BY <1>0, <3>1, <3>2
  <2> DEFINE h == [s \in Small(n + 1) |-> IF s = {} THEN base ELSE step[<<c[s], g[s \ {c[s]}]>>]]
  <2>3. \A s \in Small(n) : s \in Small(n + 1)
    BY <1>0
  <2> HIDE DEF Small
  <2>4. h \in [Small(n + 1) -> V]
    BY <2>1, <2>2
  <2>5. \A s \in Small(n) : h[s] = g[s]
    BY <2>1, <2>3
  <2>6. \A s \in Small(n + 1) : h[s] = IF s = {} THEN base ELSE step[<<c[s], h[s \ {c[s]}]>>]
    BY <2>2, <2>5
  <2> HIDE DEF h
  <2> QED
    BY <2>4, <2>6
<1>3. C = {}
  <2>1. C \in SUBSET Nat
    OBVIOUS
  <2> HIDE DEF C
  <2> QED
    BY <1>1, <1>2, <2>1, NoLeast
<1>4. Good(Cardinality(D))
  <2>1. Cardinality(D) \in Nat
    BY <1>0
  <2> HIDE DEF Good
  <2> QED
    BY <1>3, <2>1
<1>5. Small(Cardinality(D)) = SUBSET D
  <2>1. \A s \in SUBSET D : Cardinality(s) <= Cardinality(D)
    BY FS_Subset
  <2> QED
    BY <2>1
<1> HIDE DEF Small
<1> QED
  BY <1>4, <1>5 DEF FoldIs

-----------------------------------------------------------------------------
\* Sums of lengths

Item == [chunk: Chunks, enqueued: Nat, deadline: Nat]

Load(its, q) == MapThenSumSet(LAMBDA n : its[n].chunk.length, q)

Some(s) == CHOOSE x \in s : TRUE

LEMMA ItemFacts ==
    ASSUME NEW x \in Item
    PROVE  /\ x.chunk.length \in Nat /\ x.chunk.session \in Sessions /\ x.chunk.session \in Nat
           /\ x.enqueued \in Nat /\ x.deadline \in Nat /\ x.chunk.voice \in Voices
  BY ChunkAssumption DEF Item, AudioChunk

\* MapThenSumSet(op, S) is defined by a recursion over the subsets of S.
SumsOver(its, q, g) ==
    g = [s \in SUBSET q |-> IF s = {} THEN 0
                            ELSE its[Some(s)].chunk.length + g[s \ {Some(s)}]]

LEMMA LoadIsSum ==
    ASSUME NEW its, NEW q
    PROVE  Load(its, q) = (CHOOSE g : SumsOver(its, q, g))[q]
  BY DEF Load, SumsOver, MapThenSumSet, MapThenFoldSet, Some

LEMMA SumsExist ==
    ASSUME NEW its \in Seq(Item), NEW q \in SUBSET DOMAIN its
    PROVE  /\ IsFiniteSet(q)
           /\ \E g : SumsOver(its, q, g)
<1>1. IsFiniteSet(q)
  <2>1. IsFiniteSet(1 .. Len(its)) /\ q \in SUBSET (1 .. Len(its))
    BY FS_Interval
  <2> QED
    BY <2>1, FS_Subset
<1> DEFINE c == [s \in SUBSET q |-> Some(s)]
           step == [p \in q \X Nat |-> its[p[1]].chunk.length + p[2]]
<1>2. /\ \A s \in SUBSET q : c[s] = Some(s)
      /\ \A s \in SUBSET q : s # {} => c[s] \in s
  BY DEF Some
<1>3. step \in [q \X Nat -> Nat] /\ \A x \in q, v \in Nat : step[<<x, v>>] = its[x].chunk.length + v
  BY ItemFacts
<1> HIDE DEF c, step
<1>4. PICK g : FoldIs(q, c, Nat, 0, step, g)
  <2>1. FoldsBy(q, c, Nat, 0, step)
    BY <1>1, <1>2, <1>3 DEF FoldsBy
  <2> QED
    BY <2>1, SetRecursion
<1>5. \A s \in SUBSET q : s # {} => s \ {Some(s)} \in SUBSET q /\ Some(s) \in q
  BY <1>2
<1>6. \A s \in SUBSET q : g[s] = IF s = {} THEN 0 ELSE its[Some(s)].chunk.length + g[s \ {Some(s)}]
  <2> SUFFICES ASSUME NEW s \in SUBSET q
               PROVE  g[s] = IF s = {} THEN 0 ELSE its[Some(s)].chunk.length + g[s \ {Some(s)}]
    OBVIOUS
  <2>1. CASE s = {}
    BY <1>4, <2>1 DEF FoldIs
  <2>2. CASE s # {}
    <3>1. g[s] = step[<<Some(s), g[s \ {Some(s)}]>>]
      BY <1>2, <1>4, <2>2 DEF FoldIs
    <3>2. Some(s) \in q /\ g[s \ {Some(s)}] \in Nat
      BY <1>4, <1>5, <2>2 DEF FoldIs
    <3> QED
      BY <1>3, <2>2, <3>1, <3>2
  <2> QED
    BY <2>1, <2>2
<1>7. g \in [SUBSET q -> Nat]
  BY <1>4 DEF FoldIs
<1>8. SumsOver(its, q, g)
  BY <1>6, <1>7 DEF SumsOver
<1> QED
  BY <1>1, <1>8

\* All the sums there are over some items
Sums(its) == CHOOSE g : SumsOver(its, DOMAIN its, g)

LEMMA SumsStep ==
    ASSUME NEW its \in Seq(Item), NEW q \in SUBSET DOMAIN its, NEW g, SumsOver(its, q, g)
    PROVE  /\ g[{}] = 0
           /\ \A s \in SUBSET q : s # {} =>
                 /\ Some(s) \in s /\ s \ {Some(s)} \in SUBSET q
                 /\ its[Some(s)].chunk.length \in Nat
                 /\ g[s] = its[Some(s)].chunk.length + g[s \ {Some(s)}]
<1>1. \A s \in SUBSET q : s # {} => Some(s) \in s
  BY DEF Some
<1>2. \A n \in q : its[n].chunk.length \in Nat
  BY ItemFacts
<1>3. \A s \in SUBSET q : g[s] = IF s = {} THEN 0 ELSE its[Some(s)].chunk.length + g[s \ {Some(s)}]
  BY DEF SumsOver
<1> QED
  BY <1>1, <1>2, <1>3

LEMMA AllSums ==
    ASSUME NEW its \in Seq(Item), NEW s \in SUBSET DOMAIN its
    PROVE  /\ SumsOver(its, DOMAIN its, Sums(its))
           /\ Sums(its)[{}] = 0
           /\ s # {} => Sums(its)[s] = its[Some(s)].chunk.length + Sums(its)[s \ {Some(s)}]
<1>1. DOMAIN its \in SUBSET DOMAIN its
  OBVIOUS
<1>2. SumsOver(its, DOMAIN its, Sums(its))
  BY <1>1, SumsExist DEF Sums
<1> DEFINE g == Sums(its)
           all == DOMAIN its
<1>3. SumsOver(its, all, g) /\ all \in SUBSET DOMAIN its /\ s \in SUBSET all
  BY <1>1, <1>2
<1> HIDE DEF g, all
<1>4. g[{}] = 0 /\ (s # {} => g[s] = its[Some(s)].chunk.length + g[s \ {Some(s)}])
  BY <1>3, SumsStep
<1> QED
  BY <1>2, <1>4 DEF g

LEMMA SumsAgree ==
    ASSUME NEW its \in Seq(Item), NEW q \in SUBSET DOMAIN its, NEW g, SumsOver(its, q, g),
           NEW t \in SUBSET q
    PROVE  g[t] = Sums(its)[t] /\ Sums(its)[t] \in Nat
<1> DEFINE G == Sums(its)
           C == {s \in SUBSET q : ~(g[s] = G[s] /\ G[s] \in Nat)}
<1>1. \A s \in SUBSET DOMAIN its :
         /\ G[{}] = 0
         /\ s # {} => G[s] = its[Some(s)].chunk.length + G[s \ {Some(s)}]
  BY AllSums
<1> HIDE DEF G
<1>2. C = {}
  <2> SUFFICES ASSUME C # {}
               PROVE  FALSE
    OBVIOUS
  <2>1. IsFiniteSet(q) /\ C \in SUBSET (SUBSET q)
    BY SumsExist
  <2>2. PICK x \in C : \A y \in SUBSET x : y # x => y \notin C
    <3> HIDE DEF C
    <3> QED
      BY <2>1, SmallestSet
  <2>3. x \in SUBSET q /\ x \in SUBSET DOMAIN its
    OBVIOUS
  <2>4. CASE x = {}
    <3>1. g[x] = 0
      BY <2>3, <2>4, SumsStep
    <3>2. G[x] = 0
      BY <1>1, <2>3, <2>4
    <3> QED
      BY <3>1, <3>2
  <2>5. CASE x # {}
    <3> DEFINE e == Some(x)
               r == x \ {e}
    <3>1. e \in x /\ its[e].chunk.length \in Nat /\ g[x] = its[e].chunk.length + g[r]
      BY <2>3, <2>5, SumsStep
    <3>2. G[x] = its[e].chunk.length + G[r]
      BY <1>1, <2>3, <2>5
    <3>3. r \in SUBSET q /\ r \in SUBSET x /\ r # x
      BY <2>3, <3>1
    <3>4. g[r] = G[r] /\ G[r] \in Nat
      BY <2>2, <3>3
    <3> HIDE DEF e, r
    <3>5. g[x] = G[x] /\ G[x] \in Nat
      BY <3>1, <3>2, <3>4
    <3> QED
      BY <3>5
  <2> QED
    BY <2>4, <2>5
<1> QED
  BY <1>2 DEF G

LEMMA LoadFacts ==
    ASSUME NEW its \in Seq(Item), NEW q \in SUBSET DOMAIN its
    PROVE  /\ Load(its, q) = Sums(its)[q] /\ Load(its, q) \in Nat
           /\ q = {} => Load(its, q) = 0
<1> DEFINE g == CHOOSE g : SumsOver(its, q, g)
<1>1. SumsOver(its, q, g)
  BY SumsExist
<1>2. Load(its, q) = g[q]
  BY LoadIsSum
<1> HIDE DEF g
<1>3. q \in SUBSET q
  OBVIOUS
<1>4. g[q] = Sums(its)[q] /\ Sums(its)[q] \in Nat
  BY <1>1, <1>3, SumsAgree
<1>5. q = {} => Sums(its)[q] = 0
  BY AllSums
<1> QED
  BY <1>2, <1>4, <1>5

\* The order does not matter.
LEMMA LoadWithout ==
    ASSUME NEW its \in Seq(Item), NEW q \in SUBSET DOMAIN its, NEW y \in q
    PROVE  Sums(its)[q] = its[y].chunk.length + Sums(its)[q \ {y}]
<1> DEFINE G == Sums(its)
           Splits(s) == \A z \in s : G[s] = its[z].chunk.length + G[s \ {z}]
           C == {s \in SUBSET q : ~Splits(s)}
<1>1. \A s \in SUBSET q : s # {} => G[s] = its[Some(s)].chunk.length + G[s \ {Some(s)}]
  BY AllSums
<1>2. \A s \in SUBSET q : G[s] \in Nat
  BY LoadFacts
<1>3. \A n \in q : its[n].chunk.length \in Nat
  BY ItemFacts
<1> HIDE DEF G
<1>4. C = {}
  <2> SUFFICES ASSUME C # {}
               PROVE  FALSE
    OBVIOUS
  <2>1. IsFiniteSet(q) /\ C \in SUBSET (SUBSET q)
    BY SumsExist
  <2>2. PICK x \in C : \A y_1 \in SUBSET x : y_1 # x => y_1 \notin C
    <3> HIDE DEF C
    <3> QED
      BY <2>1, SmallestSet
  <2>3. PICK z \in x : G[x] # its[z].chunk.length + G[x \ {z}]
    OBVIOUS
  <2> DEFINE e == Some(x)
             xe == x \ {e}
             xz == x \ {z}
             xez == x \ {e, z}
  <2>4. x \in SUBSET q /\ x \in SUBSET DOMAIN its /\ x # {}
    OBVIOUS
  <2>5. e \in x /\ G[x] = its[e].chunk.length + G[xe]
    BY <1>1, <2>4 DEF Some
  <2>6. e # z
    BY <2>3, <2>5
  <2>7. /\ xe \in SUBSET x /\ xe # x /\ z \in xe /\ xe \ {z} = xez
        /\ xz \in SUBSET x /\ xz # x /\ e \in xz /\ xz \ {e} = xez
        /\ xe \in SUBSET q /\ xz \in SUBSET q /\ xez \in SUBSET q
    BY <2>4, <2>5, <2>6
  <2>8. Splits(xe) /\ Splits(xz)
    <3> HIDE DEF Splits
    <3> QED
      BY <2>2, <2>7
  <2>9. G[xe] = its[z].chunk.length + G[xez] /\ G[xz] = its[e].chunk.length + G[xez]
    BY <2>7, <2>8
  <2>10. /\ its[e].chunk.length \in Nat /\ its[z].chunk.length \in Nat
         /\ G[xez] \in Nat
    BY <1>2, <1>3, <2>4, <2>5, <2>7
  <2> HIDE DEF e, xe, xz, xez
  <2>11. G[x] = its[z].chunk.length + G[xz]
    BY <2>5, <2>9, <2>10
  <2> QED
    BY <2>3, <2>11 DEF xz
<1>5. Splits(q)
  <2> HIDE DEF Splits
  <2> QED
    BY <1>4
<1> QED
  BY <1>5 DEF G

LEMMA LoadMonotonic ==
    ASSUME NEW its \in Seq(Item), NEW q \in SUBSET DOMAIN its, NEW r \in SUBSET q
    PROVE  Load(its, r) <= Load(its, q)
<1> DEFINE G == Sums(its)
           C == {s \in SUBSET q : r \subseteq s /\ ~(G[r] <= G[s])}
<1>1. \A s \in SUBSET q : G[s] = Load(its, s) /\ G[s] \in Nat
  BY LoadFacts
<1>2. \A s \in SUBSET q : \A z \in s : G[s] = its[z].chunk.length + G[s \ {z}]
  BY LoadWithout
<1>3. \A n \in q : its[n].chunk.length \in Nat
  BY ItemFacts
<1> HIDE DEF G
<1>4. C = {}
  <2> SUFFICES ASSUME C # {}
               PROVE  FALSE
    OBVIOUS
  <2>1. IsFiniteSet(q) /\ C \in SUBSET (SUBSET q)
    BY SumsExist
  <2>2. PICK x \in C : \A y \in SUBSET x : y # x => y \notin C
    <3> HIDE DEF C
    <3> QED
      BY <2>1, SmallestSet
  <2>3. x \in SUBSET q /\ r \subseteq x /\ ~(G[r] <= G[x])
    OBVIOUS
  <2>4. r # x
    BY <1>1, <2>3
  <2>5. PICK z \in x : z \notin r
    BY <2>3, <2>4
  <2>6. x \ {z} \in SUBSET x /\ x \ {z} # x /\ x \ {z} \in SUBSET q /\ r \subseteq x \ {z}
    BY <2>3, <2>5
  <2>7. G[r] <= G[x \ {z}]
    BY <2>2, <2>6
  <2>8. G[x] = its[z].chunk.length + G[x \ {z}]
    BY <1>2, <2>3
  <2>9. its[z].chunk.length \in Nat /\ G[x \ {z}] \in Nat /\ G[r] \in Nat
    BY <1>1, <1>3, <2>3, <2>6
  <2> QED
    BY <2>3, <2>7, <2>8, <2>9
<1>5. G[r] <= G[q]
  BY <1>4
<1> QED
  BY <1>1, <1>5

-----------------------------------------------------------------------------
\* Positions in a finite ordered set

Ordered(S, R) ==
    /\ IsFiniteSet(S)
    /\ \A x \in S : <<x, x>> \notin R
    /\ \A x, y, z \in S : <<x, y>> \in R /\ <<y, z>> \in R => <<x, z>> \in R
    /\ \A x, y \in S : x = y \/ <<x, y>> \in R \/ <<y, x>> \in R

Below(S, R, n) == {m \in S : <<m, n>> \in R}

Ranked(S, R) ==
    /\ Cardinality(S) \in Nat
    /\ \A n \in S : Cardinality(Below(S, R, n)) \in 0 .. Cardinality(S) - 1
    /\ \A m, n \in S : <<m, n>> \in R => Cardinality(Below(S, R, m)) < Cardinality(Below(S, R, n))
    /\ \A m, n \in S : Cardinality(Below(S, R, m)) = Cardinality(Below(S, R, n)) => m = n
    /\ \A k \in 0 .. Cardinality(S) - 1 : \E n \in S : Cardinality(Below(S, R, n)) = k

LEMMA Ranks ==
    ASSUME NEW S, NEW R, Ordered(S, R)
    PROVE  Ranked(S, R)
<1>1. \A T \in SUBSET S : /\ IsFiniteSet(T) /\ Cardinality(T) \in Nat
                          /\ \A U \in SUBSET T : /\ Cardinality(U) <= Cardinality(T)
                                                 /\ Cardinality(U) = Cardinality(T) => U = T
  BY FS_Subset, FS_CardinalityType DEF Ordered
<1> DEFINE rank(n) == Cardinality(Below(S, R, n))
<1>2. ASSUME NEW n \in S
      PROVE  rank(n) \in 0 .. Cardinality(S) - 1
  <2>1. Below(S, R, n) \in SUBSET S /\ n \notin Below(S, R, n)
    BY DEF Below, Ordered
  <2>2. rank(n) \in Nat /\ rank(n) <= Cardinality(S) /\ rank(n) # Cardinality(S) /\ Cardinality(S) \in Nat
    BY <1>1, <2>1
  <2> QED
    BY <2>2
<1>3. ASSUME NEW m \in S, NEW n \in S, <<m, n>> \in R
      PROVE  rank(m) < rank(n)
  <2>1. /\ Below(S, R, n) \in SUBSET S /\ Below(S, R, m) \in SUBSET Below(S, R, n)
        /\ m \in Below(S, R, n) /\ m \notin Below(S, R, m)
    BY <1>3 DEF Below, Ordered
  <2>2. rank(m) <= rank(n) /\ rank(m) # rank(n)
    BY <1>1, <2>1
  <2> QED
    BY <1>2, <2>2
<1>4. \A m, n \in S : rank(m) = rank(n) => m = n
  <2>1. \A m, n \in S : m = n \/ <<m, n>> \in R \/ <<n, m>> \in R
    BY DEF Ordered
  <2> HIDE DEF rank
  <2>2. ASSUME NEW m \in S, NEW n \in S, rank(m) = rank(n), m # n
        PROVE  FALSE
    <3>1. rank(m) < rank(n) \/ rank(n) < rank(m)
      BY <1>3, <2>1, <2>2, Zenon
    <3>2. rank(m) \in Int /\ rank(n) \in Int
      BY <1>2
    <3> QED
      BY <2>2, <3>1, <3>2
  <2> QED
    BY <2>2
<1> DEFINE T == 0 .. Cardinality(S) - 1
           f == [n \in S |-> rank(n)]
<1>5. Cardinality(S) \in Nat
  BY <1>1
<1>6. IsFiniteSet(T) /\ Cardinality(T) = Cardinality(S)
  <2>1. Cardinality(S) - 1 \in Int /\ 0 \in Int
    BY <1>5
  <2>2. IsFiniteSet(T) /\ Cardinality(T) = IF 0 > Cardinality(S) - 1 THEN 0 ELSE Cardinality(S) - 1 - 0 + 1
    BY <2>1, FS_Interval
  <2> QED
    BY <1>5, <2>2
<1>7. f \in Injection(S, T)
  <2> HIDE DEF rank
  <2> QED
    BY <1>2, <1>4 DEF Injection, IsInjective
<1>8. f \in Surjection(S, T)
  <2> HIDE DEF f, T
  <2> QED
    BY <1>6, <1>7, FS_Injection
<1>9. \A k \in T : \E n \in S : rank(n) = k
  <2> HIDE DEF rank
  <2> QED
    BY <1>8 DEF Surjection
<1> HIDE DEF rank
<1> QED
  BY <1>2, <1>3, <1>4, <1>5, <1>9 DEF Ranked, rank

-----------------------------------------------------------------------------
\* The turns of the candidates

LEMMA BeforeOrder ==
    ASSUME items \in Seq(Item), NEW q \in SUBSET DOMAIN items
    PROVE  /\ IsFiniteSet(q)
           /\ \A m \in q : ~Before(m, m)
           /\ \A l, m, n \in q : Before(l, m) /\ Before(m, n) => Before(l, n)
           /\ \A m, n \in q : m = n \/ Before(m, n) \/ Before(n, m)
<1>1. \A n \in q : n \in Nat /\ items[n].deadline \in Nat /\ items[n].enqueued \in Nat
  BY ItemFacts
<1>2. IsFiniteSet(q)
  BY SumsExist
<1> QED
  BY <1>1, <1>2 DEF Before

LEMMA RoundFacts ==
    ASSUME items \in Seq(Item), NEW q \in SUBSET DOMAIN items
    PROVE  /\ \A n \in q : Round(n, q) \in Nat
           /\ \A m, n \in q : SessionOf(m) = SessionOf(n) /\ Before(m, n) => Round(m, q) < Round(n, q)
           /\ \A m, n \in q : SessionOf(m) = SessionOf(n) /\ Round(m, q) = Round(n, q) => m = n
<1> DEFINE earlier(n) == {m \in q : SessionOf(m) = SessionOf(n) /\ Before(m, n)}
<1>1. \A T \in SUBSET q : /\ IsFiniteSet(T) /\ Cardinality(T) \in Nat
                          /\ \A U \in SUBSET T : /\ Cardinality(U) <= Cardinality(T)
                                                 /\ Cardinality(U) = Cardinality(T) => U = T
  BY BeforeOrder, FS_Subset, FS_CardinalityType
<1>2. \A n \in q : earlier(n) \in SUBSET q /\ Round(n, q) = Cardinality(earlier(n))
  BY DEF Round
<1>3. ASSUME NEW m \in q, NEW n \in q, SessionOf(m) = SessionOf(n), Before(m, n)
      PROVE  Round(m, q) < Round(n, q)
  <2>1. earlier(m) \in SUBSET earlier(n) /\ m \in earlier(n) /\ m \notin earlier(m)
    BY <1>3, BeforeOrder
  <2> HIDE DEF earlier
  <2> QED
    BY <1>1, <1>2, <2>1
<1>4. \A n \in q : Round(n, q) \in Nat
  <2> HIDE DEF earlier
  <2> QED
    BY <1>1, <1>2
<1>5. \A m, n \in q : SessionOf(m) = SessionOf(n) /\ Round(m, q) = Round(n, q) => m = n
  <2>1. \A m, n \in q : m = n \/ Before(m, n) \/ Before(n, m)
    BY BeforeOrder
  <2> QED
    BY <1>3, <1>4, <2>1
<1> QED
  BY <1>3, <1>4, <1>5

Turns(q) == {p \in q \X q : TurnBefore(p[1], p[2], q)}

LEMMA TurnsOrdered ==
    ASSUME items \in Seq(Item), NEW q \in SUBSET DOMAIN items
    PROVE  /\ Ordered(q, Turns(q))
           /\ \A n \in q : Place(n, q) = Cardinality(Below(q, Turns(q), n))
           /\ \A m, n \in q : <<m, n>> \in Turns(q) <=> TurnBefore(m, n, q)
<1>1. \A m, n \in q : <<m, n>> \in Turns(q) <=> TurnBefore(m, n, q)
  BY DEF Turns
<1>2. \A n \in q : SessionOf(n) \in Nat /\ Round(n, q) \in Nat
  <2>1. \A n \in q : SessionOf(n) \in Nat
    BY ItemFacts DEF SessionOf
  <2> QED
    BY <2>1, RoundFacts
<1>3. \A m, n \in q : SessionOf(m) = SessionOf(n) /\ Round(m, q) = Round(n, q) => m = n
  BY RoundFacts
<1>4. /\ \A m \in q : ~TurnBefore(m, m, q)
      /\ \A l, m, n \in q : TurnBefore(l, m, q) /\ TurnBefore(m, n, q) => TurnBefore(l, n, q)
      /\ \A m, n \in q : m = n \/ TurnBefore(m, n, q) \/ TurnBefore(n, m, q)
  BY <1>2, <1>3 DEF TurnBefore
<1>5. Ordered(q, Turns(q))
  BY <1>1, <1>4, BeforeOrder DEF Ordered
<1>6. \A n \in q : {m \in q : TurnBefore(m, n, q)} = Below(q, Turns(q), n)
  BY <1>1 DEF Below
<1> QED
  BY <1>1, <1>5, <1>6 DEF Place

\* What _fair_select returns
Selected(q, batch) ==
    /\ batch \in Seq(q)
    /\ Len(batch) = Min({MaxBatch, Cardinality(q)})
    /\ \A i \in DOMAIN batch : Place(batch[i], q) = i - 1
    /\ Range(batch) = {n \in q : Place(n, q) < MaxBatch}

LEMMA MinOfTwo ==
    ASSUME NEW a \in Nat, NEW b \in Nat
    PROVE  Min({a, b}) = IF a <= b THEN a ELSE b
<1>1. Min({a, b}) \in {a, b} /\ \A y \in {a, b} : Min({a, b}) <= y
  <2>1. \E x \in {a, b} : \A y \in {a, b} : x <= y
    OBVIOUS
  <2> QED
    BY <2>1 DEF Min
<1> QED
  BY <1>1

LEMMA FairSelection ==
    ASSUME items \in Seq(Item), NEW q \in SUBSET DOMAIN items
    PROVE  Selected(q, FairSelect(q))
<1>1. Ranked(q, Turns(q)) /\ \A n \in q : Place(n, q) = Cardinality(Below(q, Turns(q), n))
  BY TurnsOrdered, Ranks
<1>2. /\ Cardinality(q) \in Nat
      /\ \A n \in q : Place(n, q) \in 0 .. Cardinality(q) - 1
      /\ \A m, n \in q : Place(m, q) = Place(n, q) => m = n
      /\ \A k \in 0 .. Cardinality(q) - 1 : \E n \in q : Place(n, q) = k
  BY <1>1 DEF Ranked
<1> DEFINE w == Min({MaxBatch, Cardinality(q)})
           batch == FairSelect(q)
<1>3. w \in Nat /\ w <= MaxBatch /\ w <= Cardinality(q) /\ (w = MaxBatch \/ w = Cardinality(q))
  BY <1>2, MinOfTwo, BatchingAssumption
<1>4. batch = [i \in 1 .. w |-> CHOOSE n \in q : Place(n, q) = i - 1]
  BY DEF FairSelect
<1> HIDE DEF w, batch
<1>5. ASSUME NEW i \in 1 .. w
      PROVE  batch[i] \in q /\ Place(batch[i], q) = i - 1
  <2>1. i - 1 \in 0 .. Cardinality(q) - 1
    BY <1>2, <1>3
  <2>2. \E n \in q : Place(n, q) = i - 1
    BY <1>2, <2>1
  <2> QED
    BY <1>4, <2>2
<1>6. batch \in Seq(q) /\ Len(batch) = w /\ DOMAIN batch = 1 .. w
  <2>1. batch \in [1 .. w -> q]
    BY <1>4, <1>5
  <2> QED
    BY <1>3, <2>1
<1>7. ASSUME NEW n \in q, Place(n, q) < MaxBatch
      PROVE  n \in Range(batch)
  <2> DEFINE i == Place(n, q) + 1
  <2>1. i \in 1 .. w /\ Place(n, q) = i - 1
    BY <1>2, <1>3, <1>7
  <2> HIDE DEF i
  <2>2. batch[i] = n
    BY <1>2, <1>5, <2>1
  <2> QED
    BY <1>6, <2>1, <2>2 DEF Range
<1>8. ASSUME NEW n \in Range(batch)
      PROVE  n \in q /\ Place(n, q) < MaxBatch
  <2>1. PICK i \in 1 .. w : n = batch[i]
    BY <1>6 DEF Range
  <2> QED
    BY <1>3, <1>5, <2>1, BatchingAssumption
<1>9. Range(batch) = {n \in q : Place(n, q) < MaxBatch}
  BY <1>7, <1>8
<1> QED
  BY <1>5, <1>6, <1>9 DEF Selected, w, batch

-----------------------------------------------------------------------------
\* The loop over one bucket

LEMMA SelectedFacts ==
    ASSUME items \in Seq(Item), NEW q \in SUBSET DOMAIN items
    PROVE  /\ IsFiniteSet(q) /\ Cardinality(q) \in Nat
           /\ IsFiniteSet(Range(FairSelect(q))) /\ Range(FairSelect(q)) \in SUBSET q
           /\ Cardinality(Range(FairSelect(q))) \in Nat /\ Cardinality(Range(FairSelect(q))) <= MaxBatch
           /\ Len(FairSelect(q)) <= MaxBatch
           /\ q # {} => Len(FairSelect(q)) > 0
<1> DEFINE batch == FairSelect(q)
<1>1. Selected(q, batch)
  BY FairSelection
<1>2. IsFiniteSet(q) /\ Cardinality(q) \in Nat /\ (q # {} => Cardinality(q) > 0)
  BY SumsExist, FS_CardinalityType, FS_EmptySet
<1> HIDE DEF batch
<1>3. Len(batch) \in Nat /\ Len(batch) <= MaxBatch /\ (q # {} => Len(batch) > 0)
  BY <1>1, <1>2, MinOfTwo, BatchingAssumption DEF Selected
<1>4. batch \in Seq(q) /\ DOMAIN batch = 1 .. Len(batch)
  BY <1>1 DEF Selected
<1>5. batch \in Surjection(1 .. Len(batch), Range(batch))
  BY <1>4 DEF Surjection, Range
<1>6. IsFiniteSet(1 .. Len(batch)) /\ Cardinality(1 .. Len(batch)) = Len(batch)
  <2> DEFINE w == Len(batch)
  <2>1. w \in Nat /\ 1 \in Int /\ w \in Int
    BY <1>3
  <2> HIDE DEF w
  <2>2. IsFiniteSet(1 .. w) /\ Cardinality(1 .. w) = IF 1 > w THEN 0 ELSE w - 1 + 1
    BY <2>1, FS_Interval
  <2> QED
    BY <2>1, <2>2 DEF w
<1>7. IsFiniteSet(Range(batch)) /\ Cardinality(Range(batch)) <= Len(batch)
  BY <1>5, <1>6, FS_Surjection
<1>8. Cardinality(Range(batch)) \in Nat
  BY <1>7, FS_CardinalityType
<1>9. Range(batch) \in SUBSET q
  BY <1>4 DEF Range
<1> QED
  BY <1>2, <1>3, <1>7, <1>8, <1>9, BatchingAssumption DEF batch

Draining(q, g) ==
    g = [k \in 0 .. Cardinality(q) |->
            IF k = 0 THEN q ELSE g[k - 1] \ Range(FairSelect(g[k - 1]))]

\* What is left in the bucket after so many batches
Remaining(q) == CHOOSE g : Draining(q, g)

LEMMA BatchesAre ==
    ASSUME NEW q, NEW at, NEW force
    PROVE  Batches(q, at, force) =
              [k \in 1 .. BatchCount(q, at, force) |-> FairSelect(Remaining(q)[k - 1])]
  BY DEF Batches, Remaining, Draining

LEMMA RemainingStep ==
    ASSUME items \in Seq(Item), NEW q \in SUBSET DOMAIN items
    PROVE  /\ Remaining(q) \in [0 .. Cardinality(q) -> SUBSET q]
           /\ Remaining(q)[0] = q
           /\ \A k \in 1 .. Cardinality(q) :
                 Remaining(q)[k] = Remaining(q)[k - 1] \ Range(FairSelect(Remaining(q)[k - 1]))
<1> DEFINE N == Cardinality(q)
           V == SUBSET q
           step == [p \in (1 .. N) \X V |-> p[2] \ Range(FairSelect(p[2]))]
<1>1. N \in Nat /\ q \in V
  BY SelectedFacts
<1>2. step \in [(1 .. N) \X V -> V]
  OBVIOUS
<1>3. \A k \in 1 .. N, v \in V : step[<<k, v>>] = v \ Range(FairSelect(v))
  OBVIOUS
<1> HIDE DEF N, V, step
<1>4. PICK g : StepIs(N, V, q, step, g)
  BY <1>1, <1>2, Recursion DEF StepsBy
<1>5. \A k \in 0 .. N : g[k] = IF k = 0 THEN q ELSE g[k - 1] \ Range(FairSelect(g[k - 1]))
  <2> SUFFICES ASSUME NEW k \in 0 .. N
               PROVE  g[k] = IF k = 0 THEN q ELSE g[k - 1] \ Range(FairSelect(g[k - 1]))
    OBVIOUS
  <2>1. CASE k = 0
    BY <1>4, <2>1 DEF StepIs
  <2>2. CASE k # 0
    <3>1. k \in 1 .. N /\ k - 1 \in 0 .. N /\ g[k - 1] \in V
      BY <1>1, <1>4, <2>2 DEF StepIs
    <3>2. g[k] = step[<<k, g[k - 1]>>]
      BY <1>4, <2>2 DEF StepIs
    <3> QED
      BY <1>3, <2>2, <3>1, <3>2
  <2> QED
    BY <2>1, <2>2
<1>6. Draining(q, g)
  BY <1>4, <1>5 DEF Draining, N, StepIs
<1>7. Draining(q, Remaining(q))
  BY <1>6 DEF Remaining
<1> DEFINE h == Remaining(q)
<1>8. /\ h = [k \in 0 .. N |-> h[k]]
      /\ \A k \in 0 .. N : h[k] = IF k = 0 THEN q ELSE h[k - 1] \ Range(FairSelect(h[k - 1]))
  <2> HIDE DEF h
  <2>1. Draining(q, h)
    BY <1>7 DEF h
  <2> QED
    BY <2>1 DEF Draining, N
<1> HIDE DEF h
<1> DEFINE C == {k \in Nat : k <= N /\ h[k] \notin V}
<1>9. C = {}
  <2>1. C \in SUBSET Nat /\ 0 \notin C
    BY <1>1, <1>8
  <2>2. ASSUME NEW n \in Nat, n + 1 \in C
        PROVE  n \in C
    <3>1. n + 1 \in 0 .. N /\ n + 1 # 0 /\ (n + 1) - 1 = n /\ h[n + 1] \notin V
      BY <1>1, <2>2
    <3>2. h[n + 1] = h[n] \ Range(FairSelect(h[n]))
      BY <1>8, <3>1
    <3>3. h[n] \notin V
      BY <3>1, <3>2 DEF V
    <3> QED
      BY <1>1, <3>1, <3>3
  <2> HIDE DEF C
  <2> QED
    BY <2>1, <2>2, NoLeast
<1>10. \A k \in 0 .. N : h[k] \in V
  BY <1>1, <1>9
<1>11. h \in [0 .. N -> V]
  BY <1>8, <1>10
<1> QED
  BY <1>1, <1>8, <1>11 DEF h, N, V

LEMMA RemainingShrinks ==
    ASSUME items \in Seq(Item), NEW q \in SUBSET DOMAIN items,
           NEW i \in 0 .. Cardinality(q), NEW j \in 0 .. Cardinality(q), i <= j
    PROVE  Remaining(q)[j] \in SUBSET Remaining(q)[i]
<1> DEFINE h == Remaining(q)
           N == Cardinality(q)
           C == {k \in Nat : i + k <= N /\ ~(h[i + k] \subseteq h[i])}
<1>0. N \in Nat
  BY SelectedFacts
<1>1. \A k \in 1 .. N : h[k] = h[k - 1] \ Range(FairSelect(h[k - 1]))
  BY RemainingStep
<1> HIDE DEF h, N
<1>2. C = {}
  <2>1. C \in SUBSET Nat /\ 0 \notin C
    BY <1>0 DEF N
  <2>2. ASSUME NEW n \in Nat, n + 1 \in C
        PROVE  n \in C
    <3>1. /\ i + (n + 1) \in 1 .. N /\ (i + (n + 1)) - 1 = i + n
          /\ i + n <= N /\ ~(h[i + (n + 1)] \subseteq h[i])
      BY <1>0, <2>2 DEF N
    <3>2. h[i + (n + 1)] = h[i + n] \ Range(FairSelect(h[i + n]))
      BY <1>1, <3>1
    <3> QED
      BY <3>1, <3>2
  <2> HIDE DEF C
  <2> QED
    BY <2>1, <2>2, NoLeast
<1>3. j - i \in Nat /\ i + (j - i) = j /\ j <= N
  BY <1>0 DEF N
<1>4. h[i + (j - i)] \subseteq h[i]
  BY <1>2, <1>3
<1> QED
  BY <1>3, <1>4 DEF h

LEMMA RemainingMany ==
    ASSUME items \in Seq(Item), NEW q \in SUBSET DOMAIN items, NEW k \in 0 .. Cardinality(q),
           k * MaxBatch < Cardinality(q)
    PROVE  Remaining(q)[k] # {}
<1> DEFINE h == Remaining(q)
           N == Cardinality(q)
           many(n) == n * MaxBatch + Cardinality(h[n])
           C == {n \in Nat : n <= N /\ ~(many(n) >= N)}
<1>0. N \in Nat /\ MaxBatch \in Nat
  BY SelectedFacts, BatchingAssumption
<1>1. /\ h \in [0 .. N -> SUBSET q] /\ h[0] = q
      /\ \A n \in 1 .. N : h[n] = h[n - 1] \ Range(FairSelect(h[n - 1]))
  BY RemainingStep
<1> HIDE DEF h
<1>2. \A v \in SUBSET q : /\ IsFiniteSet(v) /\ Cardinality(v) \in Nat
                          /\ Cardinality(v \ Range(FairSelect(v))) >= Cardinality(v) - MaxBatch
  <2> SUFFICES ASSUME NEW v \in SUBSET q
               PROVE  /\ IsFiniteSet(v) /\ Cardinality(v) \in Nat
                      /\ Cardinality(v \ Range(FairSelect(v))) >= Cardinality(v) - MaxBatch
    OBVIOUS
  <2>1. v \in SUBSET DOMAIN items
    OBVIOUS
  <2>2. /\ IsFiniteSet(v) /\ Cardinality(v) \in Nat
        /\ Range(FairSelect(v)) \in SUBSET v /\ Cardinality(Range(FairSelect(v))) <= MaxBatch
        /\ Cardinality(Range(FairSelect(v))) \in Nat
    BY <2>1, SelectedFacts
  <2>3. Cardinality(v \ Range(FairSelect(v))) = Cardinality(v) - Cardinality(v \cap Range(FairSelect(v)))
    BY <2>2, FS_Difference
  <2>4. v \cap Range(FairSelect(v)) = Range(FairSelect(v))
    BY <2>2
  <2>5. Cardinality(v \ Range(FairSelect(v))) = Cardinality(v) - Cardinality(Range(FairSelect(v)))
    BY <2>3, <2>4
  <2> DEFINE x == Cardinality(v)
             y == Cardinality(Range(FairSelect(v)))
             z == Cardinality(v \ Range(FairSelect(v)))
  <2>6. x \in Nat /\ y \in Nat /\ y <= MaxBatch /\ z = x - y
    BY <2>2, <2>5
  <2> HIDE DEF x, y, z
  <2>7. z >= x - MaxBatch
    BY <1>0, <2>6
  <2> QED
    BY <2>2, <2>7 DEF x, z
<1>3. C = {}
  <2>1. C \in SUBSET Nat /\ 0 \notin C
    BY <1>0, <1>1
  <2>2. ASSUME NEW n \in Nat, n + 1 \in C
        PROVE  n \in C
    <3>1. n + 1 \in 1 .. N /\ n \in 0 .. N /\ n <= N /\ (n + 1) - 1 = n /\ ~(many(n + 1) >= N)
      BY <1>0, <2>2
    <3>2. h[n + 1] = h[n] \ Range(FairSelect(h[n])) /\ h[n] \in SUBSET q
      BY <1>1, <3>1
    <3>3. /\ Cardinality(h[n]) \in Nat /\ Cardinality(h[n + 1]) >= Cardinality(h[n]) - MaxBatch
          /\ Cardinality(h[n + 1]) \in Nat
      BY <1>2, <3>2
    <3>4. (n + 1) * MaxBatch = n * MaxBatch + MaxBatch /\ n * MaxBatch \in Nat /\ (n + 1) * MaxBatch \in Nat
      BY <1>0
    <3>5. ~(many(n) >= N)
      BY <1>0, <3>1, <3>3, <3>4
    <3> QED
      BY <3>1, <3>5
  <2> HIDE DEF C
  <2> QED
    BY <2>1, <2>2, NoLeast
<1>4. many(k) >= N /\ k * MaxBatch \in Nat
  BY <1>0, <1>3
<1>5. CASE h[k] = {}
  <2>1. Cardinality(h[k]) = 0
    BY <1>5, FS_EmptySet
  <2> QED
    BY <1>0, <1>4, <2>1
<1> QED
  BY <1>5 DEF h

LEMMA Quotient ==
    ASSUME NEW a \in Nat, NEW b \in Nat \ {0}
    PROVE  a \div b \in Nat /\ (a \div b) * b <= a
  OBVIOUS

LEMMA BatchCountFacts ==
    ASSUME items \in Seq(Item), NEW q \in SUBSET DOMAIN items, NEW at, NEW force \in BOOLEAN
    PROVE  /\ BatchCount(q, at, force) \in 0 .. Cardinality(q)
           /\ \A k \in 1 .. BatchCount(q, at, force) : (k - 1) * MaxBatch < Cardinality(q)
<1> DEFINE N == Cardinality(q)
           c == BatchCount(q, at, force)
           full == N \div MaxBatch
           up == (N + MaxBatch - 1) \div MaxBatch
<1>1. N \in Nat /\ MaxBatch \in Nat \ {0} /\ (q = {} <=> N = 0)
  BY SelectedFacts, BatchingAssumption, FS_EmptySet
<1>2. full \in Nat /\ full * MaxBatch <= N
  BY <1>1, Quotient
<1>3. up \in Nat /\ up * MaxBatch <= N + MaxBatch - 1
  <2>1. N + MaxBatch - 1 \in Nat
    BY <1>1
  <2> QED
    BY <1>1, <2>1, Quotient
<1>4. c = 0 \/ (N > 0 /\ c \in {1, full, up})
  <2>1. Max({1, full}) \in {1, full}
    <3>1. \E x \in {1, full} : \A y \in {1, full} : x >= y
      BY <1>2
    <3> HIDE DEF full
    <3> QED
      BY <3>1 DEF Max
  <2>2. CASE q = {}
    BY <2>2 DEF BatchCount
  <2>3. CASE q # {} /\ force
    BY <1>1, <2>3 DEF BatchCount
  <2>4. CASE q # {} /\ ~force
    BY <1>1, <2>1, <2>4 DEF BatchCount
  <2> QED
    BY <2>2, <2>3, <2>4
<1> HIDE DEF N, c, full, up
<1>5. c \in Nat
  BY <1>2, <1>3, <1>4
<1>6. c = 0 \/ (c - 1) * MaxBatch < N
  <2>1. CASE c = 1 /\ N > 0
    BY <1>1, <2>1
  <2>2. CASE c = full /\ N > 0
    <3>1. (full - 1) * MaxBatch = full * MaxBatch - MaxBatch /\ full * MaxBatch \in Nat
      BY <1>1, <1>2
    <3> QED
      BY <1>1, <1>2, <2>2, <3>1
  <2>3. CASE c = up /\ N > 0
    <3>1. (up - 1) * MaxBatch = up * MaxBatch - MaxBatch /\ up * MaxBatch \in Nat
      BY <1>1, <1>3
    <3> QED
      BY <1>1, <1>3, <2>3, <3>1
  <2> QED
    BY <1>4, <2>1, <2>2, <2>3
<1>7. ASSUME NEW k \in 1 .. c
      PROVE  (k - 1) * MaxBatch < N
  <2>1. k - 1 \in Nat /\ c - 1 \in Nat /\ k - 1 <= c - 1
    BY <1>5
  <2>2. (k - 1) * MaxBatch <= (c - 1) * MaxBatch /\ (k - 1) * MaxBatch \in Nat /\ (c - 1) * MaxBatch \in Nat
    BY <1>1, <2>1
  <2> QED
    BY <1>1, <1>5, <1>6, <2>2
<1>8. c <= N
  <2>1. CASE c = 0
    BY <1>1, <2>1
  <2>2. CASE c # 0
    <3>1. c - 1 \in Nat /\ (c - 1) * MaxBatch < N
      BY <1>5, <1>6, <2>2
    <3>2. c - 1 <= (c - 1) * MaxBatch /\ (c - 1) * MaxBatch \in Nat
      BY <1>1, <3>1
    <3> QED
      BY <1>1, <1>5, <3>1, <3>2
  <2> QED
    BY <2>1, <2>2
<1> QED
  BY <1>1, <1>5, <1>7, <1>8 DEF N, c

\* No item is in two places of some batches.
Apart(batches) ==
    \A b, c \in DOMAIN batches : \A i \in DOMAIN batches[b], j \in DOMAIN batches[c] :
        batches[b][i] = batches[c][j] => b = c /\ i = j

Gone(batches) == UNION {Range(batch) : batch \in Range(batches)}

\* Batches of one bucket
Drains(q, batches) ==
    /\ batches \in Seq(Seq(q))
    /\ \A b \in DOMAIN batches : Len(batches[b]) \in 1 .. MaxBatch
    /\ Apart(batches)

LEMMA LoopTurn ==
    ASSUME items \in Seq(Item), NEW q \in SUBSET DOMAIN items, NEW at, NEW force \in BOOLEAN,
           NEW k \in 1 .. BatchCount(q, at, force)
    PROVE  /\ k \in 1 .. Cardinality(q) /\ k - 1 \in 0 .. Cardinality(q)
           /\ Remaining(q)[k - 1] \in SUBSET q /\ Remaining(q)[k - 1] # {}
           /\ Remaining(q)[k] = Remaining(q)[k - 1] \ Range(FairSelect(Remaining(q)[k - 1]))
           /\ Batches(q, at, force)[k] = FairSelect(Remaining(q)[k - 1])
<1>1. /\ Cardinality(q) \in Nat /\ BatchCount(q, at, force) \in 0 .. Cardinality(q)
      /\ (k - 1) * MaxBatch < Cardinality(q)
  BY SelectedFacts, BatchCountFacts
<1>2. k \in 1 .. Cardinality(q) /\ k - 1 \in 0 .. Cardinality(q)
  BY <1>1
<1>3. /\ Remaining(q)[k - 1] \in SUBSET q
      /\ Remaining(q)[k] = Remaining(q)[k - 1] \ Range(FairSelect(Remaining(q)[k - 1]))
  BY <1>2, RemainingStep
<1>4. Remaining(q)[k - 1] # {}
  BY <1>1, <1>2, RemainingMany
<1>5. Batches(q, at, force)[k] = FairSelect(Remaining(q)[k - 1])
  BY BatchesAre
<1> QED
  BY <1>2, <1>3, <1>4, <1>5

LEMMA BatchesDrain ==
    ASSUME items \in Seq(Item), NEW q \in SUBSET DOMAIN items, NEW at, NEW force \in BOOLEAN
    PROVE  Drains(q, Batches(q, at, force))
<1> DEFINE h == Remaining(q)
           N == Cardinality(q)
           c == BatchCount(q, at, force)
           batches == Batches(q, at, force)
<1>1. N \in Nat /\ c \in 0 .. N
  BY SelectedFacts, BatchCountFacts
<1>2. DOMAIN batches = 1 .. c /\ batches = [k \in 1 .. c |-> batches[k]]
  BY BatchesAre
<1>3. ASSUME NEW k \in 1 .. c
      PROVE  /\ k \in 1 .. N /\ k - 1 \in 0 .. N /\ h[k - 1] \in SUBSET q /\ h[k - 1] # {}
             /\ h[k - 1] \in SUBSET DOMAIN items
             /\ h[k] = h[k - 1] \ Range(FairSelect(h[k - 1]))
             /\ batches[k] = FairSelect(h[k - 1])
  BY LoopTurn
<1> HIDE DEF c, batches
<1>4. ASSUME NEW k \in 1 .. c
      PROVE  /\ batches[k] \in Seq(q) /\ Len(batches[k]) \in 1 .. MaxBatch
             /\ batches[k] \in Seq(h[k - 1])
             /\ \A i, j \in DOMAIN batches[k] : batches[k][i] = batches[k][j] => i = j
             /\ h[k] = h[k - 1] \ Range(batches[k])
  <2> DEFINE v == h[k - 1]
             batch == batches[k]
  <2>1. v \in SUBSET q /\ v # {} /\ v \in SUBSET DOMAIN items /\ batch = FairSelect(v)
    BY <1>3
  <2>2. h[k] = v \ Range(batch)
    BY <1>3, <2>1
  <2> HIDE DEF v, batch
  <2>3. Selected(v, batch) /\ Len(batch) <= MaxBatch /\ Len(batch) > 0
    BY <2>1, FairSelection, SelectedFacts
  <2>4. batch \in Seq(v) /\ \A i \in DOMAIN batch : Place(batch[i], v) = i - 1
    BY <2>3 DEF Selected
  <2>5. batch \in Seq(q) /\ Len(batch) \in 1 .. MaxBatch
    BY <2>1, <2>3, <2>4, BatchingAssumption
  <2>6. \A i, j \in DOMAIN batch : batch[i] = batch[j] => i = j
    <3> SUFFICES ASSUME NEW i \in DOMAIN batch, NEW j \in DOMAIN batch, batch[i] = batch[j]
                 PROVE  i = j
      OBVIOUS
    <3>1. i - 1 = j - 1
      BY <2>4
    <3>2. i \in Int /\ j \in Int
      BY <2>4
    <3> QED
      BY <3>1, <3>2
  <2> QED
    BY <2>2, <2>4, <2>5, <2>6 DEF v, batch
<1>5. DOMAIN batches = 1 .. c /\ batches \in Seq(Seq(q))
  <2> HIDE DEF h, N
  <2>1. c \in Nat /\ \A k \in 1 .. c : batches[k] \in Seq(q)
    BY <1>1, <1>4
  <2> QED
    BY <1>2, <2>1
<1>6. ASSUME NEW a \in 1 .. c, NEW b \in 1 .. c, a < b,
             NEW i \in DOMAIN batches[a], NEW j \in DOMAIN batches[b]
      PROVE  batches[a][i] # batches[b][j]
  <2>1. a \in 1 .. N /\ a \in 0 .. N /\ b - 1 \in 0 .. N /\ a <= b - 1
    BY <1>1, <1>6
  <2>2. h[b - 1] \in SUBSET h[a]
    BY <2>1, RemainingShrinks
  <2>3. batches[b][j] \in h[b - 1]
    BY <1>4
  <2>4. h[a] = h[a - 1] \ Range(batches[a]) /\ batches[a][i] \in Range(batches[a])
    BY <1>4, <2>1 DEF Range
  <2> QED
    BY <2>2, <2>3, <2>4
<1>7. Apart(batches)
  <2> SUFFICES ASSUME NEW a \in 1 .. c, NEW b \in 1 .. c,
                      NEW i \in DOMAIN batches[a], NEW j \in DOMAIN batches[b],
                      batches[a][i] = batches[b][j]
               PROVE  a = b /\ i = j
    BY <1>5 DEF Apart
  <2>1. a = b
    <3>1. ~(a < b) /\ ~(b < a)
      BY <1>6
    <3>2. a \in Int /\ b \in Int
      BY <1>1
    <3> QED
      BY <3>1, <3>2
  <2> QED
    BY <1>4, <2>1
<1> QED
  BY <1>4, <1>5, <1>7 DEF Drains, batches

-----------------------------------------------------------------------------
\* What leaves a bucket is what is most urgent of each session.

FirstGo(q, gone) ==
    /\ gone \in SUBSET q
    /\ \A m \in gone, n \in q \ gone : SessionOf(m) = SessionOf(n) => Before(m, n)
    /\ gone # {} /\ Cardinality(SessionsIn(q)) <= MaxBatch => SessionsIn(gone) = SessionsIn(q)

LEMMA SelectsUrgent ==
    ASSUME items \in Seq(Item), NEW q \in SUBSET DOMAIN items,
           NEW m \in Range(FairSelect(q)), NEW n \in q \ Range(FairSelect(q)),
           SessionOf(m) = SessionOf(n)
    PROVE  Before(m, n)
<1>1. Range(FairSelect(q)) = {x \in q : Place(x, q) < MaxBatch}
  BY FairSelection DEF Selected
<1>2. m \in q /\ n \in q /\ Place(m, q) < MaxBatch /\ ~(Place(n, q) < MaxBatch)
  BY <1>1
<1> SUFFICES ASSUME ~Before(m, n)
             PROVE  FALSE
  OBVIOUS
<1>3. Before(n, m)
  BY <1>1, <1>2, BeforeOrder
<1>4. Round(n, q) < Round(m, q)
  BY <1>2, <1>3, RoundFacts
<1>5. <<n, m>> \in Turns(q)
  BY <1>2, <1>4, TurnsOrdered DEF TurnBefore
<1>6. Ranked(q, Turns(q)) /\ \A x \in q : Place(x, q) = Cardinality(Below(q, Turns(q), x))
  BY TurnsOrdered, Ranks
<1>7. Place(n, q) < Place(m, q) /\ Place(n, q) \in Int /\ Place(m, q) \in Int
  BY <1>2, <1>5, <1>6 DEF Ranked
<1> QED
  BY <1>2, <1>7, BatchingAssumption

LEMMA MostUrgent ==
    ASSUME items \in Seq(Item), NEW q \in SUBSET DOMAIN items, NEW s \in SessionsIn(q)
    PROVE  \E n \in q : SessionOf(n) = s /\ Round(n, q) = 0
<1> DEFINE own == {n \in q : SessionOf(n) = s}
           rounds == {Round(n, q) : n \in own}
<1>1. rounds \in SUBSET Nat /\ rounds # {}
  <2>1. \A n \in q : Round(n, q) \in Nat
    BY RoundFacts
  <2>2. \E n \in q : SessionOf(n) = s
    BY DEF SessionsIn
  <2> QED
    BY <2>1, <2>2
<1>2. PICK k \in rounds : \A i \in rounds : k <= i
  <2> HIDE DEF rounds
  <2> QED
    BY <1>1, LeastNat
<1>3. PICK n \in own : k = Round(n, q)
  OBVIOUS
<1>4. CASE k # 0
  <2> DEFINE earlier == {m \in q : SessionOf(m) = SessionOf(n) /\ Before(m, n)}
  <2>1. Round(n, q) = Cardinality(earlier)
    BY DEF Round
  <2>2. earlier # {}
    BY <1>3, <1>4, <2>1, FS_EmptySet
  <2>3. PICK m \in earlier : TRUE
    BY <2>2
  <2>4. m \in q /\ m \in own /\ Round(m, q) < Round(n, q)
    BY <1>3, <2>3, RoundFacts
  <2>5. k <= Round(m, q) /\ Round(m, q) \in Nat /\ k \in Nat
    BY <1>1, <1>2, <2>4
  <2> QED
    BY <1>3, <2>4, <2>5
<1> QED
  BY <1>3, <1>4

LEMMA EverySessionHasATurn ==
    ASSUME items \in Seq(Item), NEW q \in SUBSET DOMAIN items,
           Cardinality(SessionsIn(q)) <= MaxBatch
    PROVE  SessionsIn(Range(FairSelect(q))) = SessionsIn(q)
<1>1. IsFiniteSet(q) /\ Range(FairSelect(q)) = {x \in q : Place(x, q) < MaxBatch}
  BY FairSelection, SelectedFacts DEF Selected
<1>2. IsFiniteSet(SessionsIn(q)) /\ Cardinality(SessionsIn(q)) \in Nat
  <2> DEFINE f == [n \in q |-> SessionOf(n)]
  <2>1. f \in Surjection(q, SessionsIn(q))
    BY DEF Surjection, SessionsIn
  <2> QED
    BY <1>1, <2>1, FS_Surjection, FS_CardinalityType
<1>3. ASSUME NEW s \in SessionsIn(q)
      PROVE  \E n \in Range(FairSelect(q)) : SessionOf(n) = s
  <2>1. PICK n \in q : SessionOf(n) = s /\ Round(n, q) = 0
    BY MostUrgent
  <2> DEFINE before == {m \in q : TurnBefore(m, n, q)}
             others == SessionsIn(q) \ {s}
             f == [m \in before |-> SessionOf(m)]
  <2>2. \A m \in q : Round(m, q) \in Nat /\ SessionOf(m) \in Nat
    <3>1. \A m \in q : SessionOf(m) \in Nat
      BY ItemFacts DEF SessionOf
    <3> QED
      BY <3>1, RoundFacts
  <2>3. \A m \in before : m \in q /\ Round(m, q) = 0 /\ SessionOf(m) < s
    BY <2>1, <2>2 DEF TurnBefore
  <2>4. s \in Nat
    BY <2>1, <2>2
  <2>5. \A m \in before : f[m] \in others
    BY <2>2, <2>3, <2>4 DEF SessionsIn
  <2>6. \A l, m \in before : f[l] = f[m] => l = m
    BY <2>3, RoundFacts
  <2> HIDE DEF before
  <2>7. f \in Injection(before, others)
    BY <2>5, <2>6 DEF Injection, IsInjective
  <2>8. IsFiniteSet(others) /\ Cardinality(others) = Cardinality(SessionsIn(q)) - 1
    BY <1>2, FS_RemoveElement
  <2>9. IsFiniteSet(before) /\ Cardinality(before) <= Cardinality(others)
    BY <2>7, <2>8, FS_Injection
  <2>10. Cardinality(before) \in Nat
    BY <2>9, FS_CardinalityType
  <2>11. Place(n, q) = Cardinality(before)
    BY DEF Place, before
  <2>12. Place(n, q) < MaxBatch
    BY <1>2, <2>8, <2>9, <2>10, <2>11, BatchingAssumption
  <2> QED
    BY <1>1, <2>1, <2>12
<1>4. Range(FairSelect(q)) \in SUBSET q
  BY <1>1
<1> QED
  BY <1>3, <1>4 DEF SessionsIn

LEMMA FlushTakesUrgent ==
    ASSUME items \in Seq(Item), NEW q \in SUBSET DOMAIN items, NEW at, NEW force \in BOOLEAN
    PROVE  FirstGo(q, Gone(Batches(q, at, force)))
<1> DEFINE h == Remaining(q)
           c == BatchCount(q, at, force)
           batches == Batches(q, at, force)
           gone == Gone(batches)
<1>1. DOMAIN batches = 1 .. c /\ c \in Nat
  <2>1. DOMAIN batches = 1 .. c
    BY BatchesAre
  <2>2. Cardinality(q) \in Nat /\ c \in 0 .. Cardinality(q)
    BY BatchCountFacts, SelectedFacts
  <2> QED
    BY <2>1, <2>2
<1>2. ASSUME NEW k \in 1 .. c
      PROVE  /\ h[k - 1] \in SUBSET q /\ h[k - 1] \in SUBSET DOMAIN items
             /\ h[k] = h[k - 1] \ Range(FairSelect(h[k - 1])) /\ Range(FairSelect(h[k - 1])) \in SUBSET q
             /\ batches[k] = FairSelect(h[k - 1])
  <2>1. /\ h[k - 1] \in SUBSET q /\ h[k - 1] \in SUBSET DOMAIN items
        /\ h[k] = h[k - 1] \ Range(FairSelect(h[k - 1])) /\ batches[k] = FairSelect(h[k - 1])
    BY LoopTurn
  <2> HIDE DEF h, batches, c
  <2>2. Range(FairSelect(h[k - 1])) \in SUBSET h[k - 1]
    BY <2>1, SelectedFacts
  <2> QED
    BY <2>1, <2>2
<1>3. h[0] = q
  BY RemainingStep
<1> HIDE DEF h, batches, c
<1>4. \A m : m \in gone <=> \E k \in 1 .. c : m \in Range(FairSelect(h[k - 1]))
  <2>1. \A m : m \in gone <=> \E k \in 1 .. c : m \in Range(batches[k])
    <3>1. Range(batches) = {batches[k] : k \in 1 .. c}
      BY <1>1 DEF Range
    <3> QED
      BY <3>1 DEF Gone
  <2> QED
    BY <1>2, <2>1
<1> HIDE DEF gone
<1>5. ASSUME NEW n \in q, n \notin gone, NEW k \in 0 .. c
      PROVE  n \in h[k]
  <2> DEFINE C == {j \in Nat : j <= c /\ n \notin h[j]}
  <2>1. C \in SUBSET Nat /\ 0 \notin C
    BY <1>3
  <2>2. ASSUME NEW j \in Nat, j + 1 \in C
        PROVE  j \in C
    <3>1. j + 1 \in 1 .. c /\ (j + 1) - 1 = j /\ j <= c /\ n \notin h[j + 1]
      BY <1>1, <2>2
    <3>2. h[j + 1] = h[j] \ Range(FairSelect(h[j])) /\ n \notin Range(FairSelect(h[j]))
      BY <1>2, <1>4, <1>5, <3>1
    <3> QED
      BY <3>1, <3>2
  <2>3. C = {}
    <3> HIDE DEF C
    <3> QED
      BY <2>1, <2>2, NoLeast
  <2> QED
    BY <1>1, <2>3
<1>6. gone \in SUBSET q
  BY <1>2, <1>4
<1>7. ASSUME NEW m \in gone, NEW n \in q \ gone, SessionOf(m) = SessionOf(n)
      PROVE  Before(m, n)
  <2>1. PICK k \in 1 .. c : m \in Range(FairSelect(h[k - 1]))
    BY <1>4
  <2>2. k - 1 \in 0 .. c
    BY <1>1
  <2>3. n \in h[k - 1] /\ n \notin Range(FairSelect(h[k - 1]))
    BY <1>4, <1>5, <2>2
  <2>4. h[k - 1] \in SUBSET DOMAIN items
    BY <1>2
  <2> QED
    BY <1>7, <2>1, <2>3, <2>4, SelectsUrgent
<1>8. ASSUME gone # {}, Cardinality(SessionsIn(q)) <= MaxBatch
      PROVE  SessionsIn(gone) = SessionsIn(q)
  <2>1. 1 \in 1 .. c /\ 1 - 1 = 0
    BY <1>1, <1>4, <1>8
  <2>2. Range(FairSelect(q)) \in SUBSET gone
    BY <1>3, <1>4, <2>1
  <2>3. SessionsIn(Range(FairSelect(q))) = SessionsIn(q)
    BY <1>8, EverySessionHasATurn
  <2> QED
    BY <1>6, <2>2, <2>3 DEF SessionsIn
<1> QED
  BY <1>6, <1>7, <1>8 DEF FirstGo, gone, batches

-----------------------------------------------------------------------------
\* One flush over all buckets

OneBucket(batches) ==
    \A b \in DOMAIN batches : \A i, j \in DOMAIN batches[b] :
        BucketOf(items[batches[b][i]].chunk) = BucketOf(items[batches[b][j]].chunk)

LEMMA JoinedPlaces ==
    ASSUME NEW S, NEW A \in Seq(S), NEW B \in Seq(S)
    PROVE  /\ A \o B \in Seq(S)
           /\ \A k \in DOMAIN (A \o B) : \/ k \in DOMAIN A /\ (A \o B)[k] = A[k]
                                         \/ k - Len(A) \in DOMAIN B /\ (A \o B)[k] = B[k - Len(A)]
           /\ Range(A \o B) = Range(A) \cup Range(B)
<1>1. A \o B \in Seq(S) /\ Len(A \o B) = Len(A) + Len(B)
  OBVIOUS
<1>2. /\ \A k \in 1 .. Len(A) : k \in 1 .. Len(A) + Len(B) /\ (A \o B)[k] = A[k]
      /\ \A k \in 1 .. Len(B) : k + Len(A) \in 1 .. Len(A) + Len(B) /\ (A \o B)[k + Len(A)] = B[k]
  OBVIOUS
<1>3. ASSUME NEW k \in 1 .. Len(A) + Len(B)
      PROVE  \/ k \in 1 .. Len(A) /\ (A \o B)[k] = A[k]
             \/ k - Len(A) \in 1 .. Len(B) /\ (A \o B)[k] = B[k - Len(A)]
  OBVIOUS
<1>4. DOMAIN A = 1 .. Len(A) /\ DOMAIN B = 1 .. Len(B) /\ DOMAIN (A \o B) = 1 .. Len(A) + Len(B)
  BY <1>1
<1> DEFINE J == A \o B
           a == Len(A)
           b == Len(B)
<1>5. /\ DOMAIN A = 1 .. a /\ DOMAIN B = 1 .. b /\ DOMAIN J = 1 .. a + b
      /\ \A k \in 1 .. a : k \in 1 .. a + b /\ J[k] = A[k]
      /\ \A k \in 1 .. b : k + a \in 1 .. a + b /\ J[k + a] = B[k]
      /\ \A k \in 1 .. a + b : \/ k \in 1 .. a /\ J[k] = A[k]
                               \/ k - a \in 1 .. b /\ J[k] = B[k - a]
  BY <1>2, <1>3, <1>4
<1> HIDE DEF J, a, b
<1>6. ASSUME NEW x
      PROVE  x \in Range(J) <=> x \in Range(A) \cup Range(B)
  <2>1. ASSUME NEW k \in DOMAIN J
        PROVE  J[k] \in Range(A) \cup Range(B)
    BY <1>5 DEF Range
  <2>2. ASSUME NEW k \in DOMAIN A
        PROVE  A[k] \in Range(J)
    BY <1>5 DEF Range
  <2>3. ASSUME NEW k \in DOMAIN B
        PROVE  B[k] \in Range(J)
    BY <1>5 DEF Range
  <2> QED
    BY <2>1, <2>2, <2>3 DEF Range
<1>7. Range(J) = Range(A) \cup Range(B)
  BY <1>6
<1> QED
  BY <1>1, <1>3, <1>4, <1>7 DEF J

\* Two queues without a common chunk, and batches that each drain one
Separate(p, q, A, B) ==
    /\ p \cap q = {}
    /\ Drains(p, A) /\ OneBucket(A)
    /\ Drains(q, B) /\ OneBucket(B)

Joined(p, q, A, B) ==
    Drains(p \cup q, A \o B) /\ OneBucket(A \o B) /\ Gone(A \o B) = Gone(A) \cup Gone(B)

LEMMA JoinedDrain == \A p, q, A, B : Separate(p, q, A, B) => Joined(p, q, A, B)
<1> SUFFICES ASSUME NEW p, NEW q, NEW A, NEW B, Separate(p, q, A, B)
             PROVE  Joined(p, q, A, B)
  OBVIOUS
<1>0. p \cap q = {} /\ Drains(p, A) /\ OneBucket(A) /\ Drains(q, B) /\ OneBucket(B)
  BY DEF Separate
<1>1. /\ A \in Seq(Seq(p)) /\ B \in Seq(Seq(q))
      /\ A \in Seq(Seq(p \cup q)) /\ B \in Seq(Seq(p \cup q))
  <2>1. A \in Seq(Seq(p)) /\ B \in Seq(Seq(q))
    BY <1>0 DEF Drains
  <2>2. Seq(p) \in SUBSET Seq(p \cup q) /\ Seq(q) \in SUBSET Seq(p \cup q)
    OBVIOUS
  <2> QED
    BY <2>1, <2>2
<1> DEFINE J == A \o B
<1>2. /\ J \in Seq(Seq(p \cup q))
      /\ \A k \in DOMAIN J : \/ k \in DOMAIN A /\ J[k] = A[k]
                             \/ k - Len(A) \in DOMAIN B /\ J[k] = B[k - Len(A)]
      /\ Range(J) = Range(A) \cup Range(B)
  BY <1>1, JoinedPlaces
<1> HIDE DEF J
<1>3. Gone(J) = Gone(A) \cup Gone(B)
  BY <1>2 DEF Gone
<1>4. \A k \in DOMAIN J : Len(J[k]) \in 1 .. MaxBatch
  BY <1>0, <1>2 DEF Drains
<1>5. OneBucket(J)
  BY <1>0, <1>2 DEF OneBucket
<1>6. ASSUME NEW b \in DOMAIN J, NEW c \in DOMAIN J, NEW i \in DOMAIN J[b], NEW j \in DOMAIN J[c],
             J[b][i] = J[c][j]
      PROVE  b = c /\ i = j
  <2>1. /\ \A k \in DOMAIN A : \A e \in DOMAIN A[k] : A[k][e] \in p
        /\ \A k \in DOMAIN B : \A e \in DOMAIN B[k] : B[k][e] \in q
    BY <1>1
  <2>2. b \in Int /\ c \in Int /\ Len(A) \in Nat
    BY <1>1, <1>2
  <2>3. CASE b \in DOMAIN A /\ J[b] = A[b] /\ c \in DOMAIN A /\ J[c] = A[c]
    BY <1>0, <1>6, <2>3 DEF Drains, Apart
  <2>4. CASE /\ b - Len(A) \in DOMAIN B /\ J[b] = B[b - Len(A)]
             /\ c - Len(A) \in DOMAIN B /\ J[c] = B[c - Len(A)]
    <3>1. b - Len(A) = c - Len(A) /\ i = j
      BY <1>0, <1>6, <2>4 DEF Drains, Apart
    <3> QED
      BY <2>2, <3>1
  <2>5. CASE b \in DOMAIN A /\ J[b] = A[b] /\ c - Len(A) \in DOMAIN B /\ J[c] = B[c - Len(A)]
    BY <1>0, <1>6, <2>1, <2>5
  <2>6. CASE c \in DOMAIN A /\ J[c] = A[c] /\ b - Len(A) \in DOMAIN B /\ J[b] = B[b - Len(A)]
    BY <1>0, <1>6, <2>1, <2>6
  <2> QED
    BY <1>2, <2>3, <2>4, <2>5, <2>6
<1>7. Apart(J)
  BY <1>6 DEF Apart
<1> QED
  BY <1>2, <1>3, <1>4, <1>5, <1>7 DEF Drains, J, Joined

LEMMA Buckets ==
    /\ Bucket("long") \in SUBSET queued /\ Bucket("medium") \in SUBSET queued
    /\ Bucket("short") \in SUBSET queued
    /\ Bucket("long") \cap Bucket("medium") = {} /\ Bucket("long") \cap Bucket("short") = {}
    /\ Bucket("medium") \cap Bucket("short") = {}
  BY DEF Bucket

LEMMA OneBucketDrains ==
    ASSUME items \in Seq(Item), queued \in SUBSET DOMAIN items, NEW b,
           NEW at, NEW force \in BOOLEAN
    PROVE  /\ Drains(Bucket(b), Batches(Bucket(b), at, force))
           /\ OneBucket(Batches(Bucket(b), at, force))
           /\ FirstGo(Bucket(b), Gone(Batches(Bucket(b), at, force)))
<1> DEFINE q == Bucket(b)
           B == Batches(q, at, force)
<1>1. q \in SUBSET DOMAIN items /\ \A n \in q : BucketOf(items[n].chunk) = b
  BY DEF Bucket
<1> HIDE DEF q
<1>2. Drains(q, B) /\ FirstGo(q, Gone(B))
  BY <1>1, BatchesDrain, FlushTakesUrgent
<1> HIDE DEF B
<1>3. \A k \in DOMAIN B : \A i \in DOMAIN B[k] : B[k][i] \in q
  BY <1>2 DEF Drains
<1>4. OneBucket(B)
  BY <1>1, <1>3 DEF OneBucket
<1> QED
  BY <1>2, <1>4 DEF q, B

\* What pop_ready takes
Takes(batches) ==
    /\ Drains(queued, batches)
    /\ OneBucket(batches)
    /\ \A b \in Range(BucketOrder) : FirstGo(Bucket(b), Bucket(b) \cap Gone(batches))

LEMMA RipeTakes ==
    ASSUME items \in Seq(Item), queued \in SUBSET DOMAIN items, NEW at, NEW force \in BOOLEAN
    PROVE  Takes(Ripe(at, force))
<1> DEFINE L == Bucket("long")
           M == Bucket("medium")
           S == Bucket("short")
           BL == Batches(L, at, force)
           BM == Batches(M, at, force)
           BS == Batches(S, at, force)
<1>1. /\ Drains(L, BL) /\ OneBucket(BL) /\ FirstGo(L, Gone(BL))
      /\ Drains(M, BM) /\ OneBucket(BM) /\ FirstGo(M, Gone(BM))
      /\ Drains(S, BS) /\ OneBucket(BS) /\ FirstGo(S, Gone(BS))
  BY OneBucketDrains
<1>2. Ripe(at, force) = BL \o BM \o BS
  BY DEF Ripe, BucketOrder
<1>3. /\ L \in SUBSET queued /\ M \in SUBSET queued /\ S \in SUBSET queued
      /\ L \cap M = {} /\ L \cap S = {} /\ M \cap S = {}
  BY Buckets
<1> HIDE DEF L, M, S, BL, BM, BS
<1>4. /\ Drains(L \cup M, BL \o BM) /\ OneBucket(BL \o BM)
      /\ Gone(BL \o BM) = Gone(BL) \cup Gone(BM)
  <2>1. Separate(L, M, BL, BM)
    BY <1>1, <1>3 DEF Separate
  <2>2. Joined(L, M, BL, BM)
    BY <2>1, JoinedDrain
  <2> QED
    BY <2>2, Zenon DEF Joined
<1> DEFINE lm == BL \o BM
<1>5. (L \cup M) \cap S = {}
  BY <1>3
<1> HIDE DEF lm
<1>6. /\ Drains((L \cup M) \cup S, lm \o BS) /\ OneBucket(lm \o BS)
      /\ Gone(lm \o BS) = Gone(lm) \cup Gone(BS)
  <2>1. Separate(L \cup M, S, lm, BS)
    BY <1>1, <1>4, <1>5 DEF Separate, lm
  <2>2. Joined(L \cup M, S, lm, BS)
    BY <2>1, JoinedDrain
  <2> QED
    BY <2>2, Zenon DEF Joined
<1> DEFINE ripe == lm \o BS
<1>7. ripe = Ripe(at, force)
  BY <1>2 DEF lm
<1> HIDE DEF ripe
<1>8. Drains(queued, ripe)
  <2>1. Seq((L \cup M) \cup S) \in SUBSET Seq(queued)
    BY <1>3
  <2> QED
    BY <1>6, <2>1 DEF Drains, ripe
<1>9. Gone(ripe) = Gone(BL) \cup Gone(BM) \cup Gone(BS)
  BY <1>4, <1>6 DEF lm, ripe
<1>10. L \cap Gone(ripe) = Gone(BL) /\ M \cap Gone(ripe) = Gone(BM) /\ S \cap Gone(ripe) = Gone(BS)
  <2>1. Gone(BL) \in SUBSET L /\ Gone(BM) \in SUBSET M /\ Gone(BS) \in SUBSET S
    BY <1>1 DEF FirstGo
  <2> QED
    BY <1>3, <1>9, <2>1
<1>11. Range(BucketOrder) = {"long", "medium", "short"}
  <2>1. DOMAIN BucketOrder = 1 .. 3
    BY DEF BucketOrder
  <2> QED
    BY <2>1 DEF BucketOrder, Range
<1>12. \A b \in Range(BucketOrder) : FirstGo(Bucket(b), Bucket(b) \cap Gone(ripe))
  BY <1>1, <1>10, <1>11 DEF L, M, S
<1> QED
  BY <1>6, <1>7, <1>8, <1>12 DEF Takes, ripe

-----------------------------------------------------------------------------
\* What hearing one voice and then a sequence of them makes of the store

\* No two profiles of a session are of one voice.
Distinct(sp) ==
    \A i, j \in DOMAIN sp.profiles : sp.profiles[i].voice = sp.profiles[j].voice => i = j

\* Every speaker keeps its number, its voice and its name.
Grows(old, new) ==
    \A k \in DOMAIN old.profiles :
        /\ k \in DOMAIN new.profiles
        /\ new.profiles[k].voice = old.profiles[k].voice
        /\ old.profiles[k].named => new.profiles[k].named

Knows(sp, voice) == \E k \in DOMAIN sp.profiles : sp.profiles[k].voice = voice

GoodStores == {st \in [Sessions -> SpeakerSession] : \A s \in Sessions : Distinct(st[s])}

LEMMA SessionFacts ==
    ASSUME NEW sp \in SpeakerSession
    PROVE  /\ sp.profiles \in Seq([voice: Voices, named: BOOLEAN])
           /\ Len(sp.profiles) \in Nat /\ DOMAIN sp.profiles = 1 .. Len(sp.profiles)
           /\ sp.next = Len(sp.profiles) + 1
           /\ \A k \in DOMAIN sp.profiles : sp.profiles[k].voice \in Voices
<1> DEFINE ps == sp.profiles
           P == [voice: Voices, named: BOOLEAN]
<1>1. ps \in Seq(P) /\ sp.next = Len(ps) + 1
  BY DEF SpeakerSession
<1> HIDE DEF ps
<1>2. Len(ps) \in Nat /\ DOMAIN ps = 1 .. Len(ps) /\ \A k \in DOMAIN ps : ps[k] \in P
  <2> HIDE DEF P
  <2> QED
    BY <1>1
<1>3. \A k \in DOMAIN ps : ps[k].voice \in Voices
  BY <1>2
<1> QED
  BY <1>1, <1>2, <1>3 DEF ps

LEMMA SpeakerOfFacts ==
    ASSUME NEW sp \in SpeakerSession, NEW voice
    PROVE  /\ SpeakerOf(sp, voice) # 0 <=> Knows(sp, voice)
           /\ Knows(sp, voice) => /\ SpeakerOf(sp, voice) \in DOMAIN sp.profiles
                                  /\ sp.profiles[SpeakerOf(sp, voice)].voice = voice
<1> DEFINE known == {k \in DOMAIN sp.profiles : sp.profiles[k].voice = voice}
<1>1. SpeakerOf(sp, voice) = IF known = {} THEN 0 ELSE CHOOSE k \in known : TRUE
  BY DEF SpeakerOf
<1>2. known # {} <=> Knows(sp, voice)
  BY DEF Knows
<1>3. known # {} => SpeakerOf(sp, voice) \in known
  BY <1>1
<1>4. 0 \notin DOMAIN sp.profiles
  BY SessionFacts
<1> QED
  BY <1>1, <1>2, <1>3, <1>4

LEMMA AssignedFacts ==
    ASSUME NEW sp \in SpeakerSession, Distinct(sp), NEW voice \in Voices
    PROVE  /\ Assigned(sp, voice) \in SpeakerSession /\ Distinct(Assigned(sp, voice))
           /\ Grows(sp, Assigned(sp, voice))
           /\ \A v : Knows(Assigned(sp, voice), v) <=> Knows(sp, v) \/ v = voice
<1>1. CASE Knows(sp, voice)
  <2>1. Assigned(sp, voice) = sp
    BY <1>1, SpeakerOfFacts DEF Assigned
  <2> QED
    BY <1>1, <2>1 DEF Grows
<1>2. CASE ~Knows(sp, voice)
  <2> DEFINE n == Len(sp.profiles)
             ps == [k \in DOMAIN sp.profiles \cup {sp.next} |->
                      IF k = sp.next THEN [voice |-> voice, named |-> FALSE] ELSE sp.profiles[k]]
             new == [next |-> sp.next + 1, profiles |-> ps]
  <2>1. Assigned(sp, voice) = new
    BY <1>2, SpeakerOfFacts DEF Assigned
  <2>2. n \in Nat /\ sp.next = n + 1 /\ DOMAIN sp.profiles = 1 .. n
    BY SessionFacts
  <2>3. /\ DOMAIN sp.profiles \cup {sp.next} = 1 .. n + 1
        /\ \A k \in 1 .. n + 1 : k \in DOMAIN sp.profiles <=> k # n + 1
    BY <2>2
  <2> DEFINE P == [voice: Voices, named: BOOLEAN]
  <2>4. ps \in [1 .. n + 1 -> P]
    <3>1. [voice |-> voice, named |-> FALSE] \in P
      OBVIOUS
    <3>2. \A k \in 1 .. n : sp.profiles[k] \in P
      <4>1. sp.profiles \in Seq(P)
        BY SessionFacts
      <4> HIDE DEF P, ps, new, n
      <4> QED
        BY <2>2, <4>1
    <3> HIDE DEF P, n
    <3>3. \A k \in DOMAIN sp.profiles \cup {sp.next} :
             (IF k = sp.next THEN [voice |-> voice, named |-> FALSE] ELSE sp.profiles[k]) \in P
      BY <2>2, <3>1, <3>2
    <3> QED
      BY <2>3, <3>3
  <2>5. ps \in Seq(P) /\ Len(ps) = n + 1
    <3> HIDE DEF P, n, ps
    <3> QED
      BY <2>2, <2>4
  <2>6. /\ \A k \in DOMAIN sp.profiles : ps[k] = sp.profiles[k]
        /\ ps[n + 1].voice = voice
        /\ DOMAIN ps = 1 .. n + 1
    BY <2>2, <2>3
  <2> HIDE DEF ps, n
  <2>7. new \in SpeakerSession
    BY <2>2, <2>5 DEF SpeakerSession
  <2>8. new.profiles = ps
    OBVIOUS
  <2> HIDE DEF new
  <2>9. Distinct(new)
    BY <1>2, <2>2, <2>3, <2>6, <2>8 DEF Distinct, Knows
  <2>10. Grows(sp, new)
    BY <2>3, <2>6, <2>8 DEF Grows
  <2>11. ASSUME NEW v
         PROVE  Knows(new, v) <=> Knows(sp, v) \/ v = voice
    <3>1. \A k \in DOMAIN sp.profiles : k \in 1 .. n + 1
      BY <2>2, <2>3
    <3>2. n + 1 \in 1 .. n + 1
      BY <2>2
    <3> QED
      BY <2>3, <2>6, <2>8, <3>1, <3>2 DEF Knows
  <2> QED
    BY <2>1, <2>7, <2>9, <2>10, <2>11
<1> QED
  BY <1>1, <1>2

Hearing == [item: DOMAIN items, voice: Voices]

HearsOne(st, h) == [st EXCEPT ![SessionOf(h.item)] = Assigned(@, h.voice)]

\* The new store knows all the old one knew, and the voice that was heard.
Learns(old, h, new) ==
    /\ new \in GoodStores
    /\ \A s \in Sessions : Grows(old[s], new[s])
    /\ \A s \in Sessions : \A v :
          Knows(new[s], v) <=> (Knows(old[s], v) \/ (s = SessionOf(h.item) /\ v = h.voice))

LEMMA HearsOneFacts ==
    ASSUME items \in Seq(Item), NEW st \in GoodStores, NEW h \in Hearing
    PROVE  Learns(st, h, HearsOne(st, h))
<1> DEFINE u == SessionOf(h.item)
           new == HearsOne(st, h)
<1>1. u \in Sessions /\ h.voice \in Voices
  BY ItemFacts DEF Hearing, SessionOf
<1>2. /\ \A s \in Sessions : st[s] \in SpeakerSession /\ Distinct(st[s])
      /\ new[u] = Assigned(st[u], h.voice) /\ \A s \in Sessions : s # u => new[s] = st[s]
      /\ DOMAIN new = Sessions /\ new = [s \in Sessions |-> new[s]]
  BY <1>1 DEF GoodStores, HearsOne
<1> HIDE DEF u, new
<1>3. /\ new[u] \in SpeakerSession /\ Distinct(new[u]) /\ Grows(st[u], new[u])
      /\ \A v : Knows(new[u], v) <=> Knows(st[u], v) \/ v = h.voice
  BY <1>1, <1>2, AssignedFacts
<1>4. \A s \in Sessions : s # u => /\ new[s] \in SpeakerSession /\ Distinct(new[s])
                                   /\ Grows(st[s], new[s])
  BY <1>2 DEF Grows
<1>5. new \in GoodStores
  <2>1. new \in [Sessions -> SpeakerSession]
    BY <1>2, <1>3, <1>4
  <2> QED
    BY <1>3, <1>4, <2>1 DEF GoodStores
<1> QED
  BY <1>2, <1>3, <1>4, <1>5 DEF Learns, u, new

LEMMA MaxOfSome ==
    ASSUME NEW n \in Nat, NEW S \in SUBSET (1 .. n), S # {}
    PROVE  Max(S) \in S /\ \A y \in S : y <= Max(S)
<1> DEFINE T == {n - x : x \in S}
<1>1. T \in SUBSET Nat /\ T # {}
  <2>1. \A x \in S : x \in Int /\ x <= n /\ n - x \in Nat
    OBVIOUS
  <2> QED
    BY <2>1
<1>2. PICK t \in T : \A y \in T : t <= y
  <2> HIDE DEF T
  <2> QED
    BY <1>1, LeastNat
<1>3. PICK x \in S : t = n - x
  OBVIOUS
<1>4. ASSUME NEW y \in S
      PROVE  x >= y
  <2>1. n - x <= n - y
    BY <1>2, <1>3
  <2> QED
    BY <2>1
<1>5. Max(S) \in S /\ \A y \in S : Max(S) >= y
  BY <1>4 DEF Max
<1> QED
  BY <1>5

\* FoldLeft is defined by a recursion over the subsets of the domain.
HeardOver(hs, g) ==
    g = [s \in SUBSET DOMAIN hs |->
           IF s = {} THEN store ELSE HearsOne(g[s \ {Max(s)}], hs[Max(s)])]

LEMMA AfterHearingIsFold ==
    ASSUME NEW hs
    PROVE  AfterHearing(hs) = (CHOOSE g : HeardOver(hs, g))[DOMAIN hs]
  BY DEF AfterHearing, HeardOver, FoldLeft, MapThenFoldSet, HearsOne

\* The stores between the hearings
History(hs, h) ==
    /\ h \in [0 .. Len(hs) -> GoodStores]
    /\ h[0] = store /\ h[Len(hs)] = AfterHearing(hs)
    /\ \A k \in 1 .. Len(hs) : h[k] = HearsOne(h[k - 1], hs[k])

LEMMA HistoryExists ==
    ASSUME items \in Seq(Item), store \in GoodStores, NEW hs \in Seq(Hearing)
    PROVE  \E h : History(hs, h)
<1> DEFINE D == DOMAIN hs
           n == Len(hs)
           c == [s \in SUBSET D |-> Max(s)]
           step == [p \in D \X GoodStores |-> HearsOne(p[2], hs[p[1]])]
<1>1. D = 1 .. n /\ n \in Nat /\ \A i \in D : hs[i] \in Hearing
  OBVIOUS
<1>2. \A s \in SUBSET D : c[s] = Max(s) /\ (s # {} => c[s] \in s /\ \A y \in s : y <= c[s])
  BY <1>1, MaxOfSome
<1>3. /\ step \in [D \X GoodStores -> GoodStores]
      /\ \A i \in D, st \in GoodStores : step[<<i, st>>] = HearsOne(st, hs[i])
  <2>1. \A i \in D, st \in GoodStores : HearsOne(st, hs[i]) \in GoodStores
    BY <1>1, HearsOneFacts DEF Learns
  <2> QED
    BY <2>1
<1>4. IsFiniteSet(D)
  BY <1>1, FS_Interval
<1> HIDE DEF c, step
<1>5. \E g : FoldIs(D, c, GoodStores, store, step, g)
  <2>1. FoldsBy(D, c, GoodStores, store, step)
    BY <1>2, <1>3, <1>4 DEF FoldsBy
  <2> QED
    BY <2>1, SetRecursion
<1>6. ASSUME NEW g, FoldIs(D, c, GoodStores, store, step, g)
      PROVE  HeardOver(hs, g)
  <2>1. g \in [SUBSET D -> GoodStores]
    BY <1>6 DEF FoldIs
  <2>2. ASSUME NEW s \in SUBSET D
        PROVE  g[s] = IF s = {} THEN store ELSE HearsOne(g[s \ {Max(s)}], hs[Max(s)])
    <3>1. CASE s = {}
      BY <1>6, <3>1 DEF FoldIs
    <3>2. CASE s # {}
      <4>1. g[s] = step[<<c[s], g[s \ {c[s]}]>>]
        BY <1>6, <3>2 DEF FoldIs
      <4>2. c[s] \in D /\ g[s \ {c[s]}] \in GoodStores
        BY <1>2, <2>1, <3>2
      <4>3. g[s] = HearsOne(g[s \ {c[s]}], hs[c[s]])
        BY <1>3, <4>1, <4>2
      <4> QED
        BY <1>2, <3>2, <4>3
    <3> QED
      BY <3>1, <3>2
  <2> QED
    BY <2>1, <2>2 DEF HeardOver
<1> DEFINE G == CHOOSE g : HeardOver(hs, g)
<1>7. HeardOver(hs, G)
  BY <1>5, <1>6
<1>8. AfterHearing(hs) = G[D]
  BY AfterHearingIsFold
<1> HIDE DEF G
<1>9. \A s \in SUBSET D : G[s] = IF s = {} THEN store ELSE HearsOne(G[s \ {Max(s)}], hs[Max(s)])
  BY <1>7 DEF HeardOver
<1> DEFINE h == [k \in 0 .. n |-> G[1 .. k]]
<1>10. h[0] = store /\ h[n] = AfterHearing(hs)
  <2>1. h[0] = G[{}] /\ h[n] = G[D]
    BY <1>1
  <2> QED
    BY <1>8, <1>9, <2>1
<1>11. ASSUME NEW k \in 1 .. n
       PROVE  h[k] = HearsOne(h[k - 1], hs[k])
  <2> DEFINE s == 1 .. k
  <2>1. s \in SUBSET D /\ s # {} /\ k \in s /\ \A y \in s : y <= k
    <3>1. k \in Nat /\ 1 <= k /\ k <= n
      BY <1>1
    <3> HIDE DEF h
    <3>2. \A y \in s : y \in 1 .. n /\ y <= k
      BY <1>1, <3>1
    <3>3. k \in s
      BY <3>1
    <3> HIDE DEF s, D, n
    <3> QED
      BY <1>1, <3>2, <3>3
  <2>2. Max(s) = k
    <3>1. Max(s) \in s /\ k <= Max(s)
      BY <1>2, <2>1
    <3> QED
      BY <3>1
  <2>3. s \ {k} = 1 .. k - 1
    BY <1>1
  <2>4. h[k] = G[s] /\ h[k - 1] = G[1 .. k - 1]
    BY <1>1
  <2> HIDE DEF s, h
  <2> QED
    BY <1>9, <2>1, <2>2, <2>3, <2>4
<1>12. ASSUME NEW k \in 0 .. n
       PROVE  h[k] \in GoodStores
  <2> DEFINE C == {j \in Nat : j <= n /\ h[j] \notin GoodStores}
  <2>1. C \in SUBSET Nat /\ 0 \notin C
    BY <1>10
  <2>2. ASSUME NEW j \in Nat, j + 1 \in C
        PROVE  j \in C
    <3>1. j + 1 \in 1 .. n /\ (j + 1) - 1 = j /\ j <= n /\ h[j + 1] \notin GoodStores
      BY <1>1, <2>2
    <3>2. h[j + 1] = HearsOne(h[j], hs[j + 1]) /\ hs[j + 1] \in Hearing
      BY <1>1, <1>11, <3>1
    <3>3. h[j] \in GoodStores => h[j + 1] \in GoodStores
      BY <3>2, HearsOneFacts DEF Learns
    <3> QED
      BY <3>1, <3>3
  <2>3. C = {}
    <3> HIDE DEF C
    <3> QED
      BY <2>1, <2>2, NoLeast
  <2>4. k \in Nat /\ k <= n
    BY <1>1
  <2> HIDE DEF h
  <2> QED
    BY <2>3, <2>4
<1>13. h \in [0 .. n -> GoodStores]
  BY <1>12
<1>14. History(hs, h)
  <2> HIDE DEF h
  <2> QED
    BY <1>10, <1>11, <1>13 DEF History
<1> QED
  BY <1>14

\* The store after some hearings knows what it knew and what was heard, no more.
LearnsAll(hs, new) ==
    /\ new \in GoodStores
    /\ \A s \in Sessions : Grows(store[s], new[s])
    /\ \A s \in Sessions : \A v :
          Knows(new[s], v) <=> \/ Knows(store[s], v)
                               \/ \E i \in DOMAIN hs : s = SessionOf(hs[i].item) /\ v = hs[i].voice

LEMMA AfterHearingLearns ==
    ASSUME items \in Seq(Item), store \in GoodStores, NEW hs \in Seq(Hearing)
    PROVE  LearnsAll(hs, AfterHearing(hs))
<1> DEFINE n == Len(hs)
<1>1. n \in Nat /\ DOMAIN hs = 1 .. n /\ \A i \in 1 .. n : hs[i] \in Hearing
  OBVIOUS
<1>2. PICK h : History(hs, h)
  BY HistoryExists
<1>3. /\ \A k \in 0 .. n : h[k] \in GoodStores
      /\ h[0] = store /\ h[n] = AfterHearing(hs)
      /\ \A k \in 1 .. n : h[k] = HearsOne(h[k - 1], hs[k])
  BY <1>2 DEF History
<1>4. \A k \in 1 .. n : Learns(h[k - 1], hs[k], h[k])
  <2> SUFFICES ASSUME NEW k \in 1 .. n
               PROVE  Learns(h[k - 1], hs[k], h[k])
    OBVIOUS
  <2>1. k - 1 \in 0 .. n
    BY <1>1
  <2> HIDE DEF n
  <2> QED
    BY <1>1, <1>3, <2>1, HearsOneFacts
<1> HIDE DEF n
<1> DEFINE Said(k, s, v) == \E i \in 1 .. k : s = SessionOf(hs[i].item) /\ v = hs[i].voice
           So(k) == /\ \A s \in Sessions : Grows(store[s], h[k][s])
                    /\ \A s \in Sessions : \A v :
                          Knows(h[k][s], v) <=> (Knows(store[s], v) \/ Said(k, s, v))
           C == {k \in Nat : k <= n /\ ~So(k)}
<1>5. 0 \notin C
  <2>1. \A s \in Sessions : Grows(store[s], h[0][s])
    BY <1>3 DEF Grows
  <2>2. \A s \in Sessions : \A v : ~Said(0, s, v)
    OBVIOUS
  <2>3. So(0)
    <3> HIDE DEF Said
    <3> QED
      BY <1>3, <2>1, <2>2
  <2> HIDE DEF So
  <2> QED
    BY <2>3
<1>6. ASSUME NEW k \in Nat, k + 1 \in C
      PROVE  k \in C
  <2>1. k + 1 \in 1 .. n /\ k <= n /\ (k + 1) - 1 = k
    BY <1>1, <1>6
  <2> SUFFICES ASSUME So(k)
               PROVE  So(k + 1)
    <3> HIDE DEF So
    <3> QED
      BY <1>6, <2>1
  <2>2. Learns(h[k], hs[k + 1], h[k + 1])
    BY <1>4, <2>1
  <2>3. \A s \in Sessions : Grows(store[s], h[k + 1][s])
    BY <2>2 DEF Learns, Grows
  <2>4. ASSUME NEW s, NEW v
        PROVE  Said(k + 1, s, v) <=> (Said(k, s, v) \/ (s = SessionOf(hs[k + 1].item) /\ v = hs[k + 1].voice))
    <3>1. \A i : i \in 1 .. k + 1 <=> (i \in 1 .. k \/ i = k + 1)
      BY <2>1
    <3> QED
      BY <3>1
  <2>5. ASSUME NEW s \in Sessions, NEW v
        PROVE  Knows(h[k + 1][s], v) <=> (Knows(store[s], v) \/ Said(k + 1, s, v))
    <3> HIDE DEF Said
    <3>1. Knows(h[k][s], v) <=> (Knows(store[s], v) \/ Said(k, s, v))
      OBVIOUS
    <3> QED
      BY <2>2, <2>4, <3>1 DEF Learns
  <2> HIDE DEF Said
  <2> QED
    BY <2>3, <2>5
<1>7. C = {}
  <2>1. C \in SUBSET Nat
    OBVIOUS
  <2> HIDE DEF C
  <2> QED
    BY <1>5, <1>6, <2>1, NoLeast
<1>8. So(n)
  <2> HIDE DEF So
  <2> QED
    BY <1>1, <1>7
<1>9. n \in 0 .. n
  BY <1>1
<1> QED
  BY <1>1, <1>3, <1>8, <1>9 DEF LearnsAll

-----------------------------------------------------------------------------
\* What the chunks of a batch are heard as

\* All the chunks of a batch are of one bucket.
Alike(batch) ==
    \A i, j \in DOMAIN batch : BucketOf(items[batch[i]].chunk) = BucketOf(items[batch[j]].chunk)

LEMMA HeardFacts ==
    ASSUME items \in Seq(Item), NEW batch \in Seq(DOMAIN items), Alike(batch), NEW i \in DOMAIN batch
    PROVE  Heard(batch, i) \in Voices /\ MayHear(batch[i], Heard(batch, i))
<1> DEFINE same == {j \in DOMAIN batch : items[batch[j]].chunk.id = items[batch[i]].chunk.id}
           m == batch[Max(same)]
<1>1. DOMAIN batch = 1 .. Len(batch) /\ Len(batch) \in Nat /\ \A j \in DOMAIN batch : batch[j] \in DOMAIN items
  OBVIOUS
<1>2. same \in SUBSET (1 .. Len(batch)) /\ same # {}
  BY <1>1
<1>3. Max(same) \in same
  <2> HIDE DEF same
  <2> QED
    BY <1>1, <1>2, MaxOfSome
<1>4. Heard(batch, i) = items[m].chunk.voice
  BY DEF Heard
<1>5. /\ m \in DOMAIN items /\ items[m].chunk.id = items[batch[i]].chunk.id
      /\ BucketOf(items[m].chunk) = BucketOf(items[batch[i]].chunk)
  BY <1>1, <1>3 DEF Alike
<1> HIDE DEF m
<1>6. items[m].chunk.voice \in Voices
  BY <1>5, ItemFacts
<1> QED
  BY <1>4, <1>5, <1>6 DEF MayHear

LEMMA HearingsFacts ==
    ASSUME items \in Seq(Item), NEW batch \in Seq(DOMAIN items), Alike(batch)
    PROVE  /\ Hearings(batch) \in Seq(Hearing) /\ DOMAIN Hearings(batch) = DOMAIN batch
           /\ Len(Hearings(batch)) = Len(batch)
           /\ \A i \in DOMAIN batch : /\ Hearings(batch)[i].item = batch[i]
                                      /\ Hearings(batch)[i].voice \in Voices
                                      /\ MayHear(batch[i], Hearings(batch)[i].voice)
<1> DEFINE hs == Hearings(batch)
           n == Len(batch)
<1>1. n \in Nat /\ DOMAIN batch = 1 .. n /\ \A i \in 1 .. n : batch[i] \in DOMAIN items
  OBVIOUS
<1>2. \A i \in DOMAIN batch : Heard(batch, i) \in Voices /\ MayHear(batch[i], Heard(batch, i))
  BY HeardFacts
<1>3. DOMAIN hs = DOMAIN batch /\ \A i \in DOMAIN batch : hs[i] = [item |-> batch[i], voice |-> Heard(batch, i)]
  BY DEF Hearings
<1>4. hs = [i \in 1 .. n |-> hs[i]]
  BY <1>1 DEF Hearings
<1> HIDE DEF hs, n
<1>5. ASSUME NEW i \in 1 .. n
      PROVE  hs[i] \in Hearing
  <2>1. batch[i] \in DOMAIN items /\ Heard(batch, i) \in Voices
    BY <1>1, <1>2
  <2>2. hs[i] = [item |-> batch[i], voice |-> Heard(batch, i)]
    BY <1>1, <1>3
  <2> QED
    BY <2>1, <2>2 DEF Hearing
<1>6. hs \in Seq(Hearing) /\ Len(hs) = n
  <2>1. hs \in [1 .. n -> Hearing]
    BY <1>4, <1>5
  <2> QED
    BY <1>1, <2>1
<1> QED
  BY <1>2, <1>3, <1>6 DEF hs, n

-----------------------------------------------------------------------------
(***************************************************************************)
(* The inductive invariant.  The properties alone say nothing of the       *)
(* answers of the running flush, of what a restore brings back, or of why  *)
(* a batch may be heard with the voices of one bucket only.                *)
(***************************************************************************)
\* Every voice a store knows may be that of a chunk of the session.
Sourced(st) ==
    \A s \in Sessions : \A v :
        Knows(st[s], v) => \E n \in DOMAIN items : SessionOf(n) = s /\ MayHear(n, v)

StoresFit ==
    /\ store \in GoodStores /\ exported \in GoodStores
    /\ ExportedSurvives
    /\ Sourced(store) /\ Sourced(exported)

\* An answer names the speaker of the voice it was heard as.
Names(x) ==
    /\ x.speaker \in DOMAIN store[SessionOf(x.item)].profiles
    /\ store[SessionOf(x.item)].profiles[x.speaker].voice = x.voice

AnswersFit ==
    \A x \in output \cup segments :
        MayHear(x.item, x.voice) /\ (SessionOf(x.item) \notin forgotten => Names(x))

OnceFits == AnsweredOnce /\ OneBucket(flight)

SpeakerInv ==
    /\ SpeakerTypeOK /\ CountsAreExact
    /\ OnceFits /\ StoresFit /\ AnswersFit

LEMMA TypedItems ==
    ASSUME SpeakerTypeOK
    PROVE  /\ items \in Seq(Item) /\ queued \in SUBSET DOMAIN items
           /\ Len(items) \in Nat /\ DOMAIN items = 1 .. Len(items)
           /\ \A n \in DOMAIN items : SessionOf(n) \in Sessions
<1>1. MaxTime \in Nat /\ MaxWait \in Nat
  BY ServiceAssumption, BatchingAssumption
<1>2. \A x \in 0 .. LastSubmit : x \in Nat
  BY <1>1 DEF LastSubmit
<1>3. [chunk: Chunks, enqueued: 0 .. LastSubmit, deadline: Nat] \in SUBSET Item
  BY <1>2 DEF Item
<1>4. items \in Seq(Item)
  <2>1. items \in Seq([chunk: Chunks, enqueued: 0 .. LastSubmit, deadline: Nat])
    BY DEF SpeakerTypeOK
  <2> DEFINE A == [chunk: Chunks, enqueued: 0 .. LastSubmit, deadline: Nat]
  <2>2. A \in SUBSET Item /\ items \in Seq(A)
    BY <1>3, <2>1
  <2> HIDE DEF A
  <2> QED
    BY <2>2
<1>5. \A n \in DOMAIN items : SessionOf(n) \in Sessions
  BY <1>4, ItemFacts DEF SessionOf
<1> QED
  BY <1>4, <1>5 DEF SpeakerTypeOK

LEMMA BacklogIsLoad ==
    /\ Backlog = Load(items, queued)
    /\ Backlog' = Load(items', queued')
<1>1. Backlog = Load(items, queued)
  BY DEF Backlog, Load, MapThenSumSet, MapThenFoldSet
<1>2. Backlog' = Load(items', queued')
  BY DEF Backlog, Load, MapThenSumSet, MapThenFoldSet
<1> QED
  BY <1>1, <1>2

\* What the steps keep

Kept == \A n \in DOMAIN items : n \in DOMAIN items' /\ items'[n] = items[n]

LEMMA KeptFacts ==
    ASSUME Kept
    PROVE  \A n \in DOMAIN items : /\ n \in DOMAIN items' /\ SessionOf(n)' = SessionOf(n)
                                   /\ \A v : MayHear(n, v) => MayHear(n, v)'
<1>1. \A n \in DOMAIN items : n \in DOMAIN items' /\ items'[n] = items[n]
  BY DEF Kept
<1> QED
  BY <1>1 DEF SessionOf, MayHear

LEMMA CountsFrame ==
    ASSUME CountsAreExact, UNCHANGED <<batchVars, gauge>>
    PROVE  CountsAreExact'
<1>1. Backlog' = Backlog
  BY BacklogIsLoad DEF batchVars
<1>2. \A s \in Sessions : {n \in queued' : SessionOf(n)' = s} = {n \in queued : SessionOf(n) = s}
  BY DEF batchVars, SessionOf
<1> QED
  BY <1>1, <1>2 DEF CountsAreExact, batchVars

LEMMA OnceFrame ==
    ASSUME OnceFits, UNCHANGED <<items, queued, flight, output, segments>>
    PROVE  OnceFits'
  BY DEF OnceFits, AnsweredOnce, OneBucket, ItemsOf

LEMMA GrowsFacts ==
    ASSUME NEW a, NEW b, NEW c
    PROVE  /\ Grows(a, a) /\ (Grows(a, b) /\ Grows(b, c) => Grows(a, c))
           /\ \A v : Grows(a, b) /\ Knows(a, v) => Knows(b, v)
  BY DEF Grows, Knows

LEMMA SourcedKept ==
    ASSUME Kept, NEW st, Sourced(st)
    PROVE  \A s \in Sessions : \A v :
              Knows(st[s], v) => \E n \in DOMAIN items' : SessionOf(n)' = s /\ MayHear(n, v)'
  BY KeptFacts DEF Sourced

\* The stores after a step that only adds to them
StoreGrows ==
    /\ Kept
    /\ store' \in GoodStores
    /\ \A s \in Sessions : Grows(store[s], store'[s])
    /\ Sourced(store')
    /\ UNCHANGED exported

LEMMA StoresGrow ==
    ASSUME StoresFit, StoreGrows
    PROVE  StoresFit'
<1>1. Sourced(store)' /\ Sourced(exported)'
  BY SourcedKept DEF Sourced, StoresFit, StoreGrows
<1>2. \A s \in Sessions : Grows(exported[s], store[s])
  BY DEF StoresFit, ExportedSurvives, Grows
<1>3. \A s \in Sessions : Grows(exported[s], store'[s])
  BY <1>2, GrowsFacts DEF StoreGrows
<1>4. ExportedSurvives'
  BY <1>3 DEF ExportedSurvives, Grows, StoreGrows
<1> QED
  BY <1>1, <1>4 DEF StoresFit, StoreGrows

LEMMA StoresFrame ==
    ASSUME StoresFit, Kept, UNCHANGED <<store, exported>>
    PROVE  StoreGrows /\ StoresFit'
<1>1. StoreGrows
  BY GrowsFacts DEF StoresFit, StoreGrows
<1> QED
  BY <1>1, StoresGrow

\* The speakers of a session keep their numbers and voices, or it counts as forgotten.
SpeakersStay ==
    /\ Kept
    /\ \A s \in Sessions : s \notin forgotten' =>
          /\ s \notin forgotten
          /\ \A k \in DOMAIN store[s].profiles :
                /\ k \in DOMAIN store'[s].profiles
                /\ store'[s].profiles[k].voice = store[s].profiles[k].voice

LEMMA GrowingStays ==
    ASSUME StoreGrows, UNCHANGED forgotten
    PROVE  SpeakersStay
  BY DEF StoreGrows, SpeakersStay, Grows

LEMMA AnswersStay ==
    ASSUME SpeakerTypeOK, AnswersFit, SpeakersStay, NEW x \in output \cup segments
    PROVE  MayHear(x.item, x.voice)' /\ (SessionOf(x.item)' \notin forgotten' => Names(x)')
<1>1. x.item \in DOMAIN items
  BY DEF SpeakerTypeOK, ItemsOf
<1>2. SessionOf(x.item) \in Sessions
  BY <1>1, TypedItems
<1>3. Kept
  BY DEF SpeakersStay
<1>4. SessionOf(x.item)' = SessionOf(x.item) /\ MayHear(x.item, x.voice)'
  BY <1>1, <1>3, KeptFacts DEF AnswersFit
<1>5. SessionOf(x.item)' \notin forgotten' => Names(x)'
  BY <1>2, <1>4 DEF AnswersFit, Names, SpeakersStay
<1> QED
  BY <1>4, <1>5

LEMMA AnswersFrame ==
    ASSUME SpeakerTypeOK, AnswersFit, SpeakersStay,
           output' \cup segments' \in SUBSET (output \cup segments)
    PROVE  AnswersFit'
  BY AnswersStay DEF AnswersFit

-----------------------------------------------------------------------------
\* The steps of clients and of the clock

LEMMA QuietStep ==
    ASSUME SpeakerInv, UNCHANGED <<batchVars, storeVars, flushVars, gauge, segments>>
    PROVE  CountsAreExact' /\ OnceFits' /\ StoresFit' /\ AnswersFit'
<1>1. Kept
  BY DEF Kept, batchVars
<1>2. CountsAreExact' /\ OnceFits'
  BY CountsFrame, OnceFrame DEF SpeakerInv, batchVars, flushVars
<1>3. StoreGrows /\ StoresFit'
  BY <1>1, StoresFrame DEF SpeakerInv, storeVars
<1>4. AnswersFit'
  <2>1. SpeakersStay
    BY <1>3, GrowingStays DEF storeVars
  <2> QED
    BY <2>1, AnswersFrame DEF SpeakerInv, flushVars
<1> QED
  BY <1>2, <1>3, <1>4

LEMMA StutterKeeps ==
    ASSUME SpeakerInv, UNCHANGED serviceVars
    PROVE  SpeakerInv'
<1>1. CountsAreExact' /\ OnceFits' /\ StoresFit' /\ AnswersFit'
  BY QuietStep DEF serviceVars
<1>2. SpeakerTypeOK'
  BY DEF SpeakerInv, SpeakerTypeOK, serviceVars, batchVars, storeVars, workerVars, flushVars, ItemsOf
<1> QED
  BY <1>1, <1>2 DEF SpeakerInv

LEMMA TickKeeps ==
    ASSUME SpeakerInv, Tick
    PROVE  SpeakerInv'
<1>1. CountsAreExact' /\ OnceFits' /\ StoresFit' /\ AnswersFit'
  BY QuietStep DEF Tick
<1>2. MaxTime \in Nat
  BY ServiceAssumption
<1>3. now' \in 0 .. MaxTime
  BY <1>2 DEF SpeakerInv, SpeakerTypeOK, Tick
<1>4. SpeakerTypeOK'
  BY <1>3 DEF SpeakerInv, SpeakerTypeOK, Tick, batchVars, storeVars, workerVars, flushVars, ItemsOf
<1> QED
  BY <1>1, <1>4 DEF SpeakerInv

LEMMA ReplaceKeeps ==
    ASSUME SpeakerInv, NEW list \in WorkerLists, ReplaceWorkers(list)
    PROVE  SpeakerInv'
<1>1. CountsAreExact' /\ OnceFits' /\ StoresFit' /\ AnswersFit'
  BY QuietStep DEF ReplaceWorkers
<1>2. Len(workers') \in Nat /\ Len(workers') # 0
  BY ServiceAssumption DEF ReplaceWorkers
<1>3. nextWorker' \in 0 .. Len(workers') - 1
  BY <1>2 DEF ReplaceWorkers
<1>4. SpeakerTypeOK'
  BY <1>3 DEF SpeakerInv, SpeakerTypeOK, ReplaceWorkers, batchVars, storeVars, flushVars, ItemsOf
<1> QED
  BY <1>1, <1>4 DEF SpeakerInv

LEMMA NothingKeeps ==
    ASSUME SpeakerInv, NEW at, NEW force, FlushFindsNothing(at, force)
    PROVE  SpeakerInv'
<1>1. Kept
  BY DEF Kept, batchVars, FlushFindsNothing
<1>2. Backlog \in Nat /\ Backlog' = Backlog
  BY BacklogIsLoad, TypedItems, LoadFacts DEF SpeakerInv, FlushFindsNothing, batchVars
<1>3. CountsAreExact'
  <2>1. \A s \in Sessions : {n \in queued' : SessionOf(n)' = s} = {n \in queued : SessionOf(n) = s}
    BY DEF FlushFindsNothing, batchVars, SessionOf
  <2>2. gauge' >= Backlog'
    BY <1>2 DEF FlushFindsNothing
  <2> QED
    BY <2>1, <2>2 DEF SpeakerInv, CountsAreExact, FlushFindsNothing, batchVars
<1>4. OnceFits'
  BY OnceFrame DEF SpeakerInv, FlushFindsNothing, batchVars, flushVars
<1>5. StoreGrows /\ StoresFit'
  BY <1>1, StoresFrame DEF SpeakerInv, FlushFindsNothing, storeVars
<1>6. AnswersFit'
  <2>1. SpeakersStay
    BY <1>5, GrowingStays DEF FlushFindsNothing, storeVars
  <2> QED
    BY <2>1, AnswersFrame DEF SpeakerInv, FlushFindsNothing, flushVars
<1>7. SpeakerTypeOK'
  BY <1>2 DEF SpeakerInv, SpeakerTypeOK, FlushFindsNothing, batchVars, storeVars, workerVars, flushVars, ItemsOf
<1> QED
  BY <1>3, <1>4, <1>5, <1>6, <1>7 DEF SpeakerInv

LEMMA EmptyFlight ==
    ASSUME flight' = <<>>
    PROVE  /\ OneBucket(flight)'
           /\ DOMAIN flight' = {} /\ Range(flight') = {}
           /\ \A S : flight' \in Seq(S)
  BY DEF OneBucket, Range

LEMMA SubmitKeeps ==
    ASSUME SpeakerInv, NEW chunk \in Chunks, Submit(chunk)
    PROVE  SpeakerInv'
<1>0. PICK n : n = Len(items) + 1
  OBVIOUS
<1> DEFINE x == [ chunk |-> chunk, enqueued |-> now,
                  deadline |-> IF chunk.due = NoDeadline THEN now + Patience ELSE chunk.due ]
           P == [chunk: Chunks, enqueued: 0 .. LastSubmit, deadline: Nat]
<1>1. /\ SpeakerTypeOK /\ items \in Seq(P) /\ queued \in SUBSET DOMAIN items
      /\ Len(items) \in Nat /\ DOMAIN items = 1 .. Len(items)
  BY TypedItems DEF SpeakerInv, SpeakerTypeOK
<1>2. /\ items' = Append(items, x) /\ queued' = queued \cup {n}
      /\ pending[chunk.session] < PerSession
      /\ pending' = [pending EXCEPT ![chunk.session] = @ + 1]
      /\ now <= LastSubmit /\ gauge' = Backlog'
      /\ UNCHANGED <<storeVars, workerVars, flushVars, now, segments>>
      /\ flight = <<>> /\ flight' = <<>>
  BY <1>0 DEF Submit, Enqueue, Unlocked, flushVars
<1>3. x \in P
  <2>1. now \in 0 .. MaxTime /\ MaxTime \in Nat /\ MaxWait \in Nat
    BY <1>1, ServiceAssumption, BatchingAssumption DEF SpeakerTypeOK
  <2>2. now \in 0 .. LastSubmit
    BY <1>2, <2>1 DEF LastSubmit
  <2>3. chunk.due = NoDeadline \/ chunk.due \in Nat
    BY ChunkAssumption DEF AudioChunk
  <2>4. (IF chunk.due = NoDeadline THEN now + Patience ELSE chunk.due) \in Nat
    BY <2>1, <2>3 DEF Patience
  <2> QED
    BY <2>2, <2>4
<1>4. chunk.session \in Sessions
  BY ChunkAssumption DEF AudioChunk
<1> HIDE DEF x, P
<1>5. /\ items' \in Seq(P) /\ DOMAIN items' = 1 .. n
      /\ \A m \in DOMAIN items : m \in DOMAIN items' /\ items'[m] = items[m]
      /\ items'[n] = x /\ n \in DOMAIN items' /\ n \notin DOMAIN items
  BY <1>0, <1>1, <1>2, <1>3
<1>6. x.chunk = chunk
  BY DEF x
<1>7. Kept
  BY <1>5 DEF Kept
<1>8. items' \in Seq(Item) /\ queued' \in SUBSET DOMAIN items'
  <2>1. \A e \in 0 .. LastSubmit : e \in Nat
    BY ServiceAssumption, BatchingAssumption DEF LastSubmit
  <2>2. P \in SUBSET Item
    BY <2>1 DEF P, Item
  <2>3. items' \in Seq(Item)
    BY <1>5, <2>2
  <2> QED
    BY <1>1, <1>2, <1>5, <2>3
<1>9. Backlog' \in Nat
  BY <1>8, BacklogIsLoad, LoadFacts
<1>10. CountsAreExact'
  <2>1. ASSUME NEW s \in Sessions
        PROVE  pending'[s] = Cardinality({m \in queued' : SessionOf(m)' = s})
    <3> DEFINE old == {m \in queued : SessionOf(m) = s}
               new == {m \in queued' : SessionOf(m)' = s}
    <3>1. \A m \in queued : SessionOf(m)' = SessionOf(m)
      BY <1>1, <1>7, KeptFacts
    <3>2. SessionOf(n)' = chunk.session
      BY <1>5, <1>6 DEF SessionOf
    <3>3. n \notin queued
      BY <1>1, <1>5
    <3>4. new = IF s = chunk.session THEN old \cup {n} ELSE old
      <4>1. \A m : m \in new <=> (m \in old \/ (m = n /\ s = chunk.session))
        BY <1>2, <3>1, <3>2, <3>3
      <4> HIDE DEF old, new
      <4> QED
        BY <4>1
    <3>5. IsFiniteSet(old)
      <4>1. IsFiniteSet(1 .. Len(items)) /\ old \in SUBSET (1 .. Len(items))
        BY <1>1, FS_Interval
      <4> QED
        BY <4>1, FS_Subset
    <3>6. n \notin old /\ pending[s] = Cardinality(old) /\ pending \in [Sessions -> 0 .. PerSession]
      BY <3>3 DEF SpeakerInv, CountsAreExact, SpeakerTypeOK
    <3> HIDE DEF old, new
    <3>7. Cardinality(old \cup {n}) = Cardinality(old) + 1
      BY <3>5, <3>6, FS_AddElement
    <3>8. pending'[s] = Cardinality(new)
      BY <1>2, <3>4, <3>6, <3>7
    <3> QED
      BY <3>8 DEF new
  <2>2. gauge' >= Backlog'
    BY <1>2, <1>9
  <2> QED
    BY <2>1, <2>2 DEF CountsAreExact
<1>11. output' = output /\ segments' = segments
  BY <1>2 DEF flushVars
<1>12. OnceFits'
  <2>1. n \notin ItemsOf(output \cup segments)
    BY <1>1, <1>5 DEF SpeakerTypeOK
  <2>2. queued' \cap ItemsOf(output' \cup segments') = {}
    <3>1. \A m \in queued : m \notin ItemsOf(output \cup segments)
      BY DEF SpeakerInv, OnceFits, AnsweredOnce
    <3> QED
      BY <1>2, <1>11, <2>1, <3>1
  <2>3. \A y, z \in output' \cup segments' : y.item = z.item => y = z
    BY <1>11 DEF SpeakerInv, OnceFits, AnsweredOnce
  <2>4. DOMAIN flight' = {} /\ OneBucket(flight)'
    BY <1>2, EmptyFlight
  <2>5. ItemsOf(output \cup segments)' = ItemsOf(output' \cup segments')
    BY DEF ItemsOf
  <2> QED
    BY <2>2, <2>3, <2>4, <2>5 DEF OnceFits, AnsweredOnce
<1>13. StoreGrows /\ StoresFit'
  BY <1>2, <1>7, StoresFrame DEF SpeakerInv, storeVars
<1>14. AnswersFit'
  <2>1. SpeakersStay
    BY <1>2, <1>13, GrowingStays DEF storeVars
  <2> QED
    BY <1>11, <2>1, AnswersFrame DEF SpeakerInv
<1>15. SpeakerTypeOK'
  <2>1. pending' \in [Sessions -> 0 .. PerSession]
    BY <1>1, <1>2, <1>4, BatchingAssumption DEF SpeakerTypeOK
  <2>2. flight' \in Seq(Seq(DOMAIN items')) /\ \A batch \in Range(flight') : Len(batch) \in 1 .. MaxBatch
    BY <1>2, EmptyFlight
  <2>3. /\ output' \cup segments' \in SUBSET Segment
        /\ ItemsOf(output' \cup segments') \in SUBSET DOMAIN items'
    BY <1>1, <1>5, <1>11 DEF SpeakerTypeOK
  <2>4. /\ store' \in [Sessions -> SpeakerSession] /\ exported' \in [Sessions -> SpeakerSession]
        /\ forgotten' \subseteq Sessions /\ now' \in 0 .. MaxTime
        /\ workers' \in WorkerLists /\ nextWorker' \in 0 .. Len(workers') - 1
    BY <1>1, <1>2 DEF SpeakerTypeOK, storeVars, workerVars
  <2>5. ItemsOf(output \cup segments)' = ItemsOf(output' \cup segments')
    BY DEF ItemsOf
  <2>6. gauge' \in Nat
    BY <1>2, <1>9
  <2> QED
    BY <1>5, <1>8, <2>1, <2>2, <2>3, <2>4, <2>5, <2>6 DEF SpeakerTypeOK, P
<1> QED
  BY <1>10, <1>12, <1>13, <1>14, <1>15 DEF SpeakerInv

-----------------------------------------------------------------------------
\* A flush takes its batches.

LEMMA FlushKeeps ==
    ASSUME SpeakerInv, NEW at, NEW force \in BOOLEAN, FlushStarts(at, force)
    PROVE  SpeakerInv'
<1>1. /\ SpeakerTypeOK /\ items \in Seq(Item) /\ queued \in SUBSET DOMAIN items
      /\ Len(items) \in Nat /\ DOMAIN items = 1 .. Len(items)
  BY TypedItems DEF SpeakerInv
<1>2. PICK batches : batches = Ripe(at, force)
  OBVIOUS
<1>3. PICK gone : gone = Gone(batches)
  OBVIOUS
<1>4. /\ flight' = batches /\ items' = items /\ queued' = queued \ gone
      /\ pending' = [s \in Sessions |-> pending[s] - Cardinality({n \in gone : SessionOf(n) = s})]
      /\ UNCHANGED <<storeVars, workerVars, output, now, gauge, segments>>
  BY <1>2, <1>3 DEF FlushStarts, Pop, PendingWithout, Gone
<1>5. Drains(queued, batches) /\ OneBucket(batches)
  BY <1>1, <1>2, RipeTakes DEF Takes
<1>6. \A b \in DOMAIN batches : \A i \in DOMAIN batches[b] : batches[b][i] \in gone
  BY <1>3 DEF Gone, Range
<1>7. gone \in SUBSET queued
  <2>1. \A b \in DOMAIN batches : \A i \in DOMAIN batches[b] : batches[b][i] \in queued
    BY <1>5 DEF Drains
  <2> QED
    BY <1>3, <2>1 DEF Gone, Range
<1>8. Kept
  BY <1>4 DEF Kept
<1>9. ASSUME NEW s \in Sessions
      PROVE  /\ pending'[s] = Cardinality({n \in queued' : SessionOf(n)' = s})
             /\ pending'[s] \in 0 .. PerSession
  <2> DEFINE old  == {n \in queued : SessionOf(n) = s}
             left == {n \in queued' : SessionOf(n)' = s}
             out  == {n \in gone : SessionOf(n) = s}
  <2>1. left = old \ out /\ old \cap out = out /\ left \in SUBSET old
    BY <1>4, <1>7 DEF SessionOf
  <2>2. IsFiniteSet(old)
    <3>1. IsFiniteSet(1 .. Len(items)) /\ old \in SUBSET (1 .. Len(items))
      BY <1>1, FS_Interval
    <3> QED
      BY <3>1, FS_Subset
  <2>3. pending[s] = Cardinality(old) /\ pending[s] \in 0 .. PerSession /\ PerSession \in Nat
    BY BatchingAssumption DEF SpeakerInv, CountsAreExact, SpeakerTypeOK
  <2>4. pending'[s] = pending[s] - Cardinality(out)
    BY <1>4
  <2> HIDE DEF old, left, out
  <2>5. Cardinality(left) = Cardinality(old) - Cardinality(out)
    BY <2>1, <2>2, FS_Difference
  <2>6. Cardinality(left) \in Nat /\ Cardinality(left) <= Cardinality(old)
    BY <2>1, <2>2, FS_Subset, FS_CardinalityType
  <2>7. pending'[s] = Cardinality(left) /\ pending'[s] \in 0 .. PerSession
    BY <2>3, <2>4, <2>5, <2>6
  <2> QED
    BY <2>7 DEF left
<1>10. CountsAreExact'
  <2>1. Backlog' <= Backlog /\ Backlog \in Nat /\ Backlog' \in Nat
    <3>1. queued' \in SUBSET queued /\ queued' \in SUBSET DOMAIN items
      BY <1>1, <1>4
    <3> QED
      BY <1>1, <1>4, <3>1, BacklogIsLoad, LoadFacts, LoadMonotonic
  <2>2. gauge \in Nat /\ gauge >= Backlog
    BY DEF SpeakerInv, CountsAreExact, SpeakerTypeOK
  <2>3. gauge' >= Backlog'
    BY <1>4, <2>1, <2>2
  <2> QED
    BY <1>9, <2>3 DEF CountsAreExact
<1>11. OnceFits'
  <2>1. Apart(batches)
    BY <1>5 DEF Drains
  <2>2. \A m \in gone : m \notin ItemsOf(output \cup segments)
    BY <1>7 DEF SpeakerInv, OnceFits, AnsweredOnce
  <2>3. ItemsOf(output \cup segments)' = ItemsOf(output \cup segments)
    BY <1>4 DEF ItemsOf
  <2>4. /\ \A b, c \in DOMAIN flight' : \A i \in DOMAIN flight'[b], j \in DOMAIN flight'[c] :
              flight'[b][i] = flight'[c][j] => b = c /\ i = j
        /\ \A b \in DOMAIN flight' : \A i \in DOMAIN flight'[b] :
              flight'[b][i] \notin queued' \cup ItemsOf(output \cup segments)'
    <3>1. /\ \A b, c \in DOMAIN batches : \A i \in DOMAIN batches[b], j \in DOMAIN batches[c] :
                batches[b][i] = batches[c][j] => b = c /\ i = j
          /\ \A b \in DOMAIN batches : \A i \in DOMAIN batches[b] :
                /\ batches[b][i] \in gone
                /\ batches[b][i] \notin ItemsOf(output \cup segments)
      BY <1>6, <2>1, <2>2 DEF Apart
    <3>2. flight' = batches /\ queued' = queued \ gone
      BY <1>4
    <3> QED
      BY <2>3, <3>1, <3>2
  <2>5. queued' \cap ItemsOf(output \cup segments)' = {}
    <3>1. \A m \in queued : m \notin ItemsOf(output \cup segments)
      BY DEF SpeakerInv, OnceFits, AnsweredOnce
    <3> QED
      BY <1>4, <2>3, <3>1
  <2>6. \A x, y \in output' \cup segments' : x.item = y.item => x = y
    BY <1>4 DEF SpeakerInv, OnceFits, AnsweredOnce
  <2>7. OneBucket(flight)'
    BY <1>4, <1>5 DEF OneBucket
  <2> QED
    BY <2>4, <2>5, <2>6, <2>7 DEF OnceFits, AnsweredOnce
<1>12. StoreGrows /\ StoresFit'
  BY <1>4, <1>8, StoresFrame DEF SpeakerInv, storeVars
<1>13. AnswersFit'
  <2>1. SpeakersStay
    BY <1>4, <1>12, GrowingStays DEF storeVars
  <2> QED
    BY <1>4, <2>1, AnswersFrame DEF SpeakerInv
<1>14. SpeakerTypeOK'
  <2>1. batches \in Seq(Seq(DOMAIN items)) /\ \A batch \in Range(batches) : Len(batch) \in 1 .. MaxBatch
    <3>1. Seq(queued) \in SUBSET Seq(DOMAIN items)
      BY <1>1
    <3>2. batches \in Seq(Seq(DOMAIN items))
      BY <1>5, <3>1 DEF Drains
    <3> QED
      BY <1>5, <3>2 DEF Drains, Range
  <2>2. ItemsOf(output \cup segments)' = ItemsOf(output \cup segments)
    BY <1>4 DEF ItemsOf
  <2>3. pending' \in [Sessions -> 0 .. PerSession]
    <3>1. pending' = [s \in Sessions |-> pending'[s]]
      BY <1>4
    <3> QED
      BY <1>9, <3>1
  <2> QED
    BY <1>1, <1>4, <2>1, <2>2, <2>3 DEF SpeakerTypeOK, storeVars, workerVars
<1> QED
  BY <1>10, <1>11, <1>12, <1>13, <1>14 DEF SpeakerInv

-----------------------------------------------------------------------------
\* A batch is embedded.

\* The batch that is next, and what is heard with it
LEMMA NextBatch ==
    ASSUME SpeakerInv, flight # <<>>
    PROVE  /\ Head(flight) \in Seq(DOMAIN items) /\ Alike(Head(flight))
           /\ 1 \in DOMAIN flight /\ Head(flight) = flight[1]
           /\ Tail(flight) \in Seq(Seq(DOMAIN items))
           /\ \A b \in DOMAIN Tail(flight) : b + 1 \in DOMAIN flight /\ Tail(flight)[b] = flight[b + 1]
           /\ \A b \in DOMAIN Tail(flight) : b + 1 # 1
           /\ Hearings(Head(flight)) \in Seq(Hearing)
<1> DEFINE S == Seq(DOMAIN items)
<1>1. flight \in Seq(S) /\ OneBucket(flight) /\ items \in Seq(Item)
  BY TypedItems DEF SpeakerInv, SpeakerTypeOK, OnceFits
<1>2. /\ Head(flight) \in S /\ 1 \in DOMAIN flight /\ Head(flight) = flight[1]
      /\ Tail(flight) \in Seq(S)
      /\ \A b \in DOMAIN Tail(flight) : b + 1 \in DOMAIN flight /\ Tail(flight)[b] = flight[b + 1] /\ b + 1 # 1
  <2> HIDE DEF S
  <2> QED
    BY <1>1
<1>3. Alike(Head(flight))
  BY <1>1, <1>2 DEF OneBucket, Alike
<1>4. Hearings(Head(flight)) \in Seq(Hearing)
  BY <1>1, <1>2, <1>3, HearingsFacts
<1> QED
  BY <1>2, <1>3, <1>4

\* Hearing some of the next batch, as a whole or up to an error
LEMMA HearingGrows ==
    ASSUME SpeakerInv, flight # <<>>, UNCHANGED <<items, exported>>, NEW hs \in Seq(Hearing),
           \A i \in DOMAIN hs : MayHear(hs[i].item, hs[i].voice),
           store' = AfterHearing(hs)
    PROVE  StoreGrows /\ StoresFit' /\ LearnsAll(hs, store')
<1>1. items \in Seq(Item) /\ store \in GoodStores
  BY TypedItems DEF SpeakerInv, StoresFit
<1>2. LearnsAll(hs, store')
  BY <1>1, AfterHearingLearns
<1>3. Sourced(store')
  <2> SUFFICES ASSUME NEW s \in Sessions, NEW v, Knows(store'[s], v)
               PROVE  \E n \in DOMAIN items : SessionOf(n) = s /\ MayHear(n, v)
    BY DEF Sourced
  <2>1. CASE Knows(store[s], v)
    BY <2>1 DEF SpeakerInv, StoresFit, Sourced
  <2>2. CASE \E i \in DOMAIN hs : s = SessionOf(hs[i].item) /\ v = hs[i].voice
    <3>1. PICK i \in DOMAIN hs : s = SessionOf(hs[i].item) /\ v = hs[i].voice
      BY <2>2
    <3>2. hs[i] \in Hearing
      OBVIOUS
    <3>3. hs[i].item \in DOMAIN items
      BY <3>2 DEF Hearing
    <3> QED
      BY <3>1, <3>3
  <2>3. Knows(store[s], v) \/ \E i \in DOMAIN hs : s = SessionOf(hs[i].item) /\ v = hs[i].voice
    BY <1>2 DEF LearnsAll
  <2> QED
    BY <2>1, <2>2, <2>3
<1>4. Kept
  BY DEF Kept
<1>5. StoreGrows
  BY <1>2, <1>3, <1>4 DEF StoreGrows, LearnsAll
<1> QED
  BY <1>2, <1>5, StoresGrow DEF SpeakerInv

LEMMA EmbedKeeps ==
    ASSUME SpeakerInv, EmbedBatch
    PROVE  SpeakerInv'
<1>1. /\ SpeakerTypeOK /\ items \in Seq(Item) /\ queued \in SUBSET DOMAIN items
      /\ \A m \in DOMAIN items : SessionOf(m) \in Sessions
  BY TypedItems DEF SpeakerInv
<1>2. PICK batch : batch = Head(flight)
  OBVIOUS
<1>3. PICK hs : hs = Hearings(batch)
  OBVIOUS
<1>4. PICK spoken : spoken = {[ item |-> h.item, voice |-> h.voice,
                               speaker |-> SpeakerOf(store'[SessionOf(h.item)], h.voice) ]
                                : h \in Range(hs)}
  OBVIOUS
<1>5. /\ flight # <<>> /\ flight' = Tail(flight)
      /\ store' = AfterHearing(hs) /\ Rotate
      /\ UNCHANGED <<batchVars, exported, forgotten, workers, now>>
      /\ \/ output' = {} /\ segments' = segments \cup (output \cup spoken) /\ gauge' = Backlog
         \/ output' = output \cup spoken /\ segments' = segments /\ gauge' = gauge
  BY <1>2, <1>3, <1>4 DEF EmbedBatch, Unlocked
<1>6. output' \cup segments' = (output \cup segments) \cup spoken
  BY <1>5
<1>7. /\ batch \in Seq(DOMAIN items) /\ Alike(batch) /\ 1 \in DOMAIN flight /\ batch = flight[1]
      /\ Tail(flight) \in Seq(Seq(DOMAIN items))
      /\ \A b \in DOMAIN Tail(flight) : /\ b + 1 \in DOMAIN flight /\ Tail(flight)[b] = flight[b + 1]
                                        /\ b + 1 # 1
      /\ hs \in Seq(Hearing)
  BY <1>2, <1>3, <1>5, NextBatch
<1>8. /\ DOMAIN hs = DOMAIN batch
      /\ \A i \in DOMAIN batch : /\ hs[i].item = batch[i] /\ hs[i].voice \in Voices
                                 /\ MayHear(batch[i], hs[i].voice)
  BY <1>1, <1>3, <1>7, HearingsFacts
<1>9. StoreGrows /\ StoresFit' /\ LearnsAll(hs, store')
  BY <1>5, <1>7, <1>8, HearingGrows DEF batchVars
<1>10. Kept
  BY <1>9 DEF StoreGrows
<1>11. ASSUME NEW x \in spoken
       PROVE  \E i \in DOMAIN batch :
                /\ x.item = batch[i] /\ batch[i] \in DOMAIN items /\ x.voice \in Voices
                /\ x = [item |-> x.item, voice |-> x.voice, speaker |-> x.speaker]
                /\ x.voice = hs[i].voice /\ x.speaker = SpeakerOf(store'[SessionOf(x.item)], x.voice)
                /\ MayHear(x.item, x.voice)
                /\ x.speaker \in DOMAIN store'[SessionOf(x.item)].profiles
                /\ store'[SessionOf(x.item)].profiles[x.speaker].voice = x.voice
                /\ x.speaker \in Nat \ {0}
  <2>1. PICK h \in Range(hs) : x = [ item |-> h.item, voice |-> h.voice,
                                     speaker |-> SpeakerOf(store'[SessionOf(h.item)], h.voice) ]
    BY <1>4
  <2>2. PICK i \in DOMAIN hs : h = hs[i]
    BY DEF Range
  <2>3. i \in DOMAIN batch /\ batch[i] \in DOMAIN items
    BY <1>7, <1>8
  <2>4. /\ x.item = batch[i] /\ x.voice = hs[i].voice /\ x.voice \in Voices
        /\ x.speaker = SpeakerOf(store'[SessionOf(x.item)], x.voice)
        /\ x = [item |-> x.item, voice |-> x.voice, speaker |-> x.speaker]
        /\ MayHear(x.item, x.voice)
    BY <1>8, <2>1, <2>2, <2>3
  <2> DEFINE sp == store'[SessionOf(x.item)]
  <2>5. SessionOf(x.item) \in Sessions /\ sp \in SpeakerSession
    BY <1>1, <1>9, <2>3, <2>4 DEF LearnsAll, GoodStores
  <2>6. Knows(sp, x.voice)
    BY <1>9, <2>2, <2>3, <2>4, <2>5, <1>8 DEF LearnsAll
  <2>7. x.speaker = SpeakerOf(sp, x.voice)
    BY <2>4
  <2> HIDE DEF sp
  <2>8. x.speaker \in DOMAIN sp.profiles /\ sp.profiles[x.speaker].voice = x.voice
    BY <2>5, <2>6, <2>7, SpeakerOfFacts
  <2>9. x.speaker \in Nat \ {0}
    BY <2>5, <2>8, SessionFacts
  <2> QED
    BY <2>3, <2>4, <2>8, <2>9 DEF sp
<1>12. AnswersFit'
  <2>1. SpeakersStay
    BY <1>5, <1>9, GrowingStays
  <2> SUFFICES ASSUME NEW x \in output' \cup segments'
               PROVE  MayHear(x.item, x.voice)' /\ (SessionOf(x.item)' \notin forgotten' => Names(x)')
    BY DEF AnswersFit
  <2>2. CASE x \in output \cup segments
    BY <1>1, <2>1, <2>2, AnswersStay DEF SpeakerInv
  <2>3. CASE x \in spoken
    <3>1. /\ x.item \in DOMAIN items /\ MayHear(x.item, x.voice)
          /\ x.speaker \in DOMAIN store'[SessionOf(x.item)].profiles
          /\ store'[SessionOf(x.item)].profiles[x.speaker].voice = x.voice
      BY <1>11, <2>3
    <3>2. SessionOf(x.item)' = SessionOf(x.item) /\ MayHear(x.item, x.voice)'
      BY <1>10, <3>1, KeptFacts
    <3> QED
      BY <3>1, <3>2 DEF Names
  <2> QED
    BY <1>6, <2>2, <2>3
<1>13. \A x \in spoken : \E i \in DOMAIN flight[1] : x.item = flight[1][i]
  BY <1>7, <1>11
<1>14. OnceFits'
  <2>1. /\ \A b, c \in DOMAIN flight : \A i \in DOMAIN flight[b], j \in DOMAIN flight[c] :
              flight[b][i] = flight[c][j] => b = c /\ i = j
        /\ \A b \in DOMAIN flight : \A i \in DOMAIN flight[b] :
              flight[b][i] \notin queued /\ flight[b][i] \notin ItemsOf(output \cup segments)
        /\ \A m \in queued : m \notin ItemsOf(output \cup segments)
        /\ \A x, y \in output \cup segments : x.item = y.item => x = y
        /\ OneBucket(flight)
    BY DEF SpeakerInv, OnceFits, AnsweredOnce
  <2>2. \A m : m \in ItemsOf(output \cup segments)' <=>
                  (m \in ItemsOf(output \cup segments) \/ \E x \in spoken : m = x.item)
    BY <1>6 DEF ItemsOf
  <2>3. /\ items' = items /\ queued' = queued
        /\ \A b \in DOMAIN flight' : /\ b + 1 \in DOMAIN flight /\ flight'[b] = flight[b + 1]
                                     /\ b + 1 # 1 /\ b \in Int
    BY <1>5, <1>7 DEF batchVars
  <2>4. ASSUME NEW b \in DOMAIN flight', NEW c \in DOMAIN flight', NEW i \in DOMAIN flight'[b],
               NEW j \in DOMAIN flight'[c], flight'[b][i] = flight'[c][j]
        PROVE  b = c /\ i = j
    <3>1. b + 1 = c + 1 /\ i = j
      BY <2>1, <2>3, <2>4
    <3> QED
      BY <2>3, <3>1
  <2>5. ASSUME NEW b \in DOMAIN flight', NEW i \in DOMAIN flight'[b]
        PROVE  flight'[b][i] \notin queued' \cup ItemsOf(output \cup segments)'
    <3>1. /\ flight'[b][i] = flight[b + 1][i] /\ i \in DOMAIN flight[b + 1]
          /\ b + 1 \in DOMAIN flight /\ b + 1 # 1
      BY <2>3
    <3>2. flight'[b][i] \notin queued /\ flight'[b][i] \notin ItemsOf(output \cup segments)
      BY <2>1, <3>1
    <3>3. \A x \in spoken : x.item # flight'[b][i]
      BY <1>7, <1>13, <2>1, <3>1
    <3> QED
      BY <2>2, <2>3, <3>2, <3>3
  <2>6. ASSUME NEW m \in queued'
        PROVE  m \notin ItemsOf(output \cup segments)'
    <3>1. m \notin ItemsOf(output \cup segments)
      BY <2>1, <2>3
    <3>2. \A x \in spoken : x.item # m
      BY <1>7, <1>13, <2>1, <2>3
    <3> QED
      BY <2>2, <3>1, <3>2
  <2>7. ASSUME NEW x \in output' \cup segments', NEW y \in output' \cup segments', x.item = y.item
        PROVE  x = y
    <3>1. CASE x \in output \cup segments /\ y \in output \cup segments
      BY <2>1, <2>7, <3>1
    <3>2. CASE x \in spoken /\ y \in spoken
      <4>1. PICK i \in DOMAIN batch : x.item = batch[i] /\ x.voice = hs[i].voice
                 /\ x = [item |-> x.item, voice |-> x.voice, speaker |-> x.speaker]
                 /\ x.speaker = SpeakerOf(store'[SessionOf(x.item)], x.voice)
        BY <1>11, <3>2
      <4>2. PICK j \in DOMAIN batch : y.item = batch[j] /\ y.voice = hs[j].voice
                 /\ y = [item |-> y.item, voice |-> y.voice, speaker |-> y.speaker]
                 /\ y.speaker = SpeakerOf(store'[SessionOf(y.item)], y.voice)
        BY <1>11, <3>2
      <4>3. i = j
        BY <1>7, <2>1, <2>7, <4>1, <4>2
      <4> QED
        BY <2>7, <4>1, <4>2, <4>3
    <3>3. \A z \in spoken : z.item \notin ItemsOf(output \cup segments)
      BY <1>7, <1>13, <2>1
    <3>4. \A z \in output \cup segments : z.item \in ItemsOf(output \cup segments)
      BY DEF ItemsOf
    <3> QED
      BY <1>6, <2>7, <3>1, <3>2, <3>3, <3>4
  <2>8. OneBucket(flight)'
    BY <2>1, <2>3 DEF OneBucket
  <2>9. queued' \cap ItemsOf(output \cup segments)' = {}
    BY <2>6
  <2> QED
    BY <2>4, <2>5, <2>7, <2>8, <2>9 DEF OnceFits, AnsweredOnce
<1>15. Backlog \in Nat /\ Backlog' = Backlog
  BY <1>1, <1>5, BacklogIsLoad, LoadFacts DEF batchVars
<1>16. CountsAreExact'
  <2>1. \A s \in Sessions : {m \in queued' : SessionOf(m)' = s} = {m \in queued : SessionOf(m) = s}
    BY <1>5 DEF batchVars, SessionOf
  <2>2. gauge' >= Backlog'
    BY <1>5, <1>15 DEF SpeakerInv, CountsAreExact
  <2> QED
    BY <1>5, <2>1, <2>2 DEF SpeakerInv, CountsAreExact, batchVars
<1>17. SpeakerTypeOK'
  <2>1. nextWorker' \in 0 .. Len(workers') - 1
    <3>1. workers' \in WorkerLists /\ nextWorker \in 0 .. Len(workers') - 1
      BY <1>1, <1>5 DEF SpeakerTypeOK
    <3>2. Len(workers') \in Nat /\ Len(workers') # 0
      BY <3>1, ServiceAssumption
    <3> QED
      BY <1>5, <3>1, <3>2 DEF Rotate
  <2>2. flight' \in Seq(Seq(DOMAIN items')) /\ \A b \in Range(flight') : Len(b) \in 1 .. MaxBatch
    <3>1. \A b \in Range(flight') : b \in Range(flight)
      BY <1>5, <1>7 DEF Range
    <3> QED
      BY <1>1, <1>5, <1>7, <3>1 DEF SpeakerTypeOK, batchVars
  <2>3. spoken \in SUBSET Segment
    <3>1. \A x \in spoken : /\ x = [item |-> x.item, voice |-> x.voice, speaker |-> x.speaker]
                            /\ x.item \in DOMAIN items /\ x.voice \in Voices /\ x.speaker \in Nat \ {0}
      BY <1>11
    <3>2. \A m \in DOMAIN items : m \in Nat \ {0}
      BY <1>1
    <3> QED
      BY <3>1, <3>2 DEF Segment
  <2>4. (output \cup segments)' \in SUBSET Segment
    BY <1>1, <1>6, <2>3 DEF SpeakerTypeOK
  <2>5. ItemsOf(output \cup segments)' \in SUBSET DOMAIN items'
    BY <1>1, <1>5, <1>6, <1>11 DEF SpeakerTypeOK, ItemsOf, batchVars
  <2>6. gauge' \in Nat
    BY <1>1, <1>5, <1>15 DEF SpeakerTypeOK
  <2>7. store' \in [Sessions -> SpeakerSession]
    BY <1>9 DEF LearnsAll, GoodStores
  <2> QED
    BY <1>1, <1>5, <2>1, <2>2, <2>4, <2>5, <2>6, <2>7 DEF SpeakerTypeOK, batchVars
<1> QED
  BY <1>9, <1>12, <1>14, <1>16, <1>17 DEF SpeakerInv

-----------------------------------------------------------------------------
\* A flush raises.

LEMMA NextWorkerFits ==
    ASSUME SpeakerTypeOK, Rotate, UNCHANGED workers
    PROVE  nextWorker' \in 0 .. Len(workers') - 1
<1>1. workers' \in WorkerLists /\ nextWorker \in 0 .. Len(workers') - 1
  BY DEF SpeakerTypeOK
<1>2. Len(workers') \in Nat /\ Len(workers') # 0
  BY <1>1, ServiceAssumption
<1> QED
  BY <1>1, <1>2 DEF Rotate

LEMMA RaiseKeeps ==
    ASSUME SpeakerInv, Raise, StoreGrows
    PROVE  SpeakerInv'
<1>1. /\ SpeakerTypeOK /\ flight' = <<>> /\ output' = {} /\ Rotate
      /\ UNCHANGED <<batchVars, exported, forgotten, workers, now, gauge, segments>>
  BY DEF SpeakerInv, Raise
<1>2. CountsAreExact'
  BY <1>1, CountsFrame DEF SpeakerInv
<1>3. ItemsOf(output \cup segments)' = ItemsOf(segments)
  BY <1>1 DEF ItemsOf
<1>4. \A m \in ItemsOf(segments) : m \in ItemsOf(output \cup segments)
  BY DEF ItemsOf
<1>5. OnceFits'
  <2>1. queued' \cap ItemsOf(output \cup segments)' = {}
    <3>1. \A m \in queued : m \notin ItemsOf(output \cup segments)
      BY DEF SpeakerInv, OnceFits, AnsweredOnce
    <3> QED
      BY <1>1, <1>3, <1>4, <3>1 DEF batchVars
  <2>2. \A x, y \in output' \cup segments' : x.item = y.item => x = y
    BY <1>1 DEF SpeakerInv, OnceFits, AnsweredOnce
  <2>3. DOMAIN flight' = {} /\ OneBucket(flight)'
    BY <1>1, EmptyFlight
  <2> QED
    BY <2>1, <2>2, <2>3 DEF OnceFits, AnsweredOnce
<1>6. StoresFit'
  BY StoresGrow DEF SpeakerInv
<1>7. AnswersFit'
  <2>1. SpeakersStay
    BY <1>1, GrowingStays
  <2> QED
    BY <1>1, <2>1, AnswersFrame DEF SpeakerInv
<1>8. SpeakerTypeOK'
  <2>1. flight' \in Seq(Seq(DOMAIN items')) /\ \A batch \in Range(flight') : Len(batch) \in 1 .. MaxBatch
    BY <1>1, EmptyFlight
  <2>2. /\ (output \cup segments)' \in SUBSET Segment
        /\ ItemsOf(output \cup segments)' \in SUBSET DOMAIN items'
    BY <1>1, <1>3, <1>4 DEF SpeakerTypeOK, batchVars
  <2>3. store' \in [Sessions -> SpeakerSession]
    BY <1>6 DEF StoresFit, GoodStores
  <2>4. nextWorker' \in 0 .. Len(workers') - 1
    BY <1>1, NextWorkerFits
  <2> QED
    BY <1>1, <2>1, <2>2, <2>3, <2>4 DEF SpeakerTypeOK, batchVars
<1> QED
  BY <1>2, <1>5, <1>6, <1>7, <1>8 DEF SpeakerInv

LEMMA WorkerRaisesKeeps ==
    ASSUME SpeakerInv, WorkerRaises
    PROVE  SpeakerInv'
<1>1. Kept
  BY DEF WorkerRaises, Raise, Kept, batchVars
<1>2. StoreGrows
  BY <1>1, StoresFrame DEF SpeakerInv, WorkerRaises, Raise
<1> QED
  BY <1>2, RaiseKeeps DEF WorkerRaises

LEMMA AssignRaisesKeeps ==
    ASSUME SpeakerInv, AssignRaises
    PROVE  SpeakerInv'
<1> DEFINE batch == Head(flight)
           all == Hearings(batch)
<1>1. flight # <<>> /\ Raise
  BY DEF AssignRaises, Unlocked
<1>2. PICK done \in 0 .. Len(batch) - 1 : store' = AfterHearing(SubSeq(all, 1, done))
  BY DEF AssignRaises
<1>3. items \in Seq(Item) /\ batch \in Seq(DOMAIN items) /\ Alike(batch) /\ all \in Seq(Hearing)
  BY <1>1, NextBatch, TypedItems DEF SpeakerInv
<1>4. /\ DOMAIN all = DOMAIN batch /\ Len(all) = Len(batch)
      /\ \A i \in DOMAIN batch : all[i].item = batch[i] /\ MayHear(batch[i], all[i].voice)
  BY <1>3, HearingsFacts
<1> HIDE DEF all
<1>5. PICK hs : hs = SubSeq(all, 1, done)
  OBVIOUS
<1>6. hs \in Seq(Hearing) /\ \A i \in DOMAIN hs : i \in DOMAIN all /\ hs[i] = all[i]
  <2>1. Len(all) \in Nat /\ done \in Nat /\ done <= Len(all)
    BY <1>3, <1>4
  <2> QED
    BY <1>3, <1>5, <2>1
<1>7. \A i \in DOMAIN hs : MayHear(hs[i].item, hs[i].voice)
  BY <1>4, <1>6
<1>8. StoreGrows
  BY <1>1, <1>2, <1>5, <1>6, <1>7, HearingGrows DEF Raise, batchVars
<1> QED
  BY <1>1, <1>8, RaiseKeeps

-----------------------------------------------------------------------------
\* The operations of the store, and a new process

LEMMA RestoreFits ==
    ASSUME StoresFit, NEW ss \in SUBSET Sessions, RestoreAll(ss), UNCHANGED items
    PROVE  StoresFit' /\ SpeakersStay
<1>1. /\ \A s \in Sessions : store'[s] = IF s \in ss THEN exported[s] ELSE store[s]
      /\ store' = [s \in Sessions |-> store'[s]]
      /\ forgotten' = forgotten \cup {s \in ss : store[s].next > exported[s].next}
      /\ exported' = exported
  BY DEF RestoreAll, Payload
<1>2. /\ \A s \in Sessions : store[s] \in SpeakerSession /\ exported[s] \in SpeakerSession
      /\ \A s \in Sessions : Distinct(store[s]) /\ Distinct(exported[s])
      /\ exported \in GoodStores
  BY DEF StoresFit, GoodStores
<1>3. Kept
  BY DEF Kept
<1>4. store' \in GoodStores
  <2>1. store' \in [Sessions -> SpeakerSession]
    BY <1>1, <1>2
  <2> QED
    BY <1>1, <1>2, <2>1 DEF GoodStores
<1>5. \A s \in Sessions : Grows(exported[s], store[s]) /\ Grows(exported[s], store'[s])
  BY <1>1 DEF StoresFit, ExportedSurvives, Grows
<1>6. ExportedSurvives'
  BY <1>1, <1>5 DEF ExportedSurvives, Grows
<1>7. Sourced(store') /\ Sourced(exported)
  BY <1>1 DEF StoresFit, Sourced
<1>8. Sourced(store)' /\ Sourced(exported)'
  BY <1>1, <1>3, <1>7, SourcedKept DEF Sourced
<1>9. SpeakersStay
  <2> SUFFICES ASSUME NEW s \in Sessions, s \notin forgotten', NEW k \in DOMAIN store[s].profiles
               PROVE  /\ k \in DOMAIN store'[s].profiles
                      /\ store'[s].profiles[k].voice = store[s].profiles[k].voice
    BY <1>1, <1>3 DEF SpeakersStay
  <2>1. CASE s \notin ss
    BY <1>1, <2>1
  <2>2. CASE s \in ss
    <3>1. ~(store[s].next > exported[s].next) /\ store'[s] = exported[s]
      BY <1>1, <2>2
    <3>2. /\ DOMAIN store[s].profiles = 1 .. Len(store[s].profiles)
          /\ DOMAIN exported[s].profiles = 1 .. Len(exported[s].profiles)
          /\ store[s].next = Len(store[s].profiles) + 1
          /\ exported[s].next = Len(exported[s].profiles) + 1
          /\ Len(store[s].profiles) \in Nat /\ Len(exported[s].profiles) \in Nat
      BY <1>2, SessionFacts
    <3>3. k \in DOMAIN exported[s].profiles
      BY <3>1, <3>2
    <3> QED
      BY <1>5, <3>1, <3>3 DEF Grows
  <2> QED
    BY <2>1, <2>2
<1> QED
  BY <1>1, <1>2, <1>4, <1>6, <1>8, <1>9 DEF StoresFit

LEMMA RenameGrows ==
    ASSUME StoresFit, NEW s \in Sessions, NEW k, Rename(s, k), UNCHANGED items
    PROVE  StoreGrows
<1> DEFINE sp == store[s]
           new == store'[s]
           P == [voice: Voices, named: BOOLEAN]
<1>1. /\ k \in DOMAIN sp.profiles /\ sp \in SpeakerSession /\ Distinct(sp)
      /\ store \in [Sessions -> SpeakerSession]
      /\ \A u \in Sessions : Distinct(store[u])
  BY DEF Rename, StoresFit, GoodStores
<1>2. /\ store' = [store EXCEPT ![s].profiles[k].named = TRUE]
      /\ exported' = exported
  BY DEF Rename
<1>3. /\ new = [sp EXCEPT !.profiles[k].named = TRUE]
      /\ \A u \in Sessions : u # s => store'[u] = store[u]
      /\ store' = [u \in Sessions |-> store'[u]]
  BY <1>1, <1>2
<1>4. /\ sp.profiles \in Seq(P) /\ DOMAIN sp.profiles = 1 .. Len(sp.profiles) /\ Len(sp.profiles) \in Nat
      /\ sp.next = Len(sp.profiles) + 1
  BY <1>1, SessionFacts
<1> HIDE DEF sp, new
<1>5. PICK ps : ps = [sp.profiles EXCEPT ![k].named = TRUE]
  OBVIOUS
<1>6. new = [next |-> sp.next, profiles |-> ps]
  <2>1. sp = [next |-> sp.next, profiles |-> sp.profiles]
    BY <1>1 DEF SpeakerSession
  <2> QED
    BY <1>3, <1>5, <2>1
<1>7. /\ DOMAIN ps = DOMAIN sp.profiles
      /\ \A i \in DOMAIN sp.profiles : i # k => ps[i] = sp.profiles[i]
      /\ ps[k] = [sp.profiles[k] EXCEPT !.named = TRUE]
  BY <1>1, <1>5
<1>8. \A i \in DOMAIN sp.profiles : sp.profiles[i] \in P
  <2> HIDE DEF P
  <2> QED
    BY <1>4
<1>9. ps[k] \in P /\ ps[k].voice = sp.profiles[k].voice /\ ps[k].named = TRUE
  BY <1>1, <1>7, <1>8
<1>10. ps \in Seq(P) /\ Len(ps) = Len(sp.profiles)
  <2> HIDE DEF P
  <2>1. ps = [i \in 1 .. Len(sp.profiles) |-> ps[i]]
    BY <1>4, <1>5
  <2>2. \A i \in 1 .. Len(sp.profiles) : ps[i] \in P
    BY <1>4, <1>7, <1>8, <1>9
  <2>3. ps \in [1 .. Len(sp.profiles) -> P]
    BY <2>1, <2>2
  <2> QED
    BY <1>4, <2>3
<1>11. /\ DOMAIN new.profiles = DOMAIN sp.profiles
       /\ \A i \in DOMAIN sp.profiles : /\ new.profiles[i].voice = sp.profiles[i].voice
                                        /\ sp.profiles[i].named => new.profiles[i].named
  BY <1>6, <1>7, <1>9
<1>12. new \in SpeakerSession
  BY <1>1, <1>4, <1>6, <1>10 DEF SpeakerSession
<1>13. /\ Distinct(new) /\ Grows(sp, new) /\ \A v : Knows(new, v) => Knows(sp, v)
  BY <1>1, <1>11 DEF Distinct, Grows, Knows
<1>14. store' \in GoodStores
  <2>1. \A u \in Sessions : store'[u] \in SpeakerSession /\ Distinct(store'[u])
    BY <1>1, <1>3, <1>12, <1>13 DEF new
  <2>2. store' \in [Sessions -> SpeakerSession]
    BY <1>3, <2>1
  <2> QED
    BY <2>1, <2>2 DEF GoodStores
<1>15. \A u \in Sessions : Grows(store[u], store'[u]) /\ \A v : Knows(store'[u], v) => Knows(store[u], v)
  BY <1>3, <1>13, GrowsFacts DEF sp, new
<1>16. Sourced(store')
  BY <1>15 DEF StoresFit, Sourced
<1>17. Kept
  BY DEF Kept
<1> QED
  BY <1>2, <1>14, <1>15, <1>16, <1>17 DEF StoreGrows

LEMMA ExportFits ==
    ASSUME StoresFit, NEW s \in Sessions, ExportSession(s), UNCHANGED items
    PROVE  StoresFit'
<1>1. /\ store \in [Sessions -> SpeakerSession] /\ exported \in [Sessions -> SpeakerSession]
      /\ \A u \in Sessions : Distinct(store[u]) /\ Distinct(exported[u])
      /\ store' = store /\ exported' = [exported EXCEPT ![s] = store[s]]
  BY DEF StoresFit, GoodStores, ExportSession
<1>2. \A u \in Sessions : exported'[u] = IF u = s THEN store[s] ELSE exported[u]
  BY <1>1
<1>3. exported' \in GoodStores /\ store' \in GoodStores
  BY <1>1, <1>2 DEF GoodStores
<1>4. \A u \in Sessions : Grows(exported'[u], store'[u])
  BY <1>1, <1>2, GrowsFacts DEF StoresFit, ExportedSurvives, Grows
<1>5. ExportedSurvives'
  BY <1>4 DEF ExportedSurvives, Grows
<1>6. Sourced(store') /\ Sourced(exported')
  BY <1>1, <1>2 DEF StoresFit, Sourced
<1>7. Kept
  BY DEF Kept
<1>8. Sourced(store)' /\ Sourced(exported)'
  BY <1>6, <1>7, SourcedKept DEF Sourced
<1> QED
  BY <1>3, <1>5, <1>8 DEF StoresFit

LEMMA StoreCallKeeps ==
    ASSUME SpeakerInv, NEW s \in Sessions, StoreCall(s)
    PROVE  SpeakerInv'
<1>1. /\ SpeakerTypeOK
      /\ UNCHANGED <<batchVars, workerVars, flushVars, now, gauge, segments>>
      /\ UNCHANGED items
  BY DEF SpeakerInv, StoreCall, batchVars
<1>2. StoresFit' /\ SpeakersStay /\ forgotten' \in SUBSET Sessions
  <2>0. StoresFit /\ forgotten \in SUBSET Sessions
    BY <1>1 DEF SpeakerInv, SpeakerTypeOK
  <2>1. ASSUME NEW k, Rename(s, k)
        PROVE  StoresFit' /\ SpeakersStay /\ forgotten' \in SUBSET Sessions
    <3>1. StoreGrows /\ UNCHANGED forgotten
      BY <1>1, <2>0, <2>1, RenameGrows DEF Rename
    <3> QED
      BY <2>0, <3>1, StoresGrow, GrowingStays
  <2>2. ASSUME ExportSession(s)
        PROVE  StoresFit' /\ SpeakersStay /\ forgotten' \in SUBSET Sessions
    <3>1. StoresFit'
      BY <1>1, <2>0, <2>2, ExportFits
    <3>2. Kept
      BY <1>1 DEF Kept
    <3>3. SpeakersStay
      BY <2>2, <3>2 DEF SpeakersStay, ExportSession
    <3> QED
      BY <2>0, <2>2, <3>1, <3>3 DEF ExportSession
  <2>3. ASSUME RestoreAll({s})
        PROVE  StoresFit' /\ SpeakersStay /\ forgotten' \in SUBSET Sessions
    <3>1. {s} \in SUBSET Sessions
      OBVIOUS
    <3> QED
      BY <1>1, <2>0, <2>3, <3>1, RestoreFits DEF RestoreAll
  <2> QED
    BY <2>1, <2>2, <2>3 DEF StoreCall
<1>3. CountsAreExact' /\ OnceFits'
  BY <1>1, CountsFrame, OnceFrame DEF SpeakerInv, batchVars, flushVars
<1>4. AnswersFit'
  BY <1>1, <1>2, AnswersFrame DEF SpeakerInv, flushVars
<1>5. SpeakerTypeOK'
  <2>1. store' \in [Sessions -> SpeakerSession] /\ exported' \in [Sessions -> SpeakerSession]
    BY <1>2 DEF StoresFit, GoodStores
  <2> QED
    BY <1>1, <1>2, <2>1 DEF SpeakerTypeOK, batchVars, workerVars, flushVars, ItemsOf
<1> QED
  BY <1>2, <1>3, <1>4, <1>5 DEF SpeakerInv

LEMMA RestartKeeps ==
    ASSUME SpeakerInv, Restart
    PROVE  SpeakerInv'
<1>1. /\ SpeakerTypeOK /\ queued' = {} /\ pending' = [s \in Sessions |-> 0]
      /\ RestoreAll(Sessions) /\ nextWorker' = 0 /\ flight' = <<>> /\ output' = {} /\ gauge' = 0
      /\ items' = items /\ workers' = workers /\ now' = now /\ segments' = segments
  BY DEF SpeakerInv, Restart
<1>2. StoresFit' /\ SpeakersStay
  BY <1>1, RestoreFits DEF SpeakerInv
<1>3. AnswersFit'
  BY <1>1, <1>2, AnswersFrame DEF SpeakerInv
<1>4. OnceFits'
  <2>1. \A x, y \in output' \cup segments' : x.item = y.item => x = y
    BY <1>1 DEF SpeakerInv, OnceFits, AnsweredOnce
  <2>2. DOMAIN flight' = {} /\ OneBucket(flight)'
    BY <1>1, EmptyFlight
  <2> QED
    BY <1>1, <2>1, <2>2 DEF OnceFits, AnsweredOnce
<1>5. CountsAreExact'
  <2>1. Backlog' = 0
    <3>1. items' \in Seq(Item) /\ queued' \in SUBSET DOMAIN items' /\ queued' = {}
      BY <1>1, TypedItems
    <3> QED
      BY <3>1, BacklogIsLoad, LoadFacts
  <2>2. \A s \in Sessions : {n \in queued' : SessionOf(n)' = s} = {}
    BY <1>1
  <2>3. \A s \in Sessions : pending'[s] = Cardinality({n \in queued' : SessionOf(n)' = s})
    BY <1>1, <2>2, FS_EmptySet
  <2> QED
    BY <1>1, <2>1, <2>3 DEF CountsAreExact
<1>6. SpeakerTypeOK'
  <2>1. flight' \in Seq(Seq(DOMAIN items')) /\ \A batch \in Range(flight') : Len(batch) \in 1 .. MaxBatch
    BY <1>1, EmptyFlight
  <2>2. /\ (output \cup segments)' \in SUBSET Segment
        /\ ItemsOf(output \cup segments)' \in SUBSET DOMAIN items'
    BY <1>1 DEF SpeakerTypeOK, ItemsOf
  <2>3. store' \in [Sessions -> SpeakerSession] /\ exported' \in [Sessions -> SpeakerSession]
    BY <1>2 DEF StoresFit, GoodStores
  <2>4. forgotten' \in SUBSET Sessions
    BY <1>1 DEF RestoreAll, SpeakerTypeOK
  <2>5. nextWorker' \in 0 .. Len(workers') - 1
    <3>1. Len(workers') \in Nat /\ Len(workers') # 0
      BY <1>1, ServiceAssumption DEF SpeakerTypeOK
    <3> QED
      BY <1>1, <3>1
  <2>6. pending' \in [Sessions -> 0 .. PerSession]
    BY <1>1, BatchingAssumption
  <2> QED
    BY <1>1, <2>1, <2>2, <2>3, <2>4, <2>5, <2>6 DEF SpeakerTypeOK
<1> QED
  BY <1>2, <1>3, <1>4, <1>5, <1>6 DEF SpeakerInv

-----------------------------------------------------------------------------
\* Every reachable state

LEMMA SpeakerInit ==
    ASSUME ServiceInit
    PROVE  SpeakerInv
<1>1. /\ items = <<>> /\ queued = {} /\ pending = [s \in Sessions |-> 0]
      /\ store = [s \in Sessions |-> NoSpeakers] /\ exported = [s \in Sessions |-> NoSpeakers]
      /\ forgotten = {} /\ now = 0 /\ workers \in WorkerLists /\ nextWorker = 0
      /\ flight = <<>> /\ output = {} /\ gauge = 0 /\ segments = {}
  BY DEF ServiceInit, BatchInit, StoreInit
<1>2. NoSpeakers \in SpeakerSession /\ NoSpeakers.profiles = <<>>
  BY DEF NoSpeakers, SpeakerSession
<1>3. DOMAIN NoSpeakers.profiles = {}
  BY <1>2
<1>4. /\ store \in [Sessions -> SpeakerSession] /\ exported \in [Sessions -> SpeakerSession]
      /\ \A s \in Sessions : store[s] = NoSpeakers /\ exported[s] = NoSpeakers
  BY <1>1, <1>2
<1>5. StoresFit
  BY <1>3, <1>4 DEF StoresFit, GoodStores, ExportedSurvives, Sourced, Distinct, Knows
<1>6. AnswersFit
  BY <1>1 DEF AnswersFit
<1>7. DOMAIN flight = {} /\ Range(flight) = {}
  BY <1>1 DEF Range
<1>8. OnceFits
  BY <1>1, <1>7 DEF OnceFits, AnsweredOnce, OneBucket
<1>9. CountsAreExact
  <2>1. Backlog = 0
    <3>1. items \in Seq(Item) /\ queued \in SUBSET DOMAIN items /\ queued = {}
      BY <1>1
    <3> QED
      BY <3>1, BacklogIsLoad, LoadFacts
  <2>2. \A s \in Sessions : {n \in queued : SessionOf(n) = s} = {}
    BY <1>1
  <2>3. \A s \in Sessions : pending[s] = Cardinality({n \in queued : SessionOf(n) = s})
    BY <1>1, <2>2, FS_EmptySet
  <2> QED
    BY <1>1, <2>1, <2>3 DEF CountsAreExact
<1>10. SpeakerTypeOK
  <2>1. nextWorker \in 0 .. Len(workers) - 1
    <3>1. Len(workers) \in Nat /\ Len(workers) # 0
      BY <1>1, ServiceAssumption
    <3> QED
      BY <1>1, <3>1
  <2>2. pending \in [Sessions -> 0 .. PerSession] /\ now \in 0 .. MaxTime
    BY <1>1, BatchingAssumption, ServiceAssumption
  <2>3. \A S : items \in Seq(S) /\ flight \in Seq(S)
    BY <1>1
  <2>4. output \cup segments \subseteq Segment /\ ItemsOf(output \cup segments) \subseteq DOMAIN items
    BY <1>1 DEF ItemsOf
  <2> QED
    BY <1>1, <1>4, <1>7, <2>1, <2>2, <2>3, <2>4 DEF SpeakerTypeOK
<1> QED
  BY <1>5, <1>6, <1>8, <1>9, <1>10 DEF SpeakerInv

LEMMA SpeakerStep ==
    ASSUME SpeakerInv, [ServiceNext]_serviceVars
    PROVE  SpeakerInv'
<1>1. CASE Tick
  BY <1>1, TickKeeps
<1>2. ASSUME NEW chunk \in Chunks, Submit(chunk)
      PROVE  SpeakerInv'
  BY <1>2, SubmitKeeps
<1>3. ASSUME NEW at \in {0, now}, NEW force \in BOOLEAN, FlushStarts(at, force)
      PROVE  SpeakerInv'
  BY <1>3, FlushKeeps
<1>4. ASSUME NEW at \in {0, now}, NEW force \in BOOLEAN, FlushFindsNothing(at, force)
      PROVE  SpeakerInv'
  BY <1>4, NothingKeeps
<1>5. CASE EmbedBatch
  BY <1>5, EmbedKeeps
<1>6. CASE WorkerRaises
  BY <1>6, WorkerRaisesKeeps
<1>7. CASE AssignRaises
  BY <1>7, AssignRaisesKeeps
<1>8. ASSUME NEW list \in WorkerLists, ReplaceWorkers(list)
      PROVE  SpeakerInv'
  BY <1>8, ReplaceKeeps
<1>9. ASSUME NEW s \in Sessions, StoreCall(s)
      PROVE  SpeakerInv'
  BY <1>9, StoreCallKeeps
<1>10. CASE Restart
  BY <1>10, RestartKeeps
<1>11. CASE UNCHANGED serviceVars
  BY <1>11, StutterKeeps
<1> QED
  BY <1>1, <1>2, <1>3, <1>4, <1>5, <1>6, <1>7, <1>8, <1>9, <1>10, <1>11 DEF ServiceNext

(***************************************************************************)
(* Every reachable state satisfies the inductive invariant.                *)
(***************************************************************************)
THEOREM SpeakerInvariant == ServiceSpec => []SpeakerInv
<1>1. ServiceInit => SpeakerInv
  BY SpeakerInit
<1>2. SpeakerInv /\ [ServiceNext]_serviceVars => SpeakerInv'
  BY SpeakerStep
<1> QED
  BY <1>1, <1>2, PTL DEF ServiceSpec

(***************************************************************************)
(* Every variable of the service keeps its type: no batch is empty or      *)
(* larger than max_batch_size, no session has a negative count or one over *)
(* the limit, and the worker that is called next exists.                   *)
(***************************************************************************)
THEOREM SpeakerTypeCorrect == ServiceSpec => []SpeakerTypeOK
<1>1. SpeakerInv => SpeakerTypeOK
  BY DEF SpeakerInv
<1> QED
  BY <1>1, SpeakerInvariant, PTL

(***************************************************************************)
(* After any enqueue, flush, failure or restart the count of a session is  *)
(* the number of its queued chunks, and the reported backlog is at least   *)
(* what is queued (batcher.py:36-71, 77-83, service.py:49, 88).            *)
(***************************************************************************)
THEOREM CountsExact == ServiceSpec => []CountsAreExact
<1>1. SpeakerInv => CountsAreExact
  BY DEF SpeakerInv
<1> QED
  BY <1>1, SpeakerInvariant, PTL

(***************************************************************************)
(* No chunk is in two places: the batches of one pop_ready share none with *)
(* each other or with the queues, and no chunk is answered twice           *)
(* (batcher.py:45-71, service.py:52-89).                                   *)
(***************************************************************************)
THEOREM ChunksAnsweredOnce == ServiceSpec => []AnsweredOnce
<1>1. SpeakerInv => AnsweredOnce
  BY DEF SpeakerInv, OnceFits
<1> QED
  BY <1>1, SpeakerInvariant, PTL

(***************************************************************************)
(* An exported speaker keeps its number, voice and name in the store, also *)
(* after restores and restarts (session_store.py).                         *)
(***************************************************************************)
THEOREM ExportsSurvive == ServiceSpec => []ExportedSurvives
<1>1. SpeakerInv => ExportedSurvives
  BY DEF SpeakerInv, StoresFit
<1> QED
  BY <1>1, SpeakerInvariant, PTL

(***************************************************************************)
(* Two segments of one session carry one speaker exactly if they were      *)
(* heard as one voice, as docs/architecture.md asks, unless a restore has  *)
(* dropped speakers of the session.                                        *)
(***************************************************************************)
THEOREM IdentityContinues == ServiceSpec => []IdentityContinuity
<1>1. ASSUME SpeakerInv
      PROVE  IdentityContinuity
  <2> SUFFICES ASSUME NEW x \in segments, NEW y \in segments,
                      SessionOf(x.item) = SessionOf(y.item), SessionOf(x.item) \notin forgotten
               PROVE  x.voice = y.voice <=> x.speaker = y.speaker
    BY DEF IdentityContinuity
  <2>1. Names(x) /\ Names(y)
    BY <1>1 DEF SpeakerInv, AnswersFit
  <2>2. SessionOf(x.item) \in Sessions
    <3>1. x.item \in DOMAIN items
      BY <1>1 DEF SpeakerInv, SpeakerTypeOK, ItemsOf
    <3> QED
      BY <1>1, <3>1, TypedItems DEF SpeakerInv
  <2>3. Distinct(store[SessionOf(x.item)])
    BY <1>1, <2>2 DEF SpeakerInv, StoresFit, GoodStores
  <2> QED
    BY <2>1, <2>3 DEF Names, Distinct
<1> QED
  BY <1>1, SpeakerInvariant, PTL

(***************************************************************************)
(* A voice reaches a chunk or a profile of another session only through a  *)
(* chunk of the same id in the same bucket (service.py:63).                *)
(***************************************************************************)
THEOREM VoicesMixedByIdOnly == ServiceSpec => []MixedByIdOnly
<1>1. ASSUME SpeakerInv
      PROVE  MixedByIdOnly
  <2>1. \A x \in segments : MayHear(x.item, x.voice)
    BY <1>1 DEF SpeakerInv, AnswersFit
  <2>2. \A s \in Sessions : \A k \in DOMAIN store[s].profiles : Knows(store[s], store[s].profiles[k].voice)
    BY DEF Knows
  <2>3. Sourced(store)
    BY <1>1 DEF SpeakerInv, StoresFit
  <2> QED
    BY <2>1, <2>2, <2>3 DEF MixedByIdOnly, Sourced
<1> QED
  BY <1>1, SpeakerInvariant, PTL

-----------------------------------------------------------------------------
\* What a step may take out of a bucket

UrgentFirst ==
    \A b \in Range(BucketOrder) :
        LET q    == Bucket(b)
            gone == q \ queued'
        IN  /\ \A m \in gone, n \in q \ gone : SessionOf(m) = SessionOf(n) => Before(m, n)
            /\ gone # {} /\ Cardinality(SessionsIn(q)) <= MaxBatch =>
                  SessionsIn(gone) = SessionsIn(q)

LEMMA UrgentFromFirst ==
    ASSUME \A b \in Range(BucketOrder) : FirstGo(Bucket(b), Bucket(b) \ queued')
    PROVE  UrgentFirst
  BY DEF UrgentFirst, FirstGo

LEMMA UrgentWhenKept ==
    ASSUME queued \in SUBSET queued'
    PROVE  UrgentFirst
<1>1. \A b : Bucket(b) \ queued' = {}
  BY DEF Bucket
<1> QED
  BY <1>1 DEF UrgentFirst

LEMMA UrgentWhenEmptied ==
    ASSUME queued' = {}
    PROVE  UrgentFirst
<1>1. \A b : Bucket(b) \ queued' = Bucket(b) /\ Bucket(b) \ Bucket(b) = {}
  OBVIOUS
<1> QED
  BY <1>1 DEF UrgentFirst

LEMMA UrgentStep ==
    ASSUME SpeakerInv, [ServiceNext]_serviceVars
    PROVE  UrgentFirst
<1>1. CASE queued' = queued
  BY <1>1, UrgentWhenKept
<1>2. ASSUME NEW chunk \in Chunks, Submit(chunk)
      PROVE  UrgentFirst
  BY <1>2, UrgentWhenKept DEF Submit, Enqueue
<1>3. ASSUME NEW at, NEW force \in BOOLEAN, FlushStarts(at, force)
      PROVE  UrgentFirst
  <2>1. items \in Seq(Item) /\ queued \in SUBSET DOMAIN items
    BY TypedItems DEF SpeakerInv
  <2>2. PICK batches : batches = Ripe(at, force)
    OBVIOUS
  <2>3. Takes(batches)
    BY <2>1, <2>2, <1>3, RipeTakes
  <2>4. queued' = queued \ Gone(batches)
    BY <2>2, <1>3 DEF FlushStarts, Pop, Gone
  <2>5. \A b : Bucket(b) \ queued' = Bucket(b) \cap Gone(batches)
    BY <2>4 DEF Bucket
  <2> QED
    BY <2>3, <2>5, UrgentFromFirst DEF Takes
<1>4. CASE Restart
  BY <1>4, UrgentWhenEmptied DEF Restart
<1>5. \/ queued' = queued
      \/ \E chunk \in Chunks : Submit(chunk)
      \/ \E at \in {0, now}, force \in BOOLEAN : FlushStarts(at, force)
      \/ Restart
  BY DEF ServiceNext, serviceVars, batchVars, Tick, FlushFindsNothing, EmbedBatch, WorkerRaises,
         AssignRaises, Raise, ReplaceWorkers, StoreCall
<1> QED
  BY <1>1, <1>2, <1>3, <1>4, <1>5

(***************************************************************************)
(* The step property of _fair_select and of the loop over a bucket: the    *)
(* most urgent chunks of each session leave first, and no session that     *)
(* fits in a batch is left out of a bucket that dispatches                 *)
(* (batcher.py:59-71, 93-105).                                             *)
(***************************************************************************)
THEOREM MostUrgentLeave == ServiceSpec => UrgentLeaves
<1>1. SpeakerInv /\ [ServiceNext]_serviceVars => [UrgentFirst]_serviceVars
  BY UrgentStep
<1>2. ServiceSpec => [][UrgentFirst]_serviceVars
  BY <1>1, SpeakerInvariant, PTL DEF ServiceSpec
<1> QED
  BY <1>2 DEF UrgentLeaves, UrgentFirst
=============================================================================
