------------------------------- MODULE KVCache -------------------------------
(***************************************************************************)
(* VersionedKVManager over BlockPool (kv_metadata.py): token sequences as  *)
(* lists of references to reference-counted blocks of limited size, shared *)
(* between a session and its branches and copied before a shared one is    *)
(* written.                                                                *)
(*                                                                         *)
(* A block id is an identity and nothing else, so allocation takes some id *)
(* that is not in use rather than the next one never used.  Versions,      *)
(* logical ids, residency and the counters of a reference are left out.    *)
(* The runtime appends to a session with validity TENTATIVE only.          *)
(*                                                                         *)
(* An operator marked "Mutant" is never used: it is the definition below   *)
(* it with a plausible mistake, which the properties must notice.          *)
(***************************************************************************)
EXTENDS Integers, Sequences, FiniteSets, SequencesExt

CONSTANTS
    Owners,        \* session ids
    BranchIds,     \* branch ids
    Inputs,        \* the token sequences a caller appends
    BlockSize,     \* block_size
    MaxTokens,     \* bound: tokens in one sequence
    BlockIds       \* bound: the ids of the blocks that may exist at once

ASSUME CacheAssumption ==
    /\ BlockSize \in Nat \ {0}
    /\ MaxTokens \in Nat
    /\ Inputs \subseteq Seq(Nat) \ {<<>>}
    /\ BlockIds \subseteq Nat /\ IsFiniteSet(BlockIds)

VARIABLES
    blocks,        \* BlockPool._blocks
    sessionRefs,   \* _SessionKV.refs of each session
    branchRefs     \* VersionedKVManager._branches

cacheVars == <<blocks, sessionRefs, branchRefs>>

Validity  == {"committed", "tentative"}
Ownership == {"spine", "shared", "branch_private"}

Block == [tokens : Seq(Nat), count : Nat \ {0}]
Ref == [start : Nat, end : Nat, valid : Validity, owner : Ownership,
        block : BlockIds]

CacheTypeOK ==
    /\ DOMAIN blocks \subseteq BlockIds
    /\ \A i \in DOMAIN blocks : /\ blocks[i] \in Block
                                /\ Len(blocks[i].tokens) \in 1 .. BlockSize
    /\ sessionRefs \in [Owners -> Seq(Ref)]
    /\ DOMAIN branchRefs \subseteq BranchIds
    /\ branchRefs \in [DOMAIN branchRefs -> Seq(Ref)]

CacheInit ==
    /\ blocks = <<>>
    /\ sessionRefs = [s \in Owners |-> <<>>]
    /\ branchRefs = <<>>

-----------------------------------------------------------------------------
(***************************************************************************)
(* BlockPool                                                               *)
(***************************************************************************)

End(refs) == IF refs = <<>> THEN 0 ELSE Last(refs).end

\* Tokens cut into blocks, the last one partly filled.
Chunks(ts) ==
    [k \in 1 .. ((Len(ts) + BlockSize - 1) \div BlockSize) |->
        SubSeq(ts, (k - 1) * BlockSize + 1,
                   IF k * BlockSize < Len(ts) THEN k * BlockSize ELSE Len(ts))]

\* n different ids no block has.
FreshIds(n) == CHOOSE ids \in [1 .. n -> BlockIds \ DOMAIN blocks] : IsInjective(ids)

\* Enough ids are left for n allocations: the bound on the pool.
Available(n) == Cardinality(BlockIds \ DOMAIN blocks) >= n

Allocate(pool, ids, contents) ==
    [i \in DOMAIN pool \cup Range(ids) |->
        IF i \in DOMAIN pool THEN pool[i]
        ELSE [tokens |-> contents[CHOOSE k \in DOMAIN ids : ids[k] = i], count |-> 1]]

RefsTo(refs, i) == Cardinality({k \in DOMAIN refs : refs[k].block = i})

\* Mutant of Incref: a fork is not counted.
Uncounted(pool, refs) == pool

Incref(pool, refs) ==
    [i \in DOMAIN pool |-> [pool[i] EXCEPT !.count = @ + RefsTo(refs, i)]]

\* A block without references left is deleted.
Decref(pool, refs) ==
    [i \in {j \in DOMAIN pool : pool[j].count > RefsTo(refs, j)} |->
        [pool[i] EXCEPT !.count = @ - RefsTo(refs, i)]]

Rewrite(pool, i, ts) == [pool EXCEPT ![i].tokens = ts]

\* Mutant of NewRefs: every block is taken to be full.
NewRefsFull(from, ids, contents, valid, owner) ==
    [k \in DOMAIN ids |->
        [start |-> from + (k - 1) * BlockSize, end |-> from + k * BlockSize,
         valid |-> valid, owner |-> owner, block |-> ids[k]]]

\* References to the blocks ids, holding contents, from token `from` on.
NewRefs(from, ids, contents, valid, owner) ==
    [k \in DOMAIN ids |->
        LET start == from + (k - 1) * BlockSize
        IN  [start |-> start, end |-> start + Len(contents[k]),
             valid |-> valid, owner |-> owner, block |-> ids[k]]]

TokensOf(ref) == blocks[ref.block].tokens
Room(refs) == IF refs = <<>> THEN 0 ELSE BlockSize - Len(TokensOf(Last(refs)))

\* Mutant of Fits: the last block takes everything.
FitsAll(refs, ts) == Len(ts)

\* How many of the new tokens the last block takes.
Fits(refs, ts) == IF Len(ts) <= Room(refs) THEN Len(ts) ELSE Room(refs)
Rest(ts, take) == SubSeq(ts, take + 1, Len(ts))

WithLast(refs, ref) == Append(Front(refs), ref)

\* The references at the positions K, in their order: what a loop that skips
\* the others collects.
Kept(refs, K) ==
    [n \in 1 .. Cardinality(K) |->
        refs[CHOOSE k \in K : Cardinality({j \in K : j <= k}) = n]]

-----------------------------------------------------------------------------
(***************************************************************************)
(* append_session                                                          *)
(***************************************************************************)

\* Mutant of TopsUp: a committed reference takes tentative tokens.
TopsUpAny(s) == Room(sessionRefs[s]) > 0

\* The last reference can take tokens of this validity.
TopsUp(s) ==
    /\ Room(sessionRefs[s]) > 0
    /\ Last(sessionRefs[s]).valid = "tentative"

SessionFits(s, ts) == End(sessionRefs[s]) + Len(ts) <= MaxTokens

AppendNewBlocks(s, ts) ==
    LET chunks == Chunks(ts)
        ids    == FreshIds(Len(chunks))
    IN  /\ SessionFits(s, ts) /\ Available(Len(chunks))
        /\ ~TopsUp(s)
        /\ blocks' = Allocate(blocks, ids, chunks)
        /\ sessionRefs' = [sessionRefs EXCEPT ![s] =
               @ \o NewRefs(End(@), ids, chunks, "tentative", "spine")]
        /\ UNCHANGED branchRefs

AppendInPlace(s, ts) ==
    LET last   == Last(sessionRefs[s])
        take   == Fits(sessionRefs[s], ts)
        chunks == Chunks(Rest(ts, take))
        ids    == FreshIds(Len(chunks))
    IN  /\ SessionFits(s, ts) /\ Available(Len(chunks))
        /\ TopsUp(s)
        /\ blocks[last.block].count = 1
        /\ blocks' = Allocate(Rewrite(blocks, last.block,
                                      TokensOf(last) \o SubSeq(ts, 1, take)), ids, chunks)
        /\ sessionRefs' = [sessionRefs EXCEPT ![s] =
               WithLast(@, [last EXCEPT !.end = @ + take])
                 \o NewRefs(last.end + take, ids, chunks, "tentative", "spine")]
        /\ UNCHANGED branchRefs

AppendByCopy(s, ts) ==
    LET last   == Last(sessionRefs[s])
        take   == Fits(sessionRefs[s], ts)
        chunks == Chunks(Rest(ts, take))
        ids    == FreshIds(Len(chunks) + 1)
    IN  /\ SessionFits(s, ts) /\ Available(Len(chunks) + 1)
        /\ TopsUp(s)
        /\ blocks[last.block].count > 1
        /\ blocks' = Decref(Allocate(blocks, ids,
                                <<TokensOf(last) \o SubSeq(ts, 1, take)>> \o chunks), <<last>>)
        /\ sessionRefs' = [sessionRefs EXCEPT ![s] =
               WithLast(@, [last EXCEPT !.end = @ + take, !.block = ids[1]])
                 \o NewRefs(last.end + take, Tail(ids), chunks, "tentative", "spine")]
        /\ UNCHANGED branchRefs

-----------------------------------------------------------------------------
(***************************************************************************)
(* rollback_tentative and commit_tentative                                 *)
(***************************************************************************)

CommittedEnd(refs) ==
    LET firm == {k \in DOMAIN refs : refs[k].valid = "committed"}
    IN  IF firm = {} THEN 0
        ELSE CHOOSE e \in {refs[k].end : k \in firm} : \A k \in firm : refs[k].end <= e

\* A smaller `from` raises; one at or past the end removes nothing.
Rollback(s, from) ==
    /\ from >= CommittedEnd(sessionRefs[s])
    /\ from < End(sessionRefs[s])
    /\ UNCHANGED branchRefs

Below(refs, from)  == Kept(refs, {k \in DOMAIN refs : refs[k].end <= from})
Beyond(refs, from) == Kept(refs, {k \in DOMAIN refs : refs[k].start >= from})
Straddles(ref, from) == ref.start < from /\ from < ref.end

RollbackBetweenBlocks(s, from) ==
    /\ Rollback(s, from)
    /\ \A k \in DOMAIN sessionRefs[s] : ~Straddles(sessionRefs[s][k], from)
    /\ blocks' = Decref(blocks, Beyond(sessionRefs[s], from))
    /\ sessionRefs' = [sessionRefs EXCEPT ![s] = Below(@, from)]

RollbackByTruncation(s, from) ==
    /\ Rollback(s, from)
    /\ \E k \in DOMAIN sessionRefs[s] :
          LET cut == sessionRefs[s][k]
          IN  /\ Straddles(cut, from)
              /\ blocks[cut.block].count = 1
              /\ blocks' = Decref(Rewrite(blocks, cut.block,
                                          SubSeq(TokensOf(cut), 1, from - cut.start)),
                                  Beyond(sessionRefs[s], from))
              /\ sessionRefs' = [sessionRefs EXCEPT ![s] =
                     Append(Below(@, from), [cut EXCEPT !.end = from])]

RollbackByCopy(s, from) ==
    /\ Rollback(s, from)
    /\ Available(1)
    /\ \E k \in DOMAIN sessionRefs[s] :
          LET cut == sessionRefs[s][k]
              ids == FreshIds(1)
          IN  /\ Straddles(cut, from)
              /\ blocks[cut.block].count > 1
              /\ blocks' = Decref(Allocate(blocks, ids,
                                      <<SubSeq(TokensOf(cut), 1, from - cut.start)>>),
                                  <<cut>> \o Beyond(sessionRefs[s], from))
              /\ sessionRefs' = [sessionRefs EXCEPT ![s] =
                     Append(Below(@, from), [cut EXCEPT !.end = from, !.block = ids[1]])]

\* The frontier must be the end of the cache, or the call raises.
CommitTentative(s) ==
    /\ sessionRefs' = [sessionRefs EXCEPT ![s] =
           [k \in DOMAIN @ |-> [@[k] EXCEPT !.valid = "committed"]]]
    /\ UNCHANGED <<blocks, branchRefs>>

-----------------------------------------------------------------------------
(***************************************************************************)
(* fork_branch, append_branch and release_branch                           *)
(***************************************************************************)

Shared(refs) == [k \in DOMAIN refs |-> [refs[k] EXCEPT !.owner = "shared"]]

ForkBranch(b, s, tail) ==
    LET refs   == sessionRefs[s]
        source == Kept(refs, {k \in DOMAIN refs : tail \/ refs[k].valid = "committed"})
    IN  /\ b \notin DOMAIN branchRefs
        /\ blocks' = Incref(blocks, source)
        /\ branchRefs' = [c \in DOMAIN branchRefs \cup {b} |->
               IF c # b THEN branchRefs[c]
               ELSE Shared(source)]
        /\ UNCHANGED sessionRefs

AppendBranch(b, ts) ==
    /\ b \in DOMAIN branchRefs
    /\ End(branchRefs[b]) + Len(ts) <= MaxTokens
    /\ UNCHANGED sessionRefs

BranchNewBlocks(b, ts) ==
    LET chunks == Chunks(ts)
        ids    == FreshIds(Len(chunks))
    IN  /\ AppendBranch(b, ts) /\ Available(Len(chunks))
        /\ Room(branchRefs[b]) = 0
        /\ blocks' = Allocate(blocks, ids, chunks)
        /\ branchRefs' = [branchRefs EXCEPT ![b] =
               @ \o NewRefs(End(@), ids, chunks, "committed", "branch_private")]

BranchInPlace(b, ts) ==
    LET last   == Last(branchRefs[b])
        take   == Fits(branchRefs[b], ts)
        chunks == Chunks(Rest(ts, take))
        ids    == FreshIds(Len(chunks))
    IN  /\ AppendBranch(b, ts) /\ Available(Len(chunks))
        /\ Room(branchRefs[b]) > 0
        /\ last.owner # "shared"
        /\ blocks' = Allocate(Rewrite(blocks, last.block,
                                      TokensOf(last) \o SubSeq(ts, 1, take)), ids, chunks)
        /\ branchRefs' = [branchRefs EXCEPT ![b] =
               WithLast(@, [last EXCEPT !.end = @ + take])
                 \o NewRefs(last.end + take, ids, chunks, "committed", "branch_private")]

\* A shared block is copied even when the branch is its last owner.
BranchByCopy(b, ts) ==
    LET last   == Last(branchRefs[b])
        take   == Fits(branchRefs[b], ts)
        chunks == Chunks(Rest(ts, take))
        ids    == FreshIds(Len(chunks) + 1)
    IN  /\ AppendBranch(b, ts) /\ Available(Len(chunks) + 1)
        /\ Room(branchRefs[b]) > 0
        /\ last.owner = "shared"
        /\ blocks' = Decref(Allocate(blocks, ids,
                                <<TokensOf(last) \o SubSeq(ts, 1, take)>> \o chunks), <<last>>)
        /\ branchRefs' = [branchRefs EXCEPT ![b] =
               WithLast(@, [last EXCEPT !.end = @ + take, !.block = ids[1],
                                        !.owner = "branch_private"])
                 \o NewRefs(last.end + take, Tail(ids), chunks, "committed", "branch_private")]

ReleaseBranch(b) ==
    /\ b \in DOMAIN branchRefs
    /\ blocks' = Decref(blocks, branchRefs[b])
    /\ branchRefs' = [c \in DOMAIN branchRefs \ {b} |-> branchRefs[c]]
    /\ UNCHANGED sessionRefs

CacheNext ==
    \/ \E s \in Owners :
          \/ \E ts \in Inputs : \/ AppendNewBlocks(s, ts)
                                \/ AppendInPlace(s, ts)
                                \/ AppendByCopy(s, ts)
          \/ \E from \in 0 .. MaxTokens : \/ RollbackBetweenBlocks(s, from)
                                          \/ RollbackByTruncation(s, from)
                                          \/ RollbackByCopy(s, from)
          \/ CommitTentative(s)
    \/ \E b \in BranchIds :
          \/ \E s \in Owners, tail \in BOOLEAN : ForkBranch(b, s, tail)
          \/ \E ts \in Inputs : \/ BranchNewBlocks(b, ts)
                                \/ BranchInPlace(b, ts)
                                \/ BranchByCopy(b, ts)
          \/ ReleaseBranch(b)

CacheSpec == CacheInit /\ [][CacheNext]_cacheVars

-----------------------------------------------------------------------------
(***************************************************************************)
(* Properties                                                              *)
(***************************************************************************)

Lists == {<<"session", s>> : s \in Owners} \cup {<<"branch", b>> : b \in DOMAIN branchRefs}
RefsOf(l) == IF l[1] = "session" THEN sessionRefs[l[2]] ELSE branchRefs[l[2]]

\* A block a branch may write in place, because its reference is not shared,
\* has that one reference.
PrivateIsUnshared ==
    \A b \in DOMAIN branchRefs :
        \A k \in DOMAIN branchRefs[b] :
            branchRefs[b][k].owner # "shared" =>
                blocks[branchRefs[b][k].block].count = 1

(***************************************************************************)
(* validate_ref_counts: the count of every block is the number of logical  *)
(* references to it, and every reference names a block that exists.  With  *)
(* it "a physical block is released only after all logical references are  *)
(* gone", and as soon as they are.  And where append_branch tests the      *)
(* ownership before it writes, BlockPool.extend, which counts, never       *)
(* raises.                                                                 *)
(***************************************************************************)
RefCountsExact ==
    LET slots == UNION {{<<l, k>> : k \in DOMAIN RefsOf(l)} : l \in Lists}
        target(slot) == RefsOf(slot[1])[slot[2]].block
    IN  /\ \A slot \in slots : target(slot) \in DOMAIN blocks
        /\ \A i \in DOMAIN blocks :
              blocks[i].count = Cardinality({slot \in slots : target(slot) = i})
        /\ PrivateIsUnshared

(***************************************************************************)
(* The references of every sequence tile it: they start at token 0, follow *)
(* one another without gap or overlap, are as long as their blocks, and    *)
(* the committed ones come first.  rollback_tentative finds its cut, and   *)
(* commit_tentative its frontier, by these offsets alone.                  *)
(***************************************************************************)
RefsTile ==
    \A l \in Lists :
        LET refs == RefsOf(l)
        IN  /\ refs # <<>> => refs[1].start = 0
            /\ \A k \in DOMAIN refs :
                  /\ refs[k].end - refs[k].start = Len(TokensOf(refs[k]))
                  /\ k > 1 => refs[k].start = refs[k - 1].end
                  /\ l[1] = "session" /\ k > 1 /\ refs[k].valid = "committed" =>
                        refs[k - 1].valid = "committed"

Flat(refs) == FlattenSeq([k \in DOMAIN refs |-> TokensOf(refs[k])])

Store == INSTANCE TokenStore WITH
    content <- [s \in Owners |-> Flat(sessionRefs[s])],
    firm    <- [s \in Owners |-> CommittedEnd(sessionRefs[s])],
    lent    <- [b \in DOMAIN branchRefs |-> Flat(branchRefs[b])]

(***************************************************************************)
(* The cache implements the store of independent token sequences: sharing, *)
(* copying, truncating and releasing blocks are invisible, and no write to *)
(* a session is seen by a branch or the other way around.                  *)
(***************************************************************************)
ImplementsTokenStore == Store!StoreSpec

=============================================================================
