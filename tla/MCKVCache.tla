------------------------------ MODULE MCKVCache ------------------------------
(***************************************************************************)
(* KVCache for TLC.                                                        *)
(***************************************************************************)
EXTENDS KVCache, TLC

\* One token, one block, more than one block.
MCInputs == {<<1>>, <<2, 3>>, <<2, 3, 1>>}

\* Kept is the filter of the loops it stands for.
ASSUME KeptIsSelectSeq ==
    \A refs \in UNION {[1 .. n -> {1, 2, 3}] : n \in 0 .. 4}, S \in SUBSET {1, 2, 3} :
        Kept(refs, {k \in DOMAIN refs : refs[k] \in S}) =
            SelectSeq(refs, LAMBDA ref : ref \in S)

(***************************************************************************)
(* Block ids are identities only: states that differ in the choice of ids  *)
(* are one.  A reference is seen as what it holds and the places that      *)
(* share it, a block that nobody refers to as itself.                      *)
(***************************************************************************)
Places == UNION {{<<l, k>> : k \in DOMAIN RefsOf(l)} : l \in Lists}
RefAt(place) == RefsOf(place[1])[place[2]]

UpToBlockIds ==
    LET seen(place) ==
            <<[RefAt(place) EXCEPT !.block = 0],
              {other \in Places : RefAt(other).block = RefAt(place).block},
              IF RefAt(place).block \in DOMAIN blocks THEN blocks[RefAt(place).block] ELSE <<>>>>
        lost == {i \in DOMAIN blocks : \A place \in Places : RefAt(place).block # i}
    IN  <<[place \in Places |-> seen(place)], DOMAIN branchRefs, [i \in lost |-> blocks[i]]>>

=============================================================================
