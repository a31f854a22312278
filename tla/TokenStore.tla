----------------------------- MODULE TokenStore -----------------------------
(***************************************************************************)
(* What VersionedKVManager (kv_metadata.py) promises its callers: every    *)
(* session and every branch owns a token sequence of its own.  A session's *)
(* sequence is appended to, cut back to any point past its committed       *)
(* prefix, and committed as a whole; a branch starts as a copy of one and  *)
(* from then on nothing done to the session reaches it.  Blocks, sharing   *)
(* and reference counts do not exist here: module KVCache implements this. *)
(***************************************************************************)
EXTENDS Integers, Sequences

CONSTANTS
    Owners,        \* session ids
    BranchIds,     \* branch ids
    Inputs,        \* the token sequences a caller appends
    MaxTokens      \* bound: tokens in one sequence

VARIABLES
    content,       \* session_tokens
    firm,          \* how many of them are committed
    lent           \* branch_tokens of the branches that exist

storeVars == <<content, firm, lent>>

StoreInit ==
    /\ content = [s \in Owners |-> <<>>]
    /\ firm = [s \in Owners |-> 0]
    /\ lent = <<>>

AppendTo(s, ts) ==
    /\ Len(content[s]) + Len(ts) <= MaxTokens
    /\ content' = [content EXCEPT ![s] = @ \o ts]
    /\ UNCHANGED <<firm, lent>>

CutBack(s, n) ==
    /\ n >= firm[s] /\ n < Len(content[s])
    /\ content' = [content EXCEPT ![s] = SubSeq(@, 1, n)]
    /\ UNCHANGED <<firm, lent>>

CommitAll(s) ==
    /\ firm' = [firm EXCEPT ![s] = Len(content[s])]
    /\ UNCHANGED <<content, lent>>

Copy(b, s, tail) ==
    /\ b \notin DOMAIN lent
    /\ lent' = [c \in DOMAIN lent \cup {b} |->
                    IF c # b THEN lent[c]
                    ELSE IF tail THEN content[s]
                    ELSE SubSeq(content[s], 1, firm[s])]
    /\ UNCHANGED <<content, firm>>

Continue(b, ts) ==
    /\ b \in DOMAIN lent
    /\ Len(lent[b]) + Len(ts) <= MaxTokens
    /\ lent' = [lent EXCEPT ![b] = @ \o ts]
    /\ UNCHANGED <<content, firm>>

Return(b) ==
    /\ b \in DOMAIN lent
    /\ lent' = [c \in DOMAIN lent \ {b} |-> lent[c]]
    /\ UNCHANGED <<content, firm>>

StoreNext ==
    \/ \E s \in Owners :
          \/ \E ts \in Inputs : AppendTo(s, ts)
          \/ \E n \in 0 .. MaxTokens : CutBack(s, n)
          \/ CommitAll(s)
    \/ \E b \in BranchIds :
          \/ \E s \in Owners, tail \in BOOLEAN : Copy(b, s, tail)
          \/ \E ts \in Inputs : Continue(b, ts)
          \/ Return(b)

StoreSpec == StoreInit /\ [][StoreNext]_storeVars

=============================================================================
