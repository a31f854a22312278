------------------------------ MODULE Transcript ------------------------------
(***************************************************************************)
(* The versioned conversation of every session: RevisionAdapter            *)
(* (revision_adapter.py) in front of SessionManager (session_manager.py).  *)
(*                                                                         *)
(* A speech-to-text callback names a session, a segment and a revision of  *)
(* that segment.  The adapter admits it at most once, the manager bumps    *)
(* the session's version and then either refuses it, or rewrites the       *)
(* revisable tail behind the committed spine, or commits the tail.         *)
(*                                                                         *)
(* A text is the token sequence the tokenizer gives it.  APPEND_PARTIAL    *)
(* and REVISE_PARTIAL, which the adapter turns into one another and nobody *)
(* distinguishes afterwards, are both Revise.  Each action is a complete   *)
(* SessionManager.apply for one kind of event; the owner of the two        *)
(* objects, CueBeeRuntime, extends these actions in module Runtime.        *)
(*                                                                         *)
(* An operator marked "Mutant" is never used: it is the definition below   *)
(* it with a plausible mistake, which the properties must notice.          *)
(***************************************************************************)
EXTENDS Integers, Sequences, FiniteSets, SequencesExt

CONSTANTS
    Sessions,      \* session ids
    Segments,      \* segment ids, the same set in every session
    NoSegment,     \* active_segment_id is None
    MaxRevision,   \* bound: the vendor numbers revisions 0 .. MaxRevision
    Texts,         \* the hypotheses, as token sequences
    Separator,     \* the token of the blank put in front of a later segment
    GuardTokens,   \* retokenization_guard_tokens
    Faults         \* the failures the environment may produce

ASSUME TranscriptAssumption ==
    /\ NoSegment \notin Segments
    /\ MaxRevision \in Nat
    /\ Texts \subseteq Seq(Nat) \ {<<>>}
    /\ Separator \in Nat
    /\ GuardTokens \in Nat
    /\ Faults \subseteq {"unreadable", "publish", "engine"}

VARIABLES
    revision,      \* _SegmentCursor.revision, -1 before the first callback
    finalized,     \* _SegmentCursor.finalized
    version,       \* ConversationSession.version, 0 while it does not exist
    committed,     \* committed_tokens
    tentative,     \* tentative_tokens
    active,        \* active_segment_id
    closed         \* closed

cursorVars  == <<revision, finalized>>
sessionVars == <<version, committed, tentative, active, closed>>
transcriptVars == <<cursorVars, sessionVars>>

TypeOK ==
    /\ revision  \in [Sessions -> [Segments -> -1 .. MaxRevision]]
    /\ finalized \in [Sessions -> [Segments -> BOOLEAN]]
    /\ version   \in [Sessions -> Nat]
    /\ committed \in [Sessions -> Seq(Nat)]
    /\ tentative \in [Sessions -> Seq(Nat)]
    /\ active    \in [Sessions -> Segments \cup {NoSegment}]
    /\ closed    \in [Sessions -> BOOLEAN]

Init ==
    /\ revision  = [s \in Sessions |-> [g \in Segments |-> -1]]
    /\ finalized = [s \in Sessions |-> [g \in Segments |-> FALSE]]
    /\ version   = [s \in Sessions |-> 0]
    /\ committed = [s \in Sessions |-> <<>>]
    /\ tentative = [s \in Sessions |-> <<>>]
    /\ active    = [s \in Sessions |-> NoSegment]
    /\ closed    = [s \in Sessions |-> FALSE]

-----------------------------------------------------------------------------
(***************************************************************************)
(* The token difference between two hypotheses.                            *)
(***************************************************************************)

Spine(s)    == committed[s]
Frontier(s) == Len(committed[s])
Whole(s)    == committed[s] \o tentative[s]

\* The length of the longest common prefix: as many lengths agree as it has.
CommonPrefix(old, new) ==
    Cardinality({n \in 1 .. Len(old) :
                    /\ n <= Len(new)
                    /\ \A i \in 1 .. n : old[i] = new[i]})

\* Mutant of TokenLcp: the guard is not stopped at zero.
TokenLcpUnbounded(old, new, guard) ==
    LET n == CommonPrefix(old, new)
    IN  IF old = new THEN n ELSE n - guard

TokenLcp(old, new, guard) ==
    LET n == CommonPrefix(old, new)
    IN  IF old = new THEN n
        ELSE IF n <= guard THEN 0 ELSE n - guard

\* committed_text is non-empty exactly when the spine is: no text is empty.
NewTail(s, text) ==
    IF committed[s] = <<>> THEN text ELSE <<Separator>> \o text

\* Mutant of Expected: a final transcript replaces the spine.
TailAlone(s, text) == NewTail(s, text)

\* The transcript after a content event.
Expected(s, text) == committed[s] \o NewTail(s, text)

\* A hypothesis that extends the old tail needs no guard.
Kept(s, text) ==
    LET new == NewTail(s, text)
    IN  TokenLcp(tentative[s], new,
                 IF IsPrefix(tentative[s], new) THEN 0 ELSE GuardTokens)

Longer(old, new) == IF Len(old) <= Len(new) THEN Len(new) ELSE Len(old)

\* Mutant of ChangedStart: a position in the tail, not in the transcript.
ChangedStartInTail(s, text) == Kept(s, text)

ChangedStart(s, text) == Frontier(s) + Kept(s, text)
ChangedEnd(s, text)   == Frontier(s) + Longer(tentative[s], NewTail(s, text))

-----------------------------------------------------------------------------
(***************************************************************************)
(* The adapter.  Its cursor moves before the manager has accepted anything. *)
(***************************************************************************)

Fresh(s, g, r) == ~finalized[s][g] /\ r > revision[s][g]

\* Mutant of Admit: the cursor keeps the next revision expected.
AdmitNext(s, g, r, final) ==
    /\ Fresh(s, g, r)
    /\ revision'  = [revision EXCEPT ![s][g] = r + 1]
    /\ finalized' = [finalized EXCEPT ![s][g] = final]

\* Mutant of Admit: a finalized segment may be revised.
AdmitAfterFinal(s, g, r, final) ==
    /\ r > revision[s][g]
    /\ revision'  = [revision EXCEPT ![s][g] = r]
    /\ finalized' = [finalized EXCEPT ![s][g] = @ \/ final]

Admit(s, g, r, final) ==
    /\ Fresh(s, g, r)
    /\ revision'  = [revision EXCEPT ![s][g] = r]
    /\ finalized' = [finalized EXCEPT ![s][g] = final]

\* A duplicate, an older revision, or a callback for a finalized segment.
Drop(s, g, r) ==
    /\ ~Fresh(s, g, r)
    /\ UNCHANGED transcriptVars

(***************************************************************************)
(* The manager.  The version has moved when an event is refused for its    *)
(* segment or for its text, but not when the session is closed.            *)
(***************************************************************************)

\* Mutant of Bump: only the first event of a session moves the version.
BumpFirst(s) == version' = [version EXCEPT ![s] = IF @ = 0 THEN 1 ELSE @]

Bump(s) == version' = [version EXCEPT ![s] = @ + 1]

RefuseClosed(s, g, r, final) ==
    /\ Admit(s, g, r, final)
    /\ closed[s]
    /\ UNCHANGED sessionVars

InTurn(s, g) == active[s] \in {NoSegment, g}

\* An overlapping segment, a text the tokenizer cannot encode (for a content
\* event), or a relabel that is not an assignment.
RefuseLate(s, g, r, final) ==
    /\ Admit(s, g, r, final)
    /\ ~closed[s]
    /\ ~InTurn(s, g) \/ "unreadable" \in Faults
    /\ Bump(s)
    /\ UNCHANGED <<committed, tentative, active, closed>>

\* Names are display text: a relabel moves the version and nothing else here.
Relabel(s, g, r) ==
    /\ Admit(s, g, r, FALSE)
    /\ ~closed[s]
    /\ Bump(s)
    /\ UNCHANGED <<committed, tentative, active, closed>>

CloseSession(s, g, r) ==
    /\ Admit(s, g, r, FALSE)
    /\ ~closed[s]
    /\ Bump(s)
    /\ closed' = [closed EXCEPT ![s] = TRUE]
    /\ UNCHANGED <<committed, tentative, active>>

Revise(s, g, r, text) ==
    /\ Admit(s, g, r, FALSE)
    /\ ~closed[s]
    /\ InTurn(s, g)
    /\ Bump(s)
    /\ tentative' = [tentative EXCEPT ![s] = NewTail(s, text)]
    /\ active' = [active EXCEPT ![s] = g]
    /\ UNCHANGED <<committed, closed>>

CommitFinal(s, g, r, text) ==
    /\ Admit(s, g, r, TRUE)
    /\ ~closed[s]
    /\ InTurn(s, g)
    /\ Bump(s)
    /\ committed' = [committed EXCEPT ![s] = Expected(s, text)]
    /\ tentative' = [tentative EXCEPT ![s] = <<>>]
    /\ active' = [active EXCEPT ![s] = NoSegment]
    /\ UNCHANGED closed

Next ==
    \E s \in Sessions, g \in Segments, r \in 0 .. MaxRevision :
        \/ Drop(s, g, r)
        \/ \E final \in BOOLEAN : RefuseClosed(s, g, r, final)
        \/ \E final \in BOOLEAN : RefuseLate(s, g, r, final)
        \/ Relabel(s, g, r)
        \/ CloseSession(s, g, r)
        \/ \E text \in Texts : Revise(s, g, r, text)
        \/ \E text \in Texts : CommitFinal(s, g, r, text)

Spec == Init /\ [][Next]_transcriptVars

-----------------------------------------------------------------------------
(***************************************************************************)
(* Properties                                                              *)
(***************************************************************************)

(***************************************************************************)
(* The interval a diff reports as changed is sound: whatever hypothesis    *)
(* comes next, the old and the new transcript agree on every token before  *)
(* it, it starts at or after the commit frontier, it covers both           *)
(* transcripts to their ends, and it is empty only when nothing changed.   *)
(* Branch invalidation and cache rollback act on this interval alone.      *)
(***************************************************************************)
DiffSound ==
    \A s \in Sessions, text \in Texts :
        LET start == ChangedStart(s, text)
            new   == Expected(s, text)
        IN  /\ start \in Frontier(s) .. Len(Whole(s))
            /\ start <= Len(new)
            /\ \A i \in 1 .. start : Whole(s)[i] = new[i]
            /\ ChangedEnd(s, text) >= Len(Whole(s))
            /\ ChangedEnd(s, text) >= Len(new)
            /\ (start = ChangedEnd(s, text)) => Whole(s) = new

(***************************************************************************)
(* "The commit frontier only moves forward": the old spine stays a prefix  *)
(* of the new one whatever callbacks arrive, and in whatever order.        *)
(***************************************************************************)
SpineOnlyGrows ==
    [][\A s \in Sessions : IsPrefix(committed[s], committed'[s])]_transcriptVars

(***************************************************************************)
(* A segment enters the spine at most once: the spine grows only in the    *)
(* step that finalizes one segment for good, and no step ever takes a      *)
(* segment out of the finalized ones (replays of a final are idempotent).  *)
(***************************************************************************)
CommitsOnce ==
    [][/\ \A s \in Sessions : committed'[s] # committed[s] =>
            \E g \in Segments : ~finalized[s][g] /\ finalized'[s][g]
       /\ \A s \in Sessions, g \in Segments : finalized[s][g] => finalized'[s][g]
      ]_transcriptVars

(***************************************************************************)
(* Two transcripts of a session that carry the same version are the same:  *)
(* a step that changes the tokens, or closes the session, moves its        *)
(* version.  The freshness gate compares versions and nothing else.        *)
(***************************************************************************)
VersionNamesTranscript ==
    [][\A s \in Sessions :
        \/ version'[s] > version[s]
        \/ version'[s] = version[s] /\ Whole(s)' = Whole(s) /\ closed'[s] = closed[s]
      ]_transcriptVars

(***************************************************************************)
(* While a session is open, the segment that owns its tail can still be    *)
(* revised and finalized; the tail is empty exactly when nobody owns it.   *)
(* A session whose owner is finalized refuses every other segment for      *)
(* good.  It holds while every text can be encoded.                        *)
(***************************************************************************)
TailOwnerIsOpen ==
    \A s \in Sessions :
        /\ (active[s] = NoSegment) <=> (tentative[s] = <<>>)
        /\ ~closed[s] /\ active[s] # NoSegment => ~finalized[s][active[s]]

=============================================================================
