--------------------------- MODULE TranscriptProofs ---------------------------
(***************************************************************************)
(* Theorems about module Transcript, for every set of sessions, segments   *)
(* and texts, every guard, every bound on revisions and every fault.       *)
(***************************************************************************)
EXTENDS Transcript, TLAPS, FiniteSetTheorems, SequenceTheorems

USE TranscriptAssumption

-----------------------------------------------------------------------------
(***************************************************************************)
(* Type correctness: versions, cursors and token sequences stay what their *)
(* classes declare, whatever callbacks arrive.                             *)
(***************************************************************************)

(***************************************************************************)
(* The new tail of a content event is a non-empty token sequence.          *)
(***************************************************************************)
LEMMA NewTailType ==
    ASSUME TypeOK, NEW s \in Sessions, NEW text \in Texts
    PROVE  /\ NewTail(s, text) \in Seq(Nat)
           /\ NewTail(s, text) # <<>>
<1>1. text \in Seq(Nat) /\ text # <<>>
  OBVIOUS
<1>2. <<Separator>> \in Seq(Nat) /\ Len(<<Separator>>) = 1
  OBVIOUS
<1>3. <<Separator>> \o text \in Seq(Nat) /\ Len(<<Separator>> \o text) = 1 + Len(text)
  BY <1>1, <1>2
<1> QED
  BY <1>1, <1>3 DEF NewTail

(***************************************************************************)
(* The program starts in a typed state.                                    *)
(***************************************************************************)
LEMMA InitType == Init => TypeOK
<1> SUFFICES ASSUME Init PROVE TypeOK
  OBVIOUS
<1>1. <<>> \in Seq(Nat) /\ 0 \in Nat /\ -1 \in -1 .. MaxRevision
  OBVIOUS
<1> QED
  BY <1>1 DEF Init, TypeOK

(***************************************************************************)
(* The adapter's cursor stays typed when it admits a callback.             *)
(***************************************************************************)
LEMMA AdmitType ==
    ASSUME TypeOK, NEW s \in Sessions, NEW g \in Segments,
           NEW r \in 0 .. MaxRevision, NEW final \in BOOLEAN, Admit(s, g, r, final)
    PROVE  /\ revision'  \in [Sessions -> [Segments -> -1 .. MaxRevision]]
           /\ finalized' \in [Sessions -> [Segments -> BOOLEAN]]
<1>1. r \in -1 .. MaxRevision
  OBVIOUS
<1>2. revision' \in [Sessions -> [Segments -> -1 .. MaxRevision]]
  BY <1>1 DEF Admit, TypeOK
<1>3. finalized' \in [Sessions -> [Segments -> BOOLEAN]]
  BY DEF Admit, TypeOK
<1> QED
  BY <1>2, <1>3

(***************************************************************************)
(* The version stays a natural number when it moves.                       *)
(***************************************************************************)
LEMMA BumpType ==
    ASSUME TypeOK, NEW s \in Sessions, Bump(s)
    PROVE  version' \in [Sessions -> Nat]
BY DEF Bump, TypeOK

(***************************************************************************)
(* Every event, accepted or refused, preserves the types.                  *)
(***************************************************************************)
LEMMA StepType == TypeOK /\ [Next]_transcriptVars => TypeOK'
<1> SUFFICES ASSUME TypeOK, [Next]_transcriptVars PROVE TypeOK'
  OBVIOUS
<1>1. CASE UNCHANGED transcriptVars
  BY <1>1 DEF TypeOK, transcriptVars, cursorVars, sessionVars
<1>2. CASE Next
  <2> PICK s \in Sessions, g \in Segments, r \in 0 .. MaxRevision :
        \/ Drop(s, g, r)
        \/ \E final \in BOOLEAN : RefuseClosed(s, g, r, final)
        \/ \E final \in BOOLEAN : RefuseLate(s, g, r, final)
        \/ Relabel(s, g, r)
        \/ CloseSession(s, g, r)
        \/ \E text \in Texts : Revise(s, g, r, text)
        \/ \E text \in Texts : CommitFinal(s, g, r, text)
    BY <1>2 DEF Next
  <2>1. CASE Drop(s, g, r)
    BY <2>1 DEF Drop, TypeOK, transcriptVars, cursorVars, sessionVars
  <2>2. ASSUME NEW final \in BOOLEAN, RefuseClosed(s, g, r, final) PROVE TypeOK'
    BY <2>2, AdmitType DEF RefuseClosed, TypeOK, sessionVars
  <2>3. ASSUME NEW final \in BOOLEAN, RefuseLate(s, g, r, final) PROVE TypeOK'
    <3>1. /\ revision'  \in [Sessions -> [Segments -> -1 .. MaxRevision]]
          /\ finalized' \in [Sessions -> [Segments -> BOOLEAN]]
      BY <2>3, AdmitType DEF RefuseLate
    <3>2. version' \in [Sessions -> Nat]
      BY <2>3, BumpType DEF RefuseLate
    <3> QED
      BY <2>3, <3>1, <3>2 DEF RefuseLate, TypeOK
  <2>4. CASE Relabel(s, g, r)
    <3>1. /\ revision'  \in [Sessions -> [Segments -> -1 .. MaxRevision]]
          /\ finalized' \in [Sessions -> [Segments -> BOOLEAN]]
      BY <2>4, AdmitType DEF Relabel
    <3>2. version' \in [Sessions -> Nat]
      BY <2>4, BumpType DEF Relabel
    <3> QED
      BY <2>4, <3>1, <3>2 DEF Relabel, TypeOK
  <2>5. CASE CloseSession(s, g, r)
    <3>1. /\ revision'  \in [Sessions -> [Segments -> -1 .. MaxRevision]]
          /\ finalized' \in [Sessions -> [Segments -> BOOLEAN]]
      BY <2>5, AdmitType DEF CloseSession
    <3>2. version' \in [Sessions -> Nat]
      BY <2>5, BumpType DEF CloseSession
    <3> QED
      BY <2>5, <3>1, <3>2 DEF CloseSession, TypeOK
  <2>6. ASSUME NEW text \in Texts, Revise(s, g, r, text) PROVE TypeOK'
    <3>1. /\ revision'  \in [Sessions -> [Segments -> -1 .. MaxRevision]]
          /\ finalized' \in [Sessions -> [Segments -> BOOLEAN]]
      BY <2>6, AdmitType DEF Revise
    <3>2. version' \in [Sessions -> Nat]
      BY <2>6, BumpType DEF Revise
    <3>3. NewTail(s, text) \in Seq(Nat)
      BY NewTailType
    <3> QED
      BY <2>6, <3>1, <3>2, <3>3 DEF Revise, TypeOK
  <2>7. ASSUME NEW text \in Texts, CommitFinal(s, g, r, text) PROVE TypeOK'
    <3>1. /\ revision'  \in [Sessions -> [Segments -> -1 .. MaxRevision]]
          /\ finalized' \in [Sessions -> [Segments -> BOOLEAN]]
      BY <2>7, AdmitType DEF CommitFinal
    <3>2. version' \in [Sessions -> Nat]
      BY <2>7, BumpType DEF CommitFinal
    <3>3. NewTail(s, text) \in Seq(Nat)
      BY NewTailType
    <3>4. committed[s] \o NewTail(s, text) \in Seq(Nat)
      BY <3>3 DEF TypeOK
    <3>5. committed' \in [Sessions -> Seq(Nat)]
      BY <2>7, <3>4 DEF CommitFinal, Expected, TypeOK
    <3>6. tentative' \in [Sessions -> Seq(Nat)]
      <4>1. <<>> \in Seq(Nat)
        OBVIOUS
      <4> QED
        BY <2>7, <4>1 DEF CommitFinal, TypeOK
    <3>7. active' \in [Sessions -> Segments \cup {NoSegment}]
      BY <2>7 DEF CommitFinal, TypeOK
    <3> QED
      BY <2>7, <3>1, <3>2, <3>5, <3>6, <3>7 DEF CommitFinal, TypeOK
  <2> QED
    BY <2>1, <2>2, <2>3, <2>4, <2>5, <2>6, <2>7
<1> QED
  BY <1>1, <1>2

(***************************************************************************)
(* Versions, cursors and token sequences stay what their classes declare   *)
(* (TypeOK), whatever callbacks arrive.                                    *)
(***************************************************************************)
THEOREM TypeCorrect == Spec => []TypeOK
<1> QED
  BY InitType, StepType, PTL DEF Spec

-----------------------------------------------------------------------------
(***************************************************************************)
(* The common prefix, counted as the lengths on which two sequences agree, *)
(* is one: they agree up to it and differ right after it.                  *)
(***************************************************************************)
LEMMA CommonPrefixProperties ==
    ASSUME NEW old \in Seq(Nat), NEW new \in Seq(Nat)
    PROVE  /\ CommonPrefix(old, new) \in Nat
           /\ CommonPrefix(old, new) <= Len(old)
           /\ CommonPrefix(old, new) <= Len(new)
           /\ \A i \in 1 .. CommonPrefix(old, new) : old[i] = new[i]
<1> DEFINE agree == {n \in 1 .. Len(old) :
                        n <= Len(new) /\ \A i \in 1 .. n : old[i] = new[i]}
           c == Cardinality(agree)
<1>1. Len(old) \in Nat /\ Len(new) \in Nat
  OBVIOUS
<1>2. ASSUME NEW m \in Nat, agree \subseteq 1 .. m
      PROVE  c \in Nat /\ c <= m
  <2>1. IsFiniteSet(1 .. m) /\ Cardinality(1 .. m) = m
    BY FS_Interval
  <2>2. IsFiniteSet(agree) /\ c <= Cardinality(1 .. m)
    BY <2>1, <1>2, FS_Subset
  <2> QED
    BY <2>1, <2>2, FS_CardinalityType
<1>3. c \in Nat /\ c <= Len(old)
  BY <1>1, <1>2
<1>4. c <= Len(new)
  BY <1>1, <1>2
<1>5. c # 0 => c \in agree
  <2> SUFFICES ASSUME c # 0, c \notin agree PROVE FALSE
    OBVIOUS
  <2>1. c - 1 \in Nat
    BY <1>3
  <2>2. agree \subseteq 1 .. (c - 1)
    <3> SUFFICES ASSUME NEW n \in agree PROVE n \in 1 .. (c - 1)
      OBVIOUS
    <3>1. n \in 1 .. Len(old) /\ \A i \in 1 .. n : old[i] = new[i]
      OBVIOUS
    <3>2. CASE n >= c
      <4>1. c \in 1 .. Len(old) /\ c <= Len(new)
        BY <1>3, <1>4
      <4>2. \A i \in 1 .. c : old[i] = new[i]
        BY <3>1, <3>2, <1>3
      <4>3. c \in agree
        BY <4>1, <4>2
      <4> QED
        BY <4>3
    <3>3. CASE n < c
      BY <3>1, <3>3, <1>3
    <3> HIDE DEF c
    <3> QED
      BY <3>1, <3>2, <3>3, <1>3
  <2>3. c <= c - 1
    BY <2>1, <2>2, <1>2
  <2> QED
    BY <2>3, <1>3
<1>6. \A i \in 1 .. c : old[i] = new[i]
  BY <1>3, <1>5
<1> QED
  BY <1>3, <1>4, <1>6 DEF CommonPrefix

(***************************************************************************)
(* The guard only shortens the common prefix.                              *)
(***************************************************************************)
LEMMA TokenLcpProperties ==
    ASSUME NEW old \in Seq(Nat), NEW new \in Seq(Nat), NEW guard \in Nat
    PROVE  /\ TokenLcp(old, new, guard) \in Nat
           /\ TokenLcp(old, new, guard) <= Len(old)
           /\ TokenLcp(old, new, guard) <= Len(new)
           /\ \A i \in 1 .. TokenLcp(old, new, guard) : old[i] = new[i]
<1>1. /\ CommonPrefix(old, new) \in Nat
      /\ CommonPrefix(old, new) <= Len(old)
      /\ CommonPrefix(old, new) <= Len(new)
      /\ \A i \in 1 .. CommonPrefix(old, new) : old[i] = new[i]
  BY CommonPrefixProperties
<1>2. TokenLcp(old, new, guard) \in 0 .. CommonPrefix(old, new)
  BY <1>1 DEF TokenLcp
<1>3. Len(old) \in Nat /\ Len(new) \in Nat
  OBVIOUS
<1> QED
  BY <1>1, <1>2, <1>3

(***************************************************************************)
(* What is kept of the old tail is a common prefix of it and the new one.  *)
(***************************************************************************)
LEMMA KeptProperties ==
    ASSUME TypeOK, NEW s \in Sessions, NEW text \in Texts
    PROVE  /\ Kept(s, text) \in Nat
           /\ Kept(s, text) <= Len(tentative[s])
           /\ Kept(s, text) <= Len(NewTail(s, text))
           /\ \A i \in 1 .. Kept(s, text) : tentative[s][i] = NewTail(s, text)[i]
<1>1. tentative[s] \in Seq(Nat)
  BY DEF TypeOK
<1>2. NewTail(s, text) \in Seq(Nat)
  BY NewTailType
<1> DEFINE guard == IF IsPrefix(tentative[s], NewTail(s, text)) THEN 0 ELSE GuardTokens
<1>3. guard \in Nat
  OBVIOUS
<1>4. Kept(s, text) = TokenLcp(tentative[s], NewTail(s, text), guard)
  BY DEF Kept
<1> HIDE DEF guard
<1> DEFINE lcp == TokenLcp(tentative[s], NewTail(s, text), guard)
<1>5. /\ lcp \in Nat
      /\ lcp <= Len(tentative[s])
      /\ lcp <= Len(NewTail(s, text))
      /\ \A i \in 1 .. lcp : tentative[s][i] = NewTail(s, text)[i]
  BY <1>1, <1>2, <1>3, TokenLcpProperties
<1> QED
  BY <1>4, <1>5

-----------------------------------------------------------------------------
(***************************************************************************)
(* The reported interval of change is sound in every typed state, for      *)
(* every tokenization and every guard.                                     *)
(***************************************************************************)
LEMMA TypedDiffSound == TypeOK => DiffSound
<1> SUFFICES ASSUME TypeOK, NEW s \in Sessions, NEW text \in Texts
             PROVE  LET start == ChangedStart(s, text)
                        new   == committed[s] \o NewTail(s, text)
                    IN  /\ start \in Frontier(s) .. Len(Whole(s))
                        /\ start <= Len(new)
                        /\ \A i \in 1 .. start : Whole(s)[i] = new[i]
                        /\ ChangedEnd(s, text) >= Len(Whole(s))
                        /\ ChangedEnd(s, text) >= Len(new)
                        /\ (start = ChangedEnd(s, text)) => Whole(s) = new
  BY DEF DiffSound, Expected
<1> DEFINE spine == committed[s]
           old   == tentative[s]
           tail  == NewTail(s, text)
           kept  == Kept(s, text)
           new   == spine \o tail
<1>1. spine \in Seq(Nat) /\ old \in Seq(Nat)
  BY DEF TypeOK
<1>2. tail \in Seq(Nat)
  BY NewTailType
<1>3. /\ kept \in Nat /\ kept <= Len(old) /\ kept <= Len(tail)
      /\ \A i \in 1 .. kept : old[i] = tail[i]
  BY KeptProperties
<1>4. /\ Whole(s) = spine \o old
      /\ Frontier(s) = Len(spine)
      /\ ChangedStart(s, text) = Len(spine) + kept
      /\ ChangedEnd(s, text) = Len(spine) + Longer(old, tail)
  BY DEF Whole, Frontier, ChangedStart, ChangedEnd
<1> HIDE DEF spine, old, tail, kept
<1>5. /\ Len(spine) \in Nat /\ Len(old) \in Nat /\ Len(tail) \in Nat
      /\ Len(spine \o old) = Len(spine) + Len(old)
      /\ Len(spine \o tail) = Len(spine) + Len(tail)
  BY <1>1, <1>2
<1>6. ASSUME NEW i \in 1 .. (Len(spine) + kept)
      PROVE  (spine \o old)[i] = (spine \o tail)[i]
  <2>1. CASE i <= Len(spine)
    <3>1. i \in 1 .. Len(spine)
      BY <2>1, <1>3, <1>5
    <3> QED
      BY <3>1, <1>1, <1>2, ConcatProperties
  <2>2. CASE i > Len(spine)
    <3>1. /\ i - Len(spine) \in 1 .. kept
          /\ i \in Len(spine) + 1 .. Len(spine) + Len(old)
          /\ i \in Len(spine) + 1 .. Len(spine) + Len(tail)
      BY <2>2, <1>3, <1>5
    <3>2. (spine \o old)[i] = old[i - Len(spine)]
      BY <3>1, <1>1, ConcatProperties
    <3>3. (spine \o tail)[i] = tail[i - Len(spine)]
      BY <3>1, <1>1, <1>2, ConcatProperties
    <3> QED
      BY <3>1, <3>2, <3>3, <1>3
  <2> QED
    BY <2>1, <2>2, <1>3, <1>5
<1>7. ASSUME Len(spine) + kept = Len(spine) + Longer(old, tail)
      PROVE  old = tail
  <2>1. Len(old) = Len(tail) /\ kept = Len(old)
    BY <1>7, <1>3, <1>5 DEF Longer
  <2> QED
    BY <2>1, <1>1, <1>2, <1>3, SeqEqual
<1>8. Longer(old, tail) >= Len(old) /\ Longer(old, tail) >= Len(tail) /\ Longer(old, tail) \in Nat
  BY <1>5 DEF Longer
<1>9. ChangedStart(s, text) \in Frontier(s) .. Len(Whole(s))
  BY <1>3, <1>4, <1>5
<1>10. ChangedStart(s, text) <= Len(new)
  BY <1>3, <1>4, <1>5
<1>11. \A i \in 1 .. ChangedStart(s, text) : Whole(s)[i] = new[i]
  BY <1>4, <1>6
<1>12. ChangedEnd(s, text) >= Len(Whole(s)) /\ ChangedEnd(s, text) >= Len(new)
  BY <1>4, <1>5, <1>8
<1>13. ChangedStart(s, text) = ChangedEnd(s, text) => Whole(s) = new
  BY <1>4, <1>7
<1>14. new = committed[s] \o NewTail(s, text)
  BY DEF spine, tail
<1> QED
  BY <1>9, <1>10, <1>11, <1>12, <1>13, <1>14

(***************************************************************************)
(* Whatever is rolled back or invalidated for a revision covers what the   *)
(* revision changed, and never reaches below the commit frontier.          *)
(***************************************************************************)
THEOREM DiffIsSound == Spec => []DiffSound
<1> QED
  BY TypeCorrect, TypedDiffSound, PTL

-----------------------------------------------------------------------------
(***************************************************************************)
(* What one event does to the spine and to the finalized segments.         *)
(***************************************************************************)

(***************************************************************************)
(* A sequence is a prefix of itself and of whatever is appended to it.     *)
(***************************************************************************)
LEMMA PrefixProperties ==
    ASSUME NEW a \in Seq(Nat), NEW b \in Seq(Nat)
    PROVE  IsPrefix(a, a) /\ IsPrefix(a, a \o b)
<1>1. Len(a) \in Nat /\ Len(a \o b) = Len(a) + Len(b) /\ Len(b) \in Nat /\ a \o b \in Seq(Nat)
  OBVIOUS
<1>2. SubSeq(a, 1, Len(a)) = a
  BY <1>1, SubSeqProperties, SeqEqual
<1>3. SubSeq(a \o b, 1, Len(a)) = a
  <2> DEFINE head == SubSeq(a \o b, 1, Len(a))
  <2>1. head \in Seq(Nat) /\ Len(head) = Len(a)
    BY <1>1, SubSeqProperties
  <2>2. \A i \in 1 .. Len(a) : head[i] = (a \o b)[i]
    BY <1>1, SubSeqProperties
  <2>3. \A i \in 1 .. Len(a) : (a \o b)[i] = a[i]
    BY ConcatProperties
  <2> HIDE DEF head
  <2>4. head = a
    BY <2>1, <2>2, <2>3, SeqEqual
  <2> QED
    BY <2>4 DEF head
<1> QED
  BY <1>1, <1>2, <1>3 DEF IsPrefix

AppendsTail(s, g) ==
    /\ ~finalized[s][g] /\ finalized'[s][g]
    /\ \E text \in Texts :
          committed' = [committed EXCEPT ![s] = @ \o NewTail(s, text)]

(***************************************************************************)
(* An event leaves the spine alone, or appends one tail to it in the step  *)
(* that finalizes a segment.                                               *)
(***************************************************************************)
LEMMA SpineStep ==
    ASSUME TypeOK, Next
    PROVE  \/ committed' = committed
           \/ \E s \in Sessions, g \in Segments : AppendsTail(s, g)
<1> PICK s \in Sessions, g \in Segments, r \in 0 .. MaxRevision :
      \/ Drop(s, g, r)
      \/ \E final \in BOOLEAN : RefuseClosed(s, g, r, final)
      \/ \E final \in BOOLEAN : RefuseLate(s, g, r, final)
      \/ Relabel(s, g, r)
      \/ CloseSession(s, g, r)
      \/ \E text \in Texts : Revise(s, g, r, text)
      \/ \E text \in Texts : CommitFinal(s, g, r, text)
  BY DEF Next
<1>1. CASE \/ Drop(s, g, r)
           \/ \E final \in BOOLEAN : RefuseClosed(s, g, r, final)
           \/ \E final \in BOOLEAN : RefuseLate(s, g, r, final)
           \/ Relabel(s, g, r)
           \/ CloseSession(s, g, r)
           \/ \E text \in Texts : Revise(s, g, r, text)
  BY <1>1 DEF Drop, RefuseClosed, RefuseLate, Relabel, CloseSession, Revise,
              transcriptVars, sessionVars
<1>2. ASSUME NEW text \in Texts, CommitFinal(s, g, r, text)
      PROVE  AppendsTail(s, g)
  <2>1. ~finalized[s][g]
    BY <1>2 DEF CommitFinal, Admit, Fresh
  <2>2. finalized'[s][g]
    BY <1>2 DEF CommitFinal, Admit, TypeOK
  <2>3. committed' = [committed EXCEPT ![s] = @ \o NewTail(s, text)]
    BY <1>2 DEF CommitFinal, Expected
  <2> QED
    BY <2>1, <2>2, <2>3 DEF AppendsTail
<1> QED
  BY <1>1, <1>2

\* No event shortens or rewrites a spine.
LEMMA SpinePrefix ==
    ASSUME TypeOK, [Next]_transcriptVars, NEW s \in Sessions
    PROVE  IsPrefix(committed[s], committed'[s])
<1>0. committed[s] \in Seq(Nat)
  BY DEF TypeOK
<1>1. CASE committed' = committed
  BY <1>0, <1>1, PrefixProperties
<1>2. ASSUME NEW t \in Sessions, NEW g \in Segments, AppendsTail(t, g)
      PROVE  IsPrefix(committed[s], committed'[s])
  <2>1. PICK text \in Texts :
          committed' = [committed EXCEPT ![t] = @ \o NewTail(t, text)]
    BY <1>2 DEF AppendsTail
  <2>2. NewTail(t, text) \in Seq(Nat)
    BY NewTailType
  <2>3. committed'[s] = IF s = t THEN committed[s] \o NewTail(t, text) ELSE committed[s]
    BY <2>1 DEF TypeOK
  <2> QED
    BY <1>0, <2>2, <2>3, PrefixProperties
<1> QED
  BY <1>1, <1>2, SpineStep DEF transcriptVars, sessionVars

(***************************************************************************)
(* "The commit frontier only moves forward."                               *)
(***************************************************************************)
THEOREM SpineGrows == Spec => SpineOnlyGrows
<1>1. TypeOK /\ [Next]_transcriptVars
        => [\A s \in Sessions : IsPrefix(committed[s], committed'[s])]_transcriptVars
  BY SpinePrefix
<1> QED
  BY <1>1, TypeCorrect, PTL DEF Spec, SpineOnlyGrows

(***************************************************************************)
(* A segment is committed at most once, and stays finalized.               *)
(***************************************************************************)
LEMMA FinalizedStays ==
    ASSUME TypeOK, [Next]_transcriptVars, NEW s \in Sessions, NEW g \in Segments,
           finalized[s][g]
    PROVE  finalized'[s][g]
<1>1. CASE UNCHANGED transcriptVars
  BY <1>1 DEF transcriptVars, cursorVars
<1>2. ASSUME NEW t \in Sessions, NEW h \in Segments, NEW r \in 0 .. MaxRevision,
             NEW final \in BOOLEAN, Admit(t, h, r, final)
      PROVE  finalized'[s][g]
  BY <1>2 DEF Admit, Fresh, TypeOK
<1>3. CASE Next
  <2> PICK t \in Sessions, h \in Segments, r \in 0 .. MaxRevision :
        \/ Drop(t, h, r)
        \/ \E final \in BOOLEAN : RefuseClosed(t, h, r, final)
        \/ \E final \in BOOLEAN : RefuseLate(t, h, r, final)
        \/ Relabel(t, h, r)
        \/ CloseSession(t, h, r)
        \/ \E text \in Texts : Revise(t, h, r, text)
        \/ \E text \in Texts : CommitFinal(t, h, r, text)
    BY <1>3 DEF Next
  <2>1. UNCHANGED transcriptVars \/ \E final \in BOOLEAN : Admit(t, h, r, final)
    BY DEF Drop, RefuseClosed, RefuseLate, Relabel, CloseSession, Revise, CommitFinal
  <2> QED
    BY <2>1, <1>1, <1>2
<1> QED
  BY <1>1, <1>3

(***************************************************************************)
(* A segment enters the spine at most once, and replays of a final change  *)
(* nothing.                                                                *)
(***************************************************************************)
THEOREM SegmentsCommitOnce == Spec => CommitsOnce
<1> DEFINE once ==
        /\ \A s \in Sessions : committed'[s] # committed[s] =>
             \E g \in Segments : ~finalized[s][g] /\ finalized'[s][g]
        /\ \A s \in Sessions, g \in Segments : finalized[s][g] => finalized'[s][g]
<1>1. ASSUME TypeOK, [Next]_transcriptVars, NEW s \in Sessions,
             committed'[s] # committed[s]
      PROVE  \E g \in Segments : ~finalized[s][g] /\ finalized'[s][g]
  <2>1. Next
    BY <1>1 DEF transcriptVars, sessionVars
  <2>2. PICK t \in Sessions, g \in Segments : AppendsTail(t, g)
    BY <1>1, <2>1, SpineStep
  <2>3. s = t
    BY <1>1, <2>2 DEF AppendsTail, TypeOK
  <2> QED
    BY <2>2, <2>3 DEF AppendsTail
<1>2. TypeOK /\ [Next]_transcriptVars => [once]_transcriptVars
  BY <1>1, FinalizedStays
<1> QED
  BY <1>2, TypeCorrect, PTL DEF Spec, CommitsOnce

-----------------------------------------------------------------------------
(***************************************************************************)
(* A version names one transcript: only an event that moves the version    *)
(* changes a session's tokens or closes it.                                *)
(***************************************************************************)
LEMMA VersionStep ==
    ASSUME TypeOK, [Next]_transcriptVars, NEW s \in Sessions
    PROVE  \/ version'[s] > version[s]
           \/ /\ version'[s] = version[s]
              /\ committed'[s] = committed[s]
              /\ tentative'[s] = tentative[s]
              /\ closed'[s] = closed[s]
<1>1. CASE UNCHANGED sessionVars
  BY <1>1 DEF sessionVars
<1>2. CASE Next
  <2> PICK t \in Sessions, g \in Segments, r \in 0 .. MaxRevision :
        \/ Drop(t, g, r)
        \/ \E final \in BOOLEAN : RefuseClosed(t, g, r, final)
        \/ \E final \in BOOLEAN : RefuseLate(t, g, r, final)
        \/ Relabel(t, g, r)
        \/ CloseSession(t, g, r)
        \/ \E text \in Texts : Revise(t, g, r, text)
        \/ \E text \in Texts : CommitFinal(t, g, r, text)
    BY <1>2 DEF Next
  <2>1. UNCHANGED sessionVars \/ Bump(t)
    BY DEF Drop, RefuseClosed, RefuseLate, Relabel, CloseSession, Revise, CommitFinal,
           transcriptVars
  <2>2. version[t] \in Nat
    BY DEF TypeOK
  <2>3. CASE Bump(t) /\ s = t
    <3>1. version'[s] = version[s] + 1
      BY <2>3 DEF Bump, TypeOK
    <3> QED
      BY <2>2, <2>3, <3>1
  <2>4. CASE Bump(t) /\ s # t
    <3>1. version'[s] = version[s]
      BY <2>4 DEF Bump, TypeOK
    <3>2. /\ committed'[s] = committed[s]
          /\ tentative'[s] = tentative[s]
          /\ closed'[s] = closed[s]
      BY <2>4 DEF Drop, RefuseClosed, RefuseLate, Relabel, CloseSession, Revise,
                  CommitFinal, transcriptVars, sessionVars, TypeOK
    <3> QED
      BY <3>1, <3>2
  <2> QED
    BY <1>1, <2>1, <2>3, <2>4
<1> QED
  BY <1>1, <1>2 DEF transcriptVars

(***************************************************************************)
(* Equal versions of a session mean equal transcripts, which is what the   *)
(* freshness gate relies on (VersionNamesTranscript).                      *)
(***************************************************************************)
THEOREM VersionsNameTranscripts == Spec => VersionNamesTranscript
<1> DEFINE named ==
        \A s \in Sessions :
            \/ version'[s] > version[s]
            \/ version'[s] = version[s] /\ Whole(s)' = Whole(s) /\ closed'[s] = closed[s]
<1>1. TypeOK /\ [Next]_transcriptVars => [named]_transcriptVars
  BY VersionStep DEF Whole
<1> QED
  BY <1>1, TypeCorrect, PTL DEF Spec, VersionNamesTranscript

-----------------------------------------------------------------------------
(***************************************************************************)
(* While every text can be encoded, an open session is never left waiting  *)
(* for a segment that can no longer be finalized.                          *)
(***************************************************************************)
LEMMA TailOwnerStep ==
    ASSUME "unreadable" \notin Faults, TypeOK, TailOwnerIsOpen, [Next]_transcriptVars
    PROVE  TailOwnerIsOpen'
<1> DEFINE Owned(s) ==
        /\ (active[s] = NoSegment) <=> (tentative[s] = <<>>)
        /\ ~closed[s] /\ active[s] # NoSegment => ~finalized[s][active[s]]
<1> SUFFICES ASSUME NEW s \in Sessions PROVE Owned(s)'
  BY DEF TailOwnerIsOpen
<1>1. Owned(s)
  BY DEF TailOwnerIsOpen
<1>2. CASE UNCHANGED transcriptVars
  BY <1>1, <1>2 DEF transcriptVars, cursorVars, sessionVars
<1>3. CASE Next
  <2> PICK t \in Sessions, g \in Segments, r \in 0 .. MaxRevision :
        \/ Drop(t, g, r)
        \/ \E final \in BOOLEAN : RefuseClosed(t, g, r, final)
        \/ \E final \in BOOLEAN : RefuseLate(t, g, r, final)
        \/ Relabel(t, g, r)
        \/ CloseSession(t, g, r)
        \/ \E text \in Texts : Revise(t, g, r, text)
        \/ \E text \in Texts : CommitFinal(t, g, r, text)
    BY <1>3 DEF Next
  <2>1. CASE Drop(t, g, r)
    BY <1>2, <2>1 DEF Drop
  <2>2. ASSUME NEW final \in BOOLEAN, RefuseClosed(t, g, r, final) PROVE Owned(s)'
    BY <1>1, <2>2 DEF RefuseClosed, Admit, sessionVars, TypeOK
  <2>3. ASSUME NEW final \in BOOLEAN, RefuseLate(t, g, r, final) PROVE Owned(s)'
    <3>1. active[t] # g
      BY <2>3 DEF RefuseLate, InTurn
    <3>2. s = t => finalized'[s][active[s]] = finalized[s][active[s]]
      BY <2>3, <3>1 DEF RefuseLate, Admit, TypeOK
    <3>3. s # t => finalized'[s] = finalized[s]
      BY <2>3 DEF RefuseLate, Admit, TypeOK
    <3> QED
      BY <1>1, <2>3, <3>2, <3>3 DEF RefuseLate
  <2>4. CASE Relabel(t, g, r)
    BY <1>1, <2>4 DEF Relabel, Admit, TypeOK
  <2>5. CASE CloseSession(t, g, r)
    BY <1>1, <2>5 DEF CloseSession, Admit, TypeOK
  <2>6. ASSUME NEW text \in Texts, Revise(t, g, r, text) PROVE Owned(s)'
    <3>1. NewTail(t, text) # <<>> /\ g # NoSegment
      BY NewTailType
    <3>2. s = t => /\ active'[s] = g /\ tentative'[s] = NewTail(t, text)
                   /\ ~finalized'[s][g]
      BY <2>6 DEF Revise, Admit, TypeOK
    <3>3. s # t => /\ active'[s] = active[s] /\ tentative'[s] = tentative[s]
                   /\ finalized'[s] = finalized[s] /\ closed'[s] = closed[s]
      BY <2>6 DEF Revise, Admit, TypeOK
    <3> QED
      BY <1>1, <3>1, <3>2, <3>3
  <2>7. ASSUME NEW text \in Texts, CommitFinal(t, g, r, text) PROVE Owned(s)'
    <3>1. s = t => active'[s] = NoSegment /\ tentative'[s] = <<>>
      BY <2>7 DEF CommitFinal, TypeOK
    <3>2. s # t => /\ active'[s] = active[s] /\ tentative'[s] = tentative[s]
                   /\ finalized'[s] = finalized[s] /\ closed'[s] = closed[s]
      BY <2>7 DEF CommitFinal, Admit, TypeOK
    <3> QED
      BY <1>1, <3>1, <3>2
  <2> QED
    BY <2>1, <2>2, <2>3, <2>4, <2>5, <2>6, <2>7
<1> QED
  BY <1>2, <1>3

(***************************************************************************)
(* While every text can be encoded, an open session is never left waiting  *)
(* for a segment that can no longer be finalized (TailOwnerIsOpen).        *)
(***************************************************************************)
THEOREM TailOwnerStaysOpen ==
    ASSUME "unreadable" \notin Faults
    PROVE  Spec => []TailOwnerIsOpen
<1>1. Init => TailOwnerIsOpen
  BY DEF Init, TailOwnerIsOpen
<1>2. TypeOK /\ TailOwnerIsOpen /\ [Next]_transcriptVars => TailOwnerIsOpen'
  BY TailOwnerStep
<1> QED
  BY <1>1, <1>2, TypeCorrect, PTL DEF Spec

=============================================================================
