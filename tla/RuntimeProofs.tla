---------------------------- MODULE RuntimeProofs -----------------------------
(***************************************************************************)
(* Theorems about module Runtime, for every set of sessions, segments,     *)
(* texts and task kinds, every bound, every fault and any overlap: the     *)
(* types, that the runtime handles a transcript as module Transcript says, *)
(* and what the cache, the branches and the engine hold of it.             *)
(***************************************************************************)
EXTENDS RuntimeProperties, TranscriptProofs

-----------------------------------------------------------------------------
(***************************************************************************)
(* Sequences                                                               *)
(***************************************************************************)

\* To be a prefix is to be no longer and to agree at every index.
LEMMA PrefixByIndex ==
    ASSUME NEW a \in Seq(Nat), NEW b \in Seq(Nat)
    PROVE  IsPrefix(a, b) <=>
              Len(a) <= Len(b) /\ \A i \in 1 .. Len(a) : a[i] = b[i]
<1>1. Len(a) \in Nat /\ Len(b) \in Nat
  OBVIOUS
<1>2. SubSeq(a, 1, Len(a)) = a
  BY SubSeqFull
<1> SUFFICES ASSUME Len(a) <= Len(b)
             PROVE  a = SubSeq(b, 1, Len(a)) <=> \A i \in 1 .. Len(a) : a[i] = b[i]
  BY <1>2 DEF IsPrefix
<1> DEFINE head == SubSeq(b, 1, Len(a))
<1>3. head \in Seq(Nat) /\ Len(head) = Len(a) /\ \A i \in 1 .. Len(a) : head[i] = b[i]
  <2>1. \A i \in 1 .. Len(a) : b[i] \in Nat
    BY <1>1
  <2> QED
    BY <1>1, <2>1, SubSeqProperties
<1> HIDE DEF head
<1>4. (\A i \in 1 .. Len(a) : a[i] = b[i]) => a = head
  BY <1>3, SeqEqual
<1> QED
  BY <1>3, <1>4 DEF head

\* The first n tokens of a sequence.
LEMMA HeadProperties ==
    ASSUME NEW a \in Seq(Nat), NEW n \in 0 .. Len(a)
    PROVE  /\ SubSeq(a, 1, n) \in Seq(Nat)
           /\ Len(SubSeq(a, 1, n)) = n
           /\ \A i \in 1 .. n : SubSeq(a, 1, n)[i] = a[i]
           /\ IsPrefix(SubSeq(a, 1, n), a)
<1>1. n \in Nat /\ n <= Len(a) /\ \A i \in 1 .. n : a[i] \in Nat
  OBVIOUS
<1>2. /\ SubSeq(a, 1, n) \in Seq(Nat) /\ Len(SubSeq(a, 1, n)) = n
      /\ \A i \in 1 .. n : SubSeq(a, 1, n)[i] = a[i]
  BY <1>1, SubSeqProperties
<1> QED
  BY <1>1, <1>2, PrefixByIndex

\* A prefix of a prefix is one.
LEMMA PrefixTransitive ==
    ASSUME NEW a \in Seq(Nat), NEW b \in Seq(Nat), NEW c \in Seq(Nat),
           IsPrefix(a, b), IsPrefix(b, c)
    PROVE  IsPrefix(a, c)
<1>1. Len(a) \in Nat /\ Len(b) \in Nat /\ Len(c) \in Nat
  OBVIOUS
<1> QED
  BY <1>1, PrefixByIndex

-----------------------------------------------------------------------------
(***************************************************************************)
(* The transcript                                                          *)
(***************************************************************************)

ContentEvent(s, g, r, text, final) ==
    IF final THEN CommitFinal(s, g, r, text) ELSE Revise(s, g, r, text)

\* The ways a content event may end.
ContentStep(s, g, r, text, final) ==
    \/ ContentInterrupted(s, g, r, text, final)
    \/ ContentAsserts(s, g, r, text, final)
    \/ ContentKept(s, g, r, text, final)
    \/ ContentPublished(s, g, r, text, final)
    \/ ContentUnpublished(s, g, r, text, final)

LEMMA ContentStepIsContent ==
    ASSUME NEW s \in Sessions, NEW g \in Segments, NEW r \in 0 .. MaxRevision,
           NEW text \in Texts, NEW final \in BOOLEAN, ContentStep(s, g, r, text, final)
    PROVE  /\ Content(s, g, r, text, final)
           /\ ContentEvent(s, g, r, text, final)
<1>1. Content(s, g, r, text, final)
  BY DEF ContentStep, ContentInterrupted, ContentAsserts, ContentKept,
         ContentPublished, ContentUnpublished, Uninterrupted
<1> QED
  BY <1>1 DEF Content, ContentEvent

\* Every step of the runtime is a step of the transcript, or leaves it alone.
LEMMA TranscriptStep == [RuntimeNext]_vars => [Next]_transcriptVars
<1> SUFFICES ASSUME [RuntimeNext]_vars PROVE [Next]_transcriptVars
  OBVIOUS
<1>1. ASSUME NEW s \in Sessions, NEW g \in Segments, NEW r \in 0 .. MaxRevision
      PROVE  /\ EventRefused(s, g, r) => Next
             /\ MetadataEvent(s, g, r) => Next
             /\ \A text \in Texts, final \in BOOLEAN : ContentEvent(s, g, r, text, final) => Next
  BY <1>1 DEF EventRefused, MetadataEvent, ContentEvent, Next
<1>2. CASE HandleEvent
  <2>1. PICK s \in Sessions, g \in Segments, r \in 0 .. MaxRevision :
          \/ EventRefused(s, g, r)
          \/ MetadataEvent(s, g, r)
          \/ \E text \in Texts, final \in BOOLEAN : ContentStep(s, g, r, text, final)
    BY <1>2 DEF HandleEvent, ContentStep
  <2> QED
    BY <1>1, <2>1, ContentStepIsContent
<1>3. ASSUME NEW s \in Sessions, NEW kind \in Kinds,
             SubmitTask(s, kind) \/ SubmitRefused(s, kind) \/ SubmitUnreadable(s, kind)
      PROVE  UNCHANGED transcriptVars
  BY <1>3 DEF SubmitTask, SubmitRefused, SubmitUnreadable, Submission
<1>4. CASE (\E t \in Tasks : RunNext(t)) \/ RunNextFindsNone
  BY <1>4 DEF RunNext, RunNextFindsNone
<1>5. CASE GenerateReturns \/ GenerateFails
  BY <1>5 DEF GenerateReturns, OutputAllowed, OutputWithheld, GenerateFails, Landed
<1>6. CASE \E target \in 0 .. MaxTasks, ts \in SUBSET Tasks : ShedLoad(target, ts)
  BY <1>6 DEF ShedLoad
<1>7. CASE UNCHANGED vars
  BY <1>7 DEF vars
<1> QED
  BY <1>2, <1>3, <1>4, <1>5, <1>6, <1>7 DEF RuntimeNext

(***************************************************************************)
(* CueBeeRuntime implements the transcript of module Transcript: whatever  *)
(* it does with tasks, caches and the engine, and whichever of them fails, *)
(* adapter and manager move as they would by themselves.  All theorems of  *)
(* TranscriptProofs hold of the runtime.                                   *)
(***************************************************************************)
THEOREM RuntimeImplementsTranscript == RuntimeSpec => Spec
<1>1. RuntimeInit => Init
  BY DEF RuntimeInit
<1> QED
  BY <1>1, TranscriptStep, PTL DEF RuntimeSpec, Spec

\* What a content event does to the transcripts.
LEMMA ContentEffect ==
    ASSUME TypeOK, NEW s \in Sessions, NEW g \in Segments, NEW r \in 0 .. MaxRevision,
           NEW text \in Texts, NEW final \in BOOLEAN, ContentEvent(s, g, r, text, final)
    PROVE  /\ version' = [version EXCEPT ![s] = @ + 1]
           /\ Expected(s, text) \in Seq(Nat)
           /\ Len(Expected(s, text)) = Frontier(s) + Len(NewTail(s, text))
           /\ Whole(s)' = Expected(s, text)
           /\ committed'[s] = IF final THEN Expected(s, text) ELSE committed[s]
           /\ \A u \in Sessions \ {s} : committed'[u] = committed[u] /\ tentative'[u] = tentative[u]
<1>1. committed[s] \in Seq(Nat) /\ NewTail(s, text) \in Seq(Nat)
  BY NewTailType DEF TypeOK
<1>2. /\ Expected(s, text) \in Seq(Nat)
      /\ Len(Expected(s, text)) = Frontier(s) + Len(NewTail(s, text))
  BY <1>1 DEF Expected, Frontier
<1>3. CASE final
  <2>1. CommitFinal(s, g, r, text)
    BY <1>3 DEF ContentEvent
  <2>2. committed'[s] = Expected(s, text) /\ tentative'[s] = <<>>
    BY <2>1 DEF CommitFinal, TypeOK
  <2>3. Whole(s)' = Expected(s, text)
    BY <1>2, <2>2, ConcatEmptySeq DEF Whole
  <2> QED
    BY <1>2, <1>3, <2>1, <2>2, <2>3 DEF CommitFinal, Bump, TypeOK
<1>4. CASE ~final
  <2>1. Revise(s, g, r, text)
    BY <1>4 DEF ContentEvent
  <2>2. committed'[s] = committed[s] /\ tentative'[s] = NewTail(s, text)
    BY <2>1 DEF Revise, TypeOK
  <2>3. Whole(s)' = Expected(s, text)
    BY <2>2 DEF Whole, Expected
  <2> QED
    BY <1>2, <1>4, <2>1, <2>2, <2>3 DEF Revise, Bump, TypeOK
<1> QED
  BY <1>3, <1>4

\* A transcript and its frontier are typed in every state.
LEMMA WholeType ==
    ASSUME TypeOK, NEW s \in Sessions
    PROVE  /\ Whole(s) \in Seq(Nat) /\ Spine(s) \in Seq(Nat)
           /\ Frontier(s) \in Nat /\ Frontier(s) <= Len(Whole(s))
           /\ IsPrefix(Spine(s), Whole(s))
<1>1. committed[s] \in Seq(Nat) /\ tentative[s] \in Seq(Nat)
  BY DEF TypeOK
<1>2. /\ committed[s] \o tentative[s] \in Seq(Nat)
      /\ Len(committed[s]) \in Nat /\ Len(tentative[s]) \in Nat
      /\ Len(committed[s] \o tentative[s]) = Len(committed[s]) + Len(tentative[s])
  BY <1>1, ConcatProperties
<1>3. IsPrefix(committed[s], committed[s] \o tentative[s])
  BY <1>1, PrefixProperties
<1>4. Len(committed[s]) <= Len(committed[s] \o tentative[s])
  BY <1>3 DEF IsPrefix
<1> QED
  BY <1>1, <1>2, <1>3, <1>4, Zenon DEF Whole, Spine, Frontier

\* DiffSound of one hypothesis, in the form the cache and the branches need.
LEMMA ChangeProperties ==
    ASSUME TypeOK, NEW s \in Sessions, NEW text \in Texts
    PROVE  /\ ChangedStart(s, text) \in Nat /\ ChangedEnd(s, text) \in Nat
           /\ Frontier(s) <= ChangedStart(s, text)
           /\ ChangedStart(s, text) <= ChangedEnd(s, text)
           /\ ChangedStart(s, text) <= Len(Whole(s))
           /\ ChangedStart(s, text) <= Len(Expected(s, text))
           /\ \A i \in 1 .. ChangedStart(s, text) : Whole(s)[i] = Expected(s, text)[i]
           /\ ChangedStart(s, text) = ChangedEnd(s, text) => Whole(s) = Expected(s, text)
<1>1. /\ ChangedStart(s, text) \in Frontier(s) .. Len(Whole(s))
      /\ ChangedStart(s, text) <= Len(Expected(s, text))
      /\ \A i \in 1 .. ChangedStart(s, text) : Whole(s)[i] = Expected(s, text)[i]
      /\ ChangedEnd(s, text) >= Len(Whole(s))
      /\ ChangedStart(s, text) = ChangedEnd(s, text) => Whole(s) = Expected(s, text)
  BY TypedDiffSound DEF DiffSound
<1>2. Whole(s) \in Seq(Nat) /\ Frontier(s) \in Nat
  BY WholeType
<1>3. ChangedEnd(s, text) \in Nat
  <2>1. tentative[s] \in Seq(Nat) /\ NewTail(s, text) \in Seq(Nat)
    BY NewTailType DEF TypeOK
  <2>2. Len(tentative[s]) \in Nat /\ Len(NewTail(s, text)) \in Nat
    BY <2>1
  <2> QED
    BY <1>2, <2>2 DEF ChangedEnd, Longer
<1>4. Len(Whole(s)) \in Nat
  BY <1>2
<1> QED
  BY <1>1, <1>2, <1>3, <1>4

-----------------------------------------------------------------------------
(***************************************************************************)
(* Types                                                                   *)
(***************************************************************************)

LEMMA BranchFields ==
    ASSUME branch \in Seq(Branch), NEW t \in Branches
    PROVE  /\ branch[t].status \in BranchStatus /\ branch[t].session \in Sessions
           /\ branch[t].kind \in Kinds
           /\ branch[t].base \in Nat /\ branch[t].depEnd \in Nat
<1>1. branch[t] \in Branch
  BY ElementOfSeq DEF Branches
<1> QED
  BY <1>1 DEF Branch

\* Giving some branches a status leaves all else of them alone.
LEMMA SetStatusProperties ==
    ASSUME branch \in Seq(Branch), NEW ts, NEW status \in BranchStatus
    PROVE  /\ SetStatus(ts, status) \in Seq(Branch)
           /\ Len(SetStatus(ts, status)) = Len(branch)
           /\ DOMAIN SetStatus(ts, status) = Branches
           /\ \A t \in Branches :
                 /\ SetStatus(ts, status)[t].status = IF t \in ts THEN status ELSE branch[t].status
                 /\ SetStatus(ts, status)[t].session = branch[t].session
                 /\ SetStatus(ts, status)[t].kind = branch[t].kind
                 /\ SetStatus(ts, status)[t].base = branch[t].base
                 /\ SetStatus(ts, status)[t].depEnd = branch[t].depEnd
<1>1. Len(branch) \in Nat /\ Branches = 1 .. Len(branch)
  BY DEF Branches
<1>2. ASSUME NEW t \in Branches
      PROVE  /\ branch[t] \in Branch
             /\ [branch[t] EXCEPT !.status = status] \in Branch
  <2>1. branch[t] \in Branch
    BY <1>1, <1>2, ElementOfSeq
  <2> QED
    BY <2>1 DEF Branch
<1>3. SetStatus(ts, status) \in [1 .. Len(branch) -> Branch]
  BY <1>1, <1>2 DEF SetStatus
<1>4. SetStatus(ts, status) \in Seq(Branch)
  BY <1>1, <1>3, SeqDef
<1>5. DOMAIN SetStatus(ts, status) = Branches /\ Len(SetStatus(ts, status)) = Len(branch)
  BY <1>1, <1>3, <1>4
<1>6. ASSUME NEW t \in Branches
      PROVE  SetStatus(ts, status)[t] =
                IF t \in ts THEN [branch[t] EXCEPT !.status = status] ELSE branch[t]
  BY <1>6 DEF SetStatus
<1> QED
  BY <1>2, <1>4, <1>5, <1>6 DEF Branch

LEMMA ReleaseType ==
    ASSUME RuntimeTypeOK, NEW ts, Release(ts)
    PROVE  /\ held' = held \ ts
           /\ branchTokens' \in [held' -> Seq(Nat)]
           /\ \A t \in held' : branchTokens'[t] = branchTokens[t]
BY DEF Release, held, RuntimeTypeOK

\* What a branch was created with never changes.
SameOrigin(t) ==
    /\ branch'[t].session = branch[t].session
    /\ branch'[t].kind = branch[t].kind
    /\ branch'[t].base = branch[t].base
    /\ branch'[t].depEnd = branch[t].depEnd

\* Deciding branches and releasing what they hold, as every operation does it.
LEMMA DecideProperties ==
    ASSUME RuntimeTypeOK, NEW ts, NEW status \in BranchStatus,
           branch' = SetStatus(ts, status), Release(ts)
    PROVE  /\ branch' \in Seq(Branch) /\ Len(branch') = Len(branch) /\ Branches' = Branches
           /\ held' = held \ ts
           /\ branchTokens' \in [held' -> Seq(Nat)]
           /\ \A t \in held' : branchTokens'[t] = branchTokens[t]
           /\ \A t \in Branches :
                 /\ SameOrigin(t)
                 /\ branch'[t].status = IF t \in ts THEN status ELSE branch[t].status
<1>1. branch \in Seq(Branch)
  BY DEF RuntimeTypeOK
<1> QED
  BY <1>1, SetStatusProperties, ReleaseType DEF SameOrigin, Branches

LEMMA CancelProperties ==
    ASSUME RuntimeTypeOK, NEW ts, CancelBranches(ts)
    PROVE  /\ branch' \in Seq(Branch) /\ Len(branch') = Len(branch) /\ Branches' = Branches
           /\ held' = {t \in held : ~(t \in ts /\ IsActive(t))}
           /\ branchTokens' \in [held' -> Seq(Nat)]
           /\ \A t \in held' : branchTokens'[t] = branchTokens[t]
           /\ \A t \in Branches :
                 /\ SameOrigin(t)
                 /\ branch'[t].status = IF t \in ts /\ IsActive(t) THEN "cancelled"
                                                                ELSE branch[t].status
<1> DEFINE live == {t \in ts : IsActive(t)}
<1>1. branch' = SetStatus(live, "cancelled") /\ Release(live) /\ "cancelled" \in BranchStatus
  BY DEF CancelBranches, BranchStatus
<1>2. \A t : t \in live <=> t \in ts /\ IsActive(t)
  OBVIOUS
<1> HIDE DEF live
<1> QED
  BY <1>1, <1>2, DecideProperties

LEMMA InvalidateType ==
    ASSUME RuntimeTypeOK, NEW s, NEW start, NEW end, Invalidate(s, start, end)
    PROVE  /\ branch' \in Seq(Branch) /\ Len(branch') = Len(branch) /\ Branches' = Branches
           /\ held' = held \ Invalidated(s, start, end)
           /\ branchTokens' \in [held' -> Seq(Nat)]
           /\ \A t \in held' : branchTokens'[t] = branchTokens[t]
           /\ \A t \in Branches :
                 /\ SameOrigin(t)
                 /\ branch'[t].status = IF t \in Invalidated(s, start, end)
                                          THEN "invalidated" ELSE branch[t].status
           /\ task' \in [Tasks -> TaskStatus]
           /\ \A t \in Tasks :
                 \/ task'[t] = task[t]
                 \/ /\ t \in Invalidated(s, start, end)
                    /\ task[t] \in ActiveStatus /\ task'[t] = "cancelled"
<1> DEFINE gone == Invalidated(s, start, end)
<1>1. branch' = SetStatus(gone, "invalidated") /\ Release(gone) /\ "invalidated" \in BranchStatus
  BY DEF Invalidate, BranchStatus
<1>2. task' \in [Tasks -> TaskStatus]
  BY DEF Invalidate, RuntimeTypeOK, TaskStatus
<1>3. \A t \in Tasks : \/ task'[t] = task[t]
                       \/ t \in gone /\ task[t] \in ActiveStatus /\ task'[t] = "cancelled"
  BY DEF Invalidate
<1> HIDE DEF gone
<1>4. /\ branch' \in Seq(Branch) /\ Len(branch') = Len(branch) /\ Branches' = Branches
      /\ held' = held \ gone
      /\ branchTokens' \in [held' -> Seq(Nat)]
      /\ \A t \in held' : branchTokens'[t] = branchTokens[t]
      /\ \A t \in Branches :
            /\ SameOrigin(t)
            /\ branch'[t].status = IF t \in gone THEN "invalidated" ELSE branch[t].status
  BY <1>1, DecideProperties
<1> QED
  BY <1>2, <1>3, <1>4 DEF gone

\* What is left of the cache after a rollback.
LEMMA RemainingProperties ==
    ASSUME RuntimeTypeOK, NEW s \in Sessions, NEW text \in Texts
    PROVE  /\ Remaining(s, text) \in Seq(Nat)
           /\ Len(Remaining(s, text)) \in Nat
           /\ Len(Remaining(s, text)) <= ChangedStart(s, text)
           /\ IsPrefix(Remaining(s, text), resident[s])
           /\ Len(resident[s]) <= ChangedStart(s, text) =>
                 Remaining(s, text) = resident[s]
           /\ ChangedStart(s, text) <= Len(resident[s]) =>
                 Len(Remaining(s, text)) = ChangedStart(s, text)
<1>1. resident[s] \in Seq(Nat) /\ Len(resident[s]) \in Nat /\ TypeOK
  BY DEF RuntimeTypeOK
<1>2. ChangedStart(s, text) \in Nat
  BY <1>1, ChangeProperties
<1>3. CASE Len(resident[s]) > ChangedStart(s, text)
  <2>1. Remaining(s, text) = SubSeq(resident[s], 1, ChangedStart(s, text))
    BY <1>3 DEF Remaining
  <2>2. ChangedStart(s, text) \in 0 .. Len(resident[s])
    BY <1>1, <1>2, <1>3
  <2> QED
    BY <1>1, <1>2, <1>3, <2>1, <2>2, HeadProperties
<1>4. CASE ~(Len(resident[s]) > ChangedStart(s, text))
  <2>1. Remaining(s, text) = resident[s]
    BY <1>4 DEF Remaining
  <2>2. IsPrefix(resident[s], resident[s])
    BY <1>1, PrefixProperties
  <2> QED
    BY <1>1, <1>2, <1>4, <2>1, <2>2
<1> QED
  BY <1>3, <1>4

\* Only the handling of a content event writes transcripts, cache and engine.
LEMMA OnlyContentWrites ==
    ASSUME [RuntimeNext]_vars
    PROVE  \/ UNCHANGED <<committed, tentative, cacheVars, engineVars, wedged>>
           \/ \E s \in Sessions, g \in Segments, r \in 0 .. MaxRevision,
                 text \in Texts, final \in BOOLEAN : ContentStep(s, g, r, text, final)
<1> DEFINE Spared == UNCHANGED <<committed, tentative, cacheVars, engineVars, wedged>>
<1>1. ASSUME NEW s \in Sessions, NEW g \in Segments, NEW r \in 0 .. MaxRevision,
             EventRefused(s, g, r)
      PROVE  Spared
  BY <1>1 DEF EventRefused, RefuseClosed, RefuseLate, sessionVars, runtimeVars
<1>2. ASSUME NEW s \in Sessions, NEW g \in Segments, NEW r \in 0 .. MaxRevision,
             MetadataEvent(s, g, r)
      PROVE  Spared
  BY <1>2 DEF MetadataEvent, Relabel, CloseSession
<1>3. UNCHANGED transcriptVars => UNCHANGED <<committed, tentative>>
  BY DEF transcriptVars, sessionVars
<1>4. ASSUME NEW s \in Sessions, NEW kind \in Kinds,
             SubmitTask(s, kind) \/ SubmitRefused(s, kind) \/ SubmitUnreadable(s, kind)
      PROVE  Spared
  BY <1>3, <1>4 DEF SubmitTask, SubmitRefused, SubmitUnreadable, Submission
<1>5. (\E t \in Tasks : RunNext(t)) \/ RunNextFindsNone => Spared
  BY <1>3 DEF RunNext, RunNextFindsNone
<1>6. GenerateReturns \/ GenerateFails => Spared
  BY <1>3 DEF GenerateReturns, OutputAllowed, OutputWithheld, GenerateFails, Landed
<1>7. (\E target \in 0 .. MaxTasks, ts \in SUBSET Tasks : ShedLoad(target, ts)) => Spared
  BY <1>3 DEF ShedLoad
<1>8. UNCHANGED vars => Spared
  BY <1>3 DEF vars, runtimeVars
<1>9. HandleEvent =>
        \/ Spared
        \/ \E s \in Sessions, g \in Segments, r \in 0 .. MaxRevision,
              text \in Texts, final \in BOOLEAN : ContentStep(s, g, r, text, final)
  <2> SUFFICES ASSUME HandleEvent, ~Spared
               PROVE  \E s \in Sessions, g \in Segments, r \in 0 .. MaxRevision,
                         text \in Texts, final \in BOOLEAN : ContentStep(s, g, r, text, final)
    OBVIOUS
  <2> HIDE DEF Spared
  <2> QED
    BY <1>1, <1>2 DEF HandleEvent, ContentStep
<1> HIDE DEF Spared
<1>10. \/ Spared
       \/ \E s \in Sessions, g \in Segments, r \in 0 .. MaxRevision,
             text \in Texts, final \in BOOLEAN : ContentStep(s, g, r, text, final)
  BY <1>4, <1>5, <1>6, <1>7, <1>8, <1>9 DEF RuntimeNext
<1> QED
  BY <1>10 DEF Spared

\* Where an update of the engine leaves its copy of the session: at the new
\* transcript, if what is left of the cache was a prefix of both.
Spliced(s, text) ==
    LET from == Len(Remaining(s, text))
    IN  SubSeq(view[s], 1, from)
          \o SubSeq(Expected(s, text), from + 1, Len(Expected(s, text)))

LEMMA SplicedProperties ==
    ASSUME RuntimeTypeOK, NEW s \in Sessions, NEW text \in Texts,
           IsPrefix(Remaining(s, text), Expected(s, text)),
           IsPrefix(resident[s], view[s])
    PROVE  Spliced(s, text) = Expected(s, text)
<1> DEFINE a == Remaining(s, text)
           b == Expected(s, text)
           v == view[s]
           n == Len(a)
<1>1. a \in Seq(Nat) /\ n \in Nat /\ IsPrefix(a, resident[s])
  BY RemainingProperties
<1>2. v \in Seq(Nat) /\ resident[s] \in Seq(Nat)
  BY DEF RuntimeTypeOK
<1>3. b \in Seq(Nat)
  <2>1. committed[s] \in Seq(Nat) /\ NewTail(s, text) \in Seq(Nat)
    BY NewTailType DEF RuntimeTypeOK, TypeOK
  <2> QED
    BY <2>1 DEF Expected
<1>4. Spliced(s, text) = SubSeq(v, 1, n) \o SubSeq(b, n + 1, Len(b))
  BY DEF Spliced
<1>5. IsPrefix(a, v)
  BY <1>1, <1>2, PrefixTransitive
<1>6. IsPrefix(a, b)
  OBVIOUS
<1> HIDE DEF a, b, v
<1>7. SubSeq(v, 1, n) = a /\ SubSeq(b, 1, n) = a /\ n <= Len(b)
  BY <1>1, <1>5, <1>6, SubSeqFull DEF IsPrefix
<1>8. SubSeq(b, 1, n) \o SubSeq(b, n + 1, Len(b)) = b
  <2>1. Len(b) \in Nat
    BY <1>3
  <2>2. 1 \in 1 .. Len(b) + 1 /\ n \in 1 - 1 .. Len(b) /\ Len(b) \in n .. Len(b)
    BY <1>1, <1>7, <2>1
  <2>3. SubSeq(b, 1, n) \o SubSeq(b, n + 1, Len(b)) = SubSeq(b, 1, Len(b))
    BY <1>3, <2>2, ConcatAdjacentSubSeq
  <2> QED
    BY <2>3, <1>3, SubSeqFull
<1> QED
  BY <1>4, <1>7, <1>8 DEF b

(***************************************************************************)
(* What the cache, its promoted part and the engine's copy of a session    *)
(* keep of one another, whatever fails.  The types need it: SubSeq of a    *)
(* copy shorter than the cache, or of a cache shorter than its promoted    *)
(* part, would not be a sequence of tokens.                                *)
(***************************************************************************)
Cached(s) ==
    /\ IsPrefix(resident[s], view[s])
    /\ promoted[s] <= Len(resident[s])
    /\ promoted[s] <= Frontier(s)
    /\ viewFrontier[s] <= Len(resident[s])
    /\ viewFrontier[s] <= Frontier(s)

\* A task has a status only once its branch was created.
Numbered == \A t \in Tasks : task[t] # "none" => t \in Branches

RuntimeInv ==
    /\ RuntimeTypeOK
    /\ \A s \in Sessions : Cached(s)
    /\ Numbered

CacheType ==
    /\ resident \in [Sessions -> Seq(Nat)]
    /\ promoted \in [Sessions -> Nat]
    /\ view \in [Sessions -> Seq(Nat)]
    /\ viewFrontier \in [Sessions -> Nat]
    /\ wedged \in [Sessions -> BOOLEAN]

\* A content event keeps it: a rollback stops at the frontier, at least.
LEMMA ContentCache ==
    ASSUME RuntimeInv, NEW s \in Sessions, NEW g \in Segments, NEW r \in 0 .. MaxRevision,
           NEW text \in Texts, NEW final \in BOOLEAN, ContentStep(s, g, r, text, final)
    PROVE  CacheType' /\ \A u \in Sessions : Cached(u)'
<1> DEFINE rest == Remaining(s, text)
           new  == Expected(s, text)
<1>1. TypeOK /\ RuntimeTypeOK /\ CacheType /\ Cached(s)
  BY DEF RuntimeInv, RuntimeTypeOK, CacheType
<1>2. /\ new \in Seq(Nat) /\ Len(new) \in Nat
      /\ committed'[s] = IF final THEN new ELSE committed[s]
      /\ \A u \in Sessions \ {s} : committed'[u] = committed[u]
  <2>1. ContentEvent(s, g, r, text, final)
    BY ContentStepIsContent
  <2> QED
    BY <1>1, <2>1, ContentEffect
<1>3. /\ rest \in Seq(Nat) /\ Len(rest) \in Nat
      /\ IsPrefix(rest, resident[s])
      /\ Len(resident[s]) <= ChangedStart(s, text) => rest = resident[s]
      /\ ChangedStart(s, text) <= Len(resident[s]) => Len(rest) = ChangedStart(s, text)
  BY <1>1, RemainingProperties
<1>4. /\ ChangedStart(s, text) \in Nat /\ Frontier(s) \in Nat
      /\ Frontier(s) <= ChangedStart(s, text)
      /\ Frontier(s) <= Len(new)
  <2>1. /\ ChangedStart(s, text) \in Nat /\ Frontier(s) <= ChangedStart(s, text)
        /\ ChangedStart(s, text) <= Len(new)
    BY <1>1, ChangeProperties
  <2>2. Frontier(s) \in Nat
    BY <1>1, WholeType
  <2> QED
    BY <1>2, <2>1, <2>2
<1>5. /\ resident[s] \in Seq(Nat) /\ Len(resident[s]) \in Nat
      /\ view[s] \in Seq(Nat) /\ promoted[s] \in Nat /\ viewFrontier[s] \in Nat
  BY <1>1 DEF CacheType
<1>6. promoted[s] <= Len(rest) /\ viewFrontier[s] <= Len(rest)
  BY <1>1, <1>3, <1>4, <1>5 DEF Cached
<1>7. /\ Len(committed'[s]) \in Nat
      /\ Frontier(s) <= Len(committed'[s])
      /\ Len(committed'[s]) <= Len(new)
      /\ final => Len(committed'[s]) = Len(new)
  BY <1>2, <1>4 DEF Frontier
<1>8. IsPrefix(rest, view[s])
  BY <1>1, <1>3, <1>5, PrefixTransitive DEF Cached
<1> HIDE DEF rest, new
<1>9. CASE ContentInterrupted(s, g, r, text, final)
  <2>1. UNCHANGED <<resident, promoted, view, viewFrontier, wedged>>
    BY <1>9 DEF ContentInterrupted, cacheVars, engineVars
  <2>2. CacheType'
    BY <1>1, <2>1 DEF CacheType
  <2>3. Cached(s)'
    BY <1>1, <1>4, <1>5, <1>7, <2>1 DEF Cached, Frontier
  <2>4. ASSUME NEW u \in Sessions \ {s} PROVE Cached(u)'
    BY <1>2, <2>1 DEF RuntimeInv, Cached, Frontier
  <2> QED
    BY <2>2, <2>3, <2>4
<1>10. CASE \/ ContentAsserts(s, g, r, text, final)
            \/ ContentUnpublished(s, g, r, text, final)
  <2>1. /\ resident' = [resident EXCEPT ![s] = rest]
        /\ UNCHANGED <<promoted, view, viewFrontier>>
        /\ wedged' = wedged \/ wedged' = [wedged EXCEPT ![s] = TRUE]
    BY <1>10 DEF ContentAsserts, ContentUnpublished, engineVars, rest
  <2>2. CacheType'
    BY <1>1, <1>3, <2>1 DEF CacheType
  <2>3. Cached(s)'
    <3>1. resident'[s] = rest
      BY <1>1, <2>1 DEF CacheType
    <3> QED
      BY <1>1, <1>4, <1>5, <1>6, <1>7, <1>8, <2>1, <3>1 DEF Cached, Frontier
  <2>4. ASSUME NEW u \in Sessions \ {s} PROVE Cached(u)'
    BY <1>1, <1>2, <2>1 DEF RuntimeInv, Cached, Frontier, CacheType
  <2> QED
    BY <2>2, <2>3, <2>4
<1>11. CASE ContentKept(s, g, r, text, final)
  <2>1. /\ resident' = [resident EXCEPT ![s] = rest]
        /\ promoted' = IF final THEN [promoted EXCEPT ![s] = Len(new)] ELSE promoted
        /\ UNCHANGED <<view, viewFrontier, wedged>>
        /\ final => rest = new
    BY <1>11 DEF ContentKept, Promote, engineVars, rest, new
  <2>2. CacheType'
    BY <1>1, <1>2, <1>3, <2>1 DEF CacheType
  <2>3. Cached(s)'
    <3>1. /\ resident'[s] = rest
          /\ promoted'[s] = IF final THEN Len(new) ELSE promoted[s]
      BY <1>1, <2>1 DEF CacheType
    <3> QED
      BY <1>1, <1>2, <1>4, <1>5, <1>6, <1>7, <1>8, <2>1, <3>1 DEF Cached, Frontier
  <2>4. ASSUME NEW u \in Sessions \ {s} PROVE Cached(u)'
    <3>1. promoted'[u] = promoted[u] /\ resident'[u] = resident[u]
      BY <1>1, <2>1 DEF CacheType
    <3> QED
      BY <1>2, <2>1, <3>1 DEF RuntimeInv, Cached, Frontier
  <2> QED
    BY <2>2, <2>3, <2>4
<1>12. CASE ContentPublished(s, g, r, text, final)
  <2>1. Spliced(s, text) = new
    BY <1>1, <1>12, SplicedProperties DEF ContentPublished, MustPublish, Cached, new
  <2>2. /\ resident' = [resident EXCEPT ![s] = new]
        /\ promoted' = IF final THEN [promoted EXCEPT ![s] = Len(new)] ELSE promoted
        /\ view' = [view EXCEPT ![s] = new]
        /\ viewFrontier' = [viewFrontier EXCEPT ![s] = Len(committed'[s])]
        /\ UNCHANGED wedged
    BY <1>12, <2>1 DEF ContentPublished, Promote, Spliced, new
  <2>3. CacheType'
    BY <1>1, <1>2, <1>7, <2>2 DEF CacheType
  <2>4. Cached(s)'
    <3>1. /\ resident'[s] = new /\ view'[s] = new
          /\ promoted'[s] = IF final THEN Len(new) ELSE promoted[s]
          /\ viewFrontier'[s] = Len(committed'[s])
      BY <1>1, <2>2 DEF CacheType
    <3>2. IsPrefix(new, new)
      BY <1>2, PrefixProperties
    <3>3. promoted[s] <= Frontier(s)
      BY <1>1 DEF Cached
    <3> QED
      BY <1>2, <1>4, <1>5, <1>7, <3>1, <3>2, <3>3 DEF Cached, Frontier
  <2>5. ASSUME NEW u \in Sessions \ {s} PROVE Cached(u)'
    <3>1. /\ promoted'[u] = promoted[u] /\ resident'[u] = resident[u]
          /\ view'[u] = view[u] /\ viewFrontier'[u] = viewFrontier[u]
      BY <1>1, <2>2 DEF CacheType
    <3> QED
      BY <1>2, <3>1 DEF RuntimeInv, Cached, Frontier
  <2> QED
    BY <2>3, <2>4, <2>5
<1> QED
  BY <1>9, <1>10, <1>11, <1>12 DEF ContentStep

\* A submission appends one branch, whose number was not in use.
LEMMA CreateBranchProperties ==
    ASSUME RuntimeTypeOK, NEW s \in Sessions, NEW kind \in Kinds,
           NEW status \in BranchStatus, CreateBranch(s, kind, status)
    PROVE  /\ branch' \in Seq(Branch) /\ Len(branch') = Len(branch) + 1
           /\ NewTask \in Nat /\ NewTask \notin Branches
           /\ Branches' = Branches \cup {NewTask}
           /\ \A t \in Branches : branch'[t] = branch[t]
           /\ branch'[NewTask].status = status
           /\ branch'[NewTask].session = s
           /\ branch'[NewTask].kind = kind
           /\ branch'[NewTask].base = version[s]
           /\ branch'[NewTask].depEnd = IF WithTail(kind) THEN Len(Whole(s)) ELSE Frontier(s)
<1> DEFINE new == [status  |-> status, session |-> s, kind |-> kind, base |-> version[s],
                   depEnd  |-> IF WithTail(kind) THEN Len(Whole(s)) ELSE Frontier(s)]
<1>1. branch \in Seq(Branch) /\ Len(branch) \in Nat /\ Branches = 1 .. Len(branch)
  BY DEF RuntimeTypeOK, Branches
<1>2. version[s] \in Nat /\ Len(Whole(s)) \in Nat /\ Frontier(s) \in Nat
  BY WholeType DEF RuntimeTypeOK, TypeOK
<1>3. new \in Branch
  BY <1>2 DEF Branch
<1>4. branch' = Append(branch, new)
  BY DEF CreateBranch
<1>5. /\ branch' \in Seq(Branch) /\ Len(branch') = Len(branch) + 1
      /\ \A t \in 1 .. Len(branch) : branch'[t] = branch[t]
      /\ branch'[Len(branch) + 1] = new
  BY <1>1, <1>3, <1>4, AppendProperties
<1>6. Branches' = 1 .. Len(branch) + 1
  BY <1>1, <1>5 DEF Branches
<1> QED
  BY <1>1, <1>5, <1>6 DEF NewTask

\* The tokens a submission shares with its session.
LEMMA ForkProperties ==
    ASSUME RuntimeInv, NEW s \in Sessions, NEW kind \in Kinds, Fork(s, kind)
    PROVE  /\ held' = held \cup {NewTask}
           /\ branchTokens' \in [held' -> Seq(Nat)]
           /\ \A t \in held : t # NewTask => branchTokens'[t] = branchTokens[t]
           /\ WithTail(kind) => branchTokens'[NewTask] = resident[s]
           /\ ~WithTail(kind) => branchTokens'[NewTask] = SubSeq(resident[s], 1, promoted[s])
           /\ IsPrefix(branchTokens'[NewTask], resident[s])
           /\ ~WithTail(kind) => Len(branchTokens'[NewTask]) = promoted[s]
<1> DEFINE tokens == IF WithTail(kind) THEN resident[s] ELSE SubSeq(resident[s], 1, promoted[s])
<1>1. resident[s] \in Seq(Nat) /\ promoted[s] \in 0 .. Len(resident[s])
  BY DEF RuntimeInv, RuntimeTypeOK, Cached
<1>2. /\ tokens \in Seq(Nat) /\ IsPrefix(tokens, resident[s])
      /\ ~WithTail(kind) => Len(tokens) = promoted[s]
  BY <1>1, HeadProperties, PrefixProperties
<1>3. branchTokens' = [t \in held \cup {NewTask} |->
                         IF t = NewTask THEN tokens ELSE branchTokens[t]]
  BY DEF Fork
<1>4. branchTokens \in [held -> Seq(Nat)]
  BY DEF RuntimeInv, RuntimeTypeOK
<1> HIDE DEF tokens
<1>5. /\ held' = held \cup {NewTask}
      /\ branchTokens' \in [held' -> Seq(Nat)]
      /\ \A t \in held : t # NewTask => branchTokens'[t] = branchTokens[t]
      /\ branchTokens'[NewTask] = tokens
  BY <1>2, <1>3, <1>4 DEF held
<1> QED
  BY <1>2, <1>5 DEF tokens

BranchType ==
    /\ branch \in Seq(Branch) /\ Len(branch) <= MaxTasks
    /\ held \subseteq Branches
    /\ branchTokens \in [held -> Seq(Nat)]
    /\ task \in [Tasks -> TaskStatus] /\ Numbered
    /\ inflight \in {0} \cup Branches
    /\ prompt \in Seq(Nat)

\* Branches, tasks and the call in flight stay typed.
LEMMA BranchStepType ==
    ASSUME RuntimeInv, [RuntimeNext]_vars
    PROVE  BranchType'
<1>1. RuntimeTypeOK /\ TypeOK /\ BranchType
  BY DEF RuntimeInv, RuntimeTypeOK, BranchType, Branches
<1>2. /\ branch \in Seq(Branch) /\ Len(branch) \in Nat /\ Len(branch) <= MaxTasks
      /\ Branches = 1 .. Len(branch) /\ MaxTasks \in Nat
  BY <1>1, RuntimeAssumption DEF BranchType, Branches
<1>3. ASSUME UNCHANGED <<branchVars, task, flightVars>> PROVE BranchType'
  BY <1>1, <1>3 DEF BranchType, Numbered, branchVars, flightVars, held, Branches
<1>4. ASSUME NEW s, NEW start, NEW end, Invalidate(s, start, end), UNCHANGED flightVars
      PROVE  BranchType'
  <2>1. Numbered'
    BY <1>1, <1>4, InvalidateType DEF BranchType, Numbered, Invalidate, ActiveStatus
  <2> QED
    BY <1>1, <1>4, <2>1, InvalidateType DEF BranchType, flightVars
<1>5. CASE HandleEvent
  <2>1. PICK s \in Sessions, g \in Segments, r \in 0 .. MaxRevision :
          \/ EventRefused(s, g, r)
          \/ MetadataEvent(s, g, r)
          \/ \E text \in Texts, final \in BOOLEAN : ContentStep(s, g, r, text, final)
    BY <1>5 DEF HandleEvent, ContentStep
  <2>2. CASE EventRefused(s, g, r)
    BY <1>3, <2>2 DEF EventRefused, runtimeVars
  <2>3. CASE MetadataEvent(s, g, r)
    BY <1>4, <2>3 DEF MetadataEvent
  <2>4. ASSUME NEW text \in Texts, NEW final \in BOOLEAN, ContentStep(s, g, r, text, final)
        PROVE  BranchType'
    <3>1. Content(s, g, r, text, final)
      BY <2>4, ContentStepIsContent
    <3> QED
      BY <1>4, <3>1 DEF Content
  <2> QED
    BY <2>1, <2>2, <2>3, <2>4
<1>6. ASSUME NEW s \in Sessions, NEW kind \in Kinds, NEW status \in BranchStatus,
             Submission(s), CreateBranch(s, kind, status),
             Fork(s, kind) \/ UNCHANGED branchTokens,
             task' \in [Tasks -> TaskStatus],
             \A t \in Tasks \ {NewTask} : task'[t] = task[t]
      PROVE  BranchType'
  <2>1. /\ branch' \in Seq(Branch) /\ Len(branch') = Len(branch) + 1
        /\ Branches' = Branches \cup {NewTask}
    BY <1>1, <1>6, CreateBranchProperties
  <2>2. Len(branch') <= MaxTasks
    BY <1>2, <1>6, <2>1 DEF Submission
  <2>3. held' \subseteq Branches' /\ branchTokens' \in [held' -> Seq(Nat)]
    <3>1. CASE Fork(s, kind)
      <4>1. held' = held \cup {NewTask} /\ branchTokens' \in [held' -> Seq(Nat)]
        BY <1>6, <3>1, ForkProperties
      <4> QED
        BY <1>1, <2>1, <4>1 DEF BranchType
    <3>2. CASE UNCHANGED branchTokens
      BY <1>1, <2>1, <3>2 DEF BranchType, held
    <3> QED
      BY <1>6, <3>1, <3>2
  <2>4. inflight' \in {0} \cup Branches' /\ prompt' \in Seq(Nat)
    BY <1>1, <1>6, <2>1 DEF BranchType, Submission, flightVars
  <2>5. Numbered'
    BY <1>1, <1>6, <2>1 DEF BranchType, Numbered
  <2> QED
    BY <1>6, <2>1, <2>2, <2>3, <2>4, <2>5 DEF BranchType
<1>7. ASSUME NEW s \in Sessions, NEW kind \in Kinds,
             SubmitTask(s, kind) \/ SubmitRefused(s, kind) \/ SubmitUnreadable(s, kind)
      PROVE  BranchType'
  <2>1. /\ task' \in [Tasks -> TaskStatus]
        /\ \A t \in Tasks \ {NewTask} : task'[t] = task[t]
    BY <1>1, <1>7 DEF SubmitTask, SubmitRefused, SubmitUnreadable, BranchType, TaskStatus, ActiveStatus
  <2>2. "queued" \in BranchStatus /\ "cancelled" \in BranchStatus
    BY DEF BranchStatus, ActiveStatus
  <2> QED
    BY <1>6, <1>7, <2>1, <2>2 DEF SubmitTask, SubmitRefused, SubmitUnreadable
\* From here on no branch is created, and none gets a task.
<1>8. ASSUME NEW ts, NEW status \in BranchStatus, branch' = SetStatus(ts, status)
      PROVE  branch' \in Seq(Branch) /\ Len(branch') <= MaxTasks /\ Branches' = Branches
  BY <1>2, <1>8, SetStatusProperties DEF Branches
<1>9. CancelStale \in [Tasks -> TaskStatus] /\ \A t \in Tasks : task[t] = "none" => CancelStale[t] = "none"
  BY <1>1 DEF CancelStale, BranchType, TaskStatus, StaleTasks, Queued
<1>10. ASSUME NEW t \in Tasks, RunNext(t) PROVE BranchType'
  <2>1. t \in Branches /\ task[t] = "queued"
    BY <1>1, <1>10 DEF RunNext, Candidates, Queued, BranchType, Numbered
  <2>2. branch[t].session \in Sessions
    BY <1>2, <2>1, BranchFields
  <2>3. prompt' \in Seq(Nat)
    BY <1>1, <1>10, <2>2, WholeType DEF RunNext
  <2>4. branch' \in Seq(Branch) /\ Len(branch') <= MaxTasks /\ Branches' = Branches
    BY <1>8, <1>10 DEF RunNext, BranchStatus, ActiveStatus
  <2>5. task' \in [Tasks -> TaskStatus] /\ Numbered'
    BY <1>1, <1>9, <1>10, <2>1, <2>4 DEF RunNext, BranchType, Numbered, TaskStatus, ActiveStatus
  <2> QED
    BY <1>1, <1>10, <2>1, <2>3, <2>4, <2>5 DEF RunNext, BranchType, held
<1>11. CASE RunNextFindsNone
  <2>1. Numbered'
    BY <1>1, <1>9, <1>11 DEF RunNextFindsNone, branchVars, BranchType, Numbered, Branches
  <2> QED
    BY <1>1, <1>9, <1>11, <2>1 DEF RunNextFindsNone, BranchType, branchVars, flightVars, held, Branches
<1>12. CASE GenerateReturns
  <2>1. inflight' = 0 /\ prompt' = <<>>
    BY <1>12 DEF GenerateReturns, OutputAllowed, OutputWithheld, Landed
  <2>2. /\ branch' \in Seq(Branch) /\ Len(branch') = Len(branch) /\ Branches' = Branches
        /\ held' \subseteq held /\ branchTokens' \in [held' -> Seq(Nat)]
    <3>1. CASE OutputAllowed
      BY <1>1, <3>1, DecideProperties DEF OutputAllowed, BranchStatus
    <3>2. CASE OutputWithheld
      BY <1>1, <3>2, CancelProperties DEF OutputWithheld
    <3> QED
      BY <1>12, <3>1, <3>2 DEF GenerateReturns
  <2>3. /\ task' \in [Tasks -> TaskStatus]
        /\ \A t \in Tasks : t # inflight => task'[t] = task[t]
    BY <1>1, <1>12 DEF GenerateReturns, OutputAllowed, OutputWithheld, BranchType, TaskStatus
  <2>4. inflight \in Branches
    BY <1>1, <1>12 DEF GenerateReturns, OutputAllowed, OutputWithheld, Landed, BranchType
  <2>5. <<>> \in Seq(Nat)
    OBVIOUS
  <2> QED
    BY <1>1, <1>2, <2>1, <2>2, <2>3, <2>4, <2>5 DEF BranchType, Numbered
<1>13. CASE GenerateFails
  BY <1>1, <1>13, EmptySeq DEF GenerateFails, Landed, BranchType, branchVars, held, Branches, Numbered
<1>14. ASSUME NEW target \in 0 .. MaxTasks, NEW ts \in SUBSET Tasks, ShedLoad(target, ts)
       PROVE  BranchType'
  <2>2. /\ branch' \in Seq(Branch) /\ Len(branch') = Len(branch) /\ Branches' = Branches
        /\ held' \subseteq held /\ branchTokens' \in [held' -> Seq(Nat)]
    BY <1>1, <1>14, CancelProperties DEF ShedLoad
  <2>4. task' \in [Tasks -> TaskStatus] /\ Numbered'
    BY <1>1, <1>14, <2>2 DEF ShedLoad, Queued, BranchType, Numbered, TaskStatus
  <2> QED
    BY <1>1, <1>2, <1>14, <2>2, <2>4 DEF BranchType, ShedLoad, flightVars
<1>15. CASE UNCHANGED vars
  BY <1>3, <1>15 DEF vars, runtimeVars
<1> QED
  BY <1>5, <1>7, <1>10, <1>11, <1>12, <1>13, <1>14, <1>15 DEF RuntimeNext

LEMMA RuntimeInitInv == RuntimeInit => RuntimeInv
<1> SUFFICES ASSUME RuntimeInit PROVE RuntimeInv
  OBVIOUS
<1>1. TypeOK
  BY InitType DEF RuntimeInit
<1>2. /\ <<>> \in Seq(Nat) /\ <<>> \in Seq(Branch) /\ Len(<<>>) = 0 /\ DOMAIN <<>> = {}
      /\ IsPrefix(<<>>, <<>>)
  <2>1. /\ <<>> \in Seq(Nat) /\ <<>> \in Seq(Branch)
        /\ Len(<<>>) = 0 /\ DOMAIN <<>> = {}
    OBVIOUS
  <2>2. SubSeq(<<>>, 1, 0) = <<>>
    BY SubSeqEmpty
  <2> QED
    BY <2>1, <2>2 DEF IsPrefix
<1>3. held = {} /\ branchTokens \in [held -> Seq(Nat)]
  BY <1>2 DEF RuntimeInit, held
<1>4. RuntimeTypeOK
  BY <1>1, <1>2, <1>3, RuntimeAssumption DEF RuntimeInit, RuntimeTypeOK, TaskStatus
<1>5. Numbered
  BY DEF RuntimeInit, Numbered
<1>6. ASSUME NEW s \in Sessions PROVE Cached(s)
  <2>1. /\ resident[s] = <<>> /\ view[s] = <<>> /\ committed[s] = <<>>
        /\ promoted[s] = 0 /\ viewFrontier[s] = 0
    BY DEF RuntimeInit, Init
  <2> QED
    BY <1>2, <2>1 DEF Cached, Frontier
<1> QED
  BY <1>4, <1>5, <1>6 DEF RuntimeInv

LEMMA RuntimeStepInv == RuntimeInv /\ [RuntimeNext]_vars => RuntimeInv'
<1> SUFFICES ASSUME RuntimeInv, [RuntimeNext]_vars PROVE RuntimeInv'
  OBVIOUS
<1>1. TypeOK'
  BY TranscriptStep, StepType DEF RuntimeInv, RuntimeTypeOK
<1>2. BranchType'
  BY BranchStepType
<1>3. CacheType' /\ \A s \in Sessions : Cached(s)'
  <2>1. CASE UNCHANGED <<committed, tentative, cacheVars, engineVars, wedged>>
    BY <2>1 DEF RuntimeInv, RuntimeTypeOK, CacheType, Cached, Frontier, cacheVars, engineVars
  <2> QED
    BY <2>1, OnlyContentWrites, ContentCache
<1> QED
  BY <1>1, <1>2, <1>3 DEF RuntimeInv, RuntimeTypeOK, BranchType, CacheType, Branches

LEMMA RuntimeInvariant == RuntimeSpec => []RuntimeInv
<1> QED
  BY RuntimeInitInv, RuntimeStepInv, PTL DEF RuntimeSpec

(***************************************************************************)
(* The runtime's tables, cached tokens and the engine's copies stay typed, *)
(* whatever fails and however the calls overlap.                           *)
(***************************************************************************)
THEOREM RuntimeTypeCorrect == RuntimeSpec => []RuntimeTypeOK
<1>1. RuntimeInv => RuntimeTypeOK
  BY DEF RuntimeInv
<1> QED
  BY <1>1, RuntimeInvariant, PTL

(***************************************************************************)
(* The cache never claims tokens the engine was not given, whichever of    *)
(* handle_event's calls fail (the order of update_session and              *)
(* kv.extend_session in runtime.py).                                       *)
(***************************************************************************)
THEOREM EngineHoldsTheCache == RuntimeSpec => []EngineHoldsResident
<1>1. RuntimeInv => EngineHoldsResident
  BY DEF RuntimeInv, Cached, EngineHoldsResident
<1> QED
  BY <1>1, RuntimeInvariant, PTL

\* An update starts replacing behind every frontier declared before.
LEMMA ContentSparesCommitted ==
    ASSUME RuntimeInv, NEW s \in Sessions, NEW g \in Segments, NEW r \in 0 .. MaxRevision,
           NEW text \in Texts, NEW final \in BOOLEAN, ContentStep(s, g, r, text, final),
           NEW u \in Sessions
    PROVE  /\ viewFrontier[u] <= viewFrontier'[u]
           /\ IsPrefix(SubSeq(view[u], 1, viewFrontier[u]), view'[u])
<1> DEFINE rest == Remaining(s, text)
           new  == Expected(s, text)
           told == SubSeq(view[u], 1, viewFrontier[u])
<1>1. /\ RuntimeTypeOK /\ TypeOK /\ Cached(s) /\ Cached(u)
      /\ view[u] \in Seq(Nat) /\ Len(view[u]) \in Nat
      /\ resident[u] \in Seq(Nat) /\ Len(resident[u]) \in Nat
      /\ viewFrontier[u] \in Nat
  BY DEF RuntimeInv, RuntimeTypeOK
<1>2. viewFrontier[u] \in 0 .. Len(view[u])
  BY <1>1 DEF Cached, IsPrefix
<1>3. told \in Seq(Nat) /\ Len(told) = viewFrontier[u] /\ IsPrefix(told, view[u])
  BY <1>1, <1>2, HeadProperties
<1>4. CASE UNCHANGED engineVars
  BY <1>1, <1>3, <1>4 DEF engineVars
<1>5. CASE ContentPublished(s, g, r, text, final) /\ u # s
  <2>1. view'[u] = view[u] /\ viewFrontier'[u] = viewFrontier[u]
    BY <1>1, <1>5 DEF ContentPublished, RuntimeTypeOK
  <2> QED
    BY <1>1, <1>3, <2>1
<1>6. CASE ContentPublished(s, g, r, text, final) /\ u = s
  <2>1. Spliced(s, text) = new
    BY <1>1, <1>6, SplicedProperties DEF ContentPublished, MustPublish, Cached
  <2>2. view'[u] = new /\ viewFrontier'[u] = Len(committed'[u])
    BY <1>1, <1>6, <2>1 DEF ContentPublished, Spliced, RuntimeTypeOK
  <2>3. /\ new \in Seq(Nat) /\ Len(new) \in Nat
        /\ committed'[u] = IF final THEN new ELSE committed[u]
    BY <1>1, <1>6, ContentStepIsContent, ContentEffect
  <2>4. /\ rest \in Seq(Nat) /\ Len(rest) \in Nat
        /\ IsPrefix(rest, resident[u])
        /\ Len(resident[u]) <= ChangedStart(s, text) => rest = resident[u]
        /\ ChangedStart(s, text) <= Len(resident[u]) => Len(rest) = ChangedStart(s, text)
    BY <1>1, <1>6, RemainingProperties
  <2>5. /\ ChangedStart(s, text) \in Nat /\ Frontier(u) \in Nat
        /\ Frontier(u) <= ChangedStart(s, text) /\ ChangedStart(s, text) <= Len(new)
    BY <1>1, <1>6, ChangeProperties, WholeType
  <2>6. viewFrontier[u] <= Frontier(u) /\ viewFrontier[u] <= Len(resident[u])
    BY <1>1 DEF Cached
  <2>7. viewFrontier[u] <= Len(rest)
    BY <1>1, <2>4, <2>5, <2>6
  <2>8. IsPrefix(rest, new)
    BY <1>6 DEF ContentPublished, MustPublish
  <2>9. viewFrontier[u] <= viewFrontier'[u]
    BY <1>1, <2>2, <2>3, <2>5, <2>6 DEF Frontier
  <2>10. IsPrefix(told, rest)
    <3>1. IsPrefix(rest, view[u])
      BY <1>1, <2>4, PrefixTransitive DEF Cached
    <3> HIDE DEF rest, told
    <3> QED
      BY <1>1, <1>3, <2>4, <2>7, <3>1, PrefixByIndex
  <2> QED
    BY <1>3, <2>2, <2>3, <2>4, <2>8, <2>9, <2>10, PrefixTransitive
<1> QED
  BY <1>4, <1>5, <1>6 DEF ContentStep, ContentInterrupted, ContentAsserts, ContentKept,
                          ContentUnpublished

(***************************************************************************)
(* Committed-frontier protection: no update rewrites a token below a       *)
(* frontier the engine was told of, that frontier never moves back, and    *)
(* the tokens below it stay resident.                                      *)
(***************************************************************************)
THEOREM CommittedIsSpared == RuntimeSpec => UpdatesSpareCommitted
<1> DEFINE Spared ==
        \A s \in Sessions :
          /\ viewFrontier[s] <= viewFrontier'[s]
          /\ viewFrontier'[s] <= Len(resident'[s])
          /\ IsPrefix(SubSeq(view[s], 1, viewFrontier[s]), view'[s])
<1>1. RuntimeInv /\ RuntimeInv' /\ [RuntimeNext]_vars => [Spared]_vars
  <2> SUFFICES ASSUME RuntimeInv, RuntimeInv', RuntimeNext, NEW s \in Sessions
               PROVE  /\ viewFrontier[s] <= viewFrontier'[s]
                      /\ viewFrontier'[s] <= Len(resident'[s])
                      /\ IsPrefix(SubSeq(view[s], 1, viewFrontier[s]), view'[s])
    OBVIOUS
  <2>1. viewFrontier'[s] <= Len(resident'[s])
    BY DEF RuntimeInv, Cached
  <2>2. CASE UNCHANGED <<committed, tentative, cacheVars, engineVars, wedged>>
    <3>1. /\ viewFrontier[s] \in Nat /\ view[s] \in Seq(Nat)
          /\ view'[s] = view[s] /\ viewFrontier'[s] = viewFrontier[s]
      BY <2>2 DEF engineVars, RuntimeInv, RuntimeTypeOK
    <3>2. viewFrontier[s] \in 0 .. Len(view[s])
      <4>1. resident[s] \in Seq(Nat) /\ viewFrontier[s] <= Len(resident[s])
            /\ Len(resident[s]) <= Len(view[s])
        BY DEF RuntimeInv, RuntimeTypeOK, Cached, IsPrefix
      <4>2. Len(resident[s]) \in Nat /\ Len(view[s]) \in Nat
        BY <3>1, <4>1
      <4> QED
        BY <3>1, <4>1, <4>2
    <3> QED
      BY <2>1, <3>1, <3>2, HeadProperties
  <2> QED
    BY <2>1, <2>2, OnlyContentWrites, ContentSparesCommitted
<1> QED
  BY <1>1, RuntimeInvariant, PTL DEF RuntimeSpec, UpdatesSpareCommitted

=============================================================================
