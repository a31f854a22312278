-------------------------- MODULE RuntimeTaskProofs ---------------------------
(***************************************************************************)
(* Theorems about the tasks and branches of module Runtime.  They all rest *)
(* on TaskMoves: whatever a step is, it makes one of six moves with each   *)
(* task and its branch.                                                    *)
(***************************************************************************)
EXTENDS RuntimeProofs

-----------------------------------------------------------------------------
(***************************************************************************)
(* What an event does to transcripts and branches, and what any step does  *)
(* to one task                                                             *)
(***************************************************************************)

\* An event was accepted whose diff is the interval from start to end.
Accepted(s, start, end) ==
    /\ version' = [version EXCEPT ![s] = @ + 1]
    /\ Invalidate(s, start, end) /\ UNCHANGED flightVars
    /\ start \in Nat /\ end \in Nat /\ start <= end
    /\ Frontier(s) <= start /\ Frontier(s) <= Len(committed'[s])
    /\ start <= Len(Whole(s)) /\ start <= Len(Whole(s)')
    /\ \A i \in 1 .. start : Whole(s)'[i] = Whole(s)[i]
    /\ start = end => Whole(s)' = Whole(s)
    /\ \A u \in Sessions \ {s} : committed'[u] = committed[u] /\ tentative'[u] = tentative[u]

\* An event that no branch notices: it was refused.
Refused ==
    /\ UNCHANGED <<committed, tentative, branchVars, task, flightVars>>
    /\ \A s \in Sessions : version[s] <= version'[s]

LEMMA EventEffect ==
    ASSUME RuntimeInv, HandleEvent
    PROVE  Refused \/ \E s \in Sessions, start, end \in Nat : Accepted(s, start, end)
<1>1. TypeOK
  BY DEF RuntimeInv, RuntimeTypeOK
<1>2. PICK s \in Sessions, g \in Segments, r \in 0 .. MaxRevision :
        \/ EventRefused(s, g, r)
        \/ MetadataEvent(s, g, r)
        \/ \E text \in Texts, final \in BOOLEAN : ContentStep(s, g, r, text, final)
  BY DEF HandleEvent, ContentStep
<1>3. /\ Whole(s) \in Seq(Nat) /\ Len(Whole(s)) \in Nat /\ Frontier(s) \in Nat
      /\ Frontier(s) <= Len(Whole(s))
  BY <1>1, WholeType
<1>4. CASE EventRefused(s, g, r)
  <2>1. UNCHANGED <<committed, tentative, branchVars, task, flightVars>>
    BY <1>4 DEF EventRefused, RefuseClosed, RefuseLate, sessionVars, runtimeVars
  <2>2. version' = version \/ Bump(s)
    BY <1>4 DEF EventRefused, RefuseClosed, RefuseLate, sessionVars
  <2>3. ASSUME NEW u \in Sessions PROVE version[u] <= version'[u]
    <3>1. version \in [Sessions -> Nat] /\ version[u] \in Nat
      BY <1>1 DEF TypeOK
    <3>2. CASE version' = version
      BY <3>1, <3>2
    <3>3. CASE Bump(s)
      <4>1. version'[u] = IF u = s THEN version[u] + 1 ELSE version[u]
        BY <3>1, <3>3 DEF Bump
      <4> QED
        BY <3>1, <4>1
    <3> QED
      BY <2>2, <3>2, <3>3
  <2> QED
    BY <2>1, <2>3 DEF Refused
<1>5. CASE MetadataEvent(s, g, r)
  <2>1. /\ Invalidate(s, Len(Whole(s)), Len(Whole(s))) /\ UNCHANGED flightVars
        /\ version' = [version EXCEPT ![s] = @ + 1]
        /\ UNCHANGED <<committed, tentative>>
    BY <1>5 DEF MetadataEvent, Relabel, CloseSession, Bump
  <2>2. Whole(s)' = Whole(s)
    BY <2>1 DEF Whole
  <2>3. Accepted(s, Len(Whole(s)), Len(Whole(s)))
    BY <1>3, <2>1, <2>2 DEF Accepted, Frontier
  <2> QED
    BY <1>3, <2>3
<1>6. ASSUME NEW text \in Texts, NEW final \in BOOLEAN, ContentStep(s, g, r, text, final)
      PROVE  \E start, end \in Nat : Accepted(s, start, end)
  <2>1. /\ Content(s, g, r, text, final) /\ ContentEvent(s, g, r, text, final)
    BY <1>6, ContentStepIsContent
  <2>2. /\ Invalidate(s, ChangedStart(s, text), ChangedEnd(s, text)) /\ UNCHANGED flightVars
    BY <2>1 DEF Content
  <2>3. /\ version' = [version EXCEPT ![s] = @ + 1]
        /\ Expected(s, text) \in Seq(Nat)
        /\ Whole(s)' = Expected(s, text)
        /\ committed'[s] = IF final THEN Expected(s, text) ELSE committed[s]
        /\ \A u \in Sessions \ {s} : committed'[u] = committed[u] /\ tentative'[u] = tentative[u]
    BY <1>1, <2>1, ContentEffect
  <2>4. /\ ChangedStart(s, text) \in Nat /\ ChangedEnd(s, text) \in Nat
        /\ Frontier(s) <= ChangedStart(s, text)
        /\ ChangedStart(s, text) <= ChangedEnd(s, text)
        /\ ChangedStart(s, text) <= Len(Whole(s))
        /\ ChangedStart(s, text) <= Len(Expected(s, text))
        /\ \A i \in 1 .. ChangedStart(s, text) : Whole(s)[i] = Expected(s, text)[i]
        /\ ChangedStart(s, text) = ChangedEnd(s, text) => Whole(s) = Expected(s, text)
    BY <1>1, ChangeProperties
  <2>5. Frontier(s) <= Len(committed'[s])
    BY <1>3, <2>3, <2>4 DEF Frontier
  <2>6. Accepted(s, ChangedStart(s, text), ChangedEnd(s, text))
    BY <2>2, <2>3, <2>4, <2>5 DEF Accepted
  <2> QED
    BY <2>4, <2>6
<1> QED
  BY <1>2, <1>4, <1>5, <1>6

\* The moves of one task and its branch.
Rests(t) ==
    /\ branch'[t].status = branch[t].status
    /\ task'[t] = task[t]
    /\ t \in held' <=> t \in held

Outdated(t) ==  \* an event has invalidated its branch
    /\ IsActive(t)
    /\ NeedsCurrent(t) \/ branch[t].depEnd > Frontier(branch[t].session)
    /\ version'[branch[t].session] = version[branch[t].session] + 1
    /\ branch'[t].status = "invalidated"
    /\ task'[t] = task[t] \/ (task[t] \in ActiveStatus /\ task'[t] = "cancelled")
    /\ t \notin held'

Starts(t) ==
    /\ inflight = 0 /\ inflight' = t
    /\ ~IsStale(t)
    /\ branch[t].status = "queued" /\ branch'[t].status = "running"
    /\ task[t] = "queued" /\ task'[t] = "running"
    /\ t \in held' <=> t \in held
    /\ UNCHANGED transcriptVars

FoundStale(t) ==
    /\ IsStale(t)
    /\ branch'[t].status = branch[t].status
    /\ task[t] = "queued" /\ task'[t] = "cancelled"
    /\ t \in held' <=> t \in held
    /\ UNCHANGED transcriptVars

Completes(t) ==
    /\ inflight = t /\ inflight' = 0
    /\ Allows(t)
    /\ branch'[t].status = "completed"
    /\ task'[t] = "completed"
    /\ t \notin held'
    /\ UNCHANGED transcriptVars

GivenUp(t) ==   \* withheld by the gate, or shed
    /\ \/ inflight = t /\ inflight' = 0 /\ ~Allows(t)
       \/ task[t] = "queued"
    /\ branch'[t].status = IF IsActive(t) THEN "cancelled" ELSE branch[t].status
    /\ task'[t] = IF task[t] \in ActiveStatus THEN "dropped" ELSE task[t]
    /\ t \in held' <=> t \in held /\ ~IsActive(t)
    /\ UNCHANGED transcriptVars

Moves(t) ==
    \/ Rests(t)
    \/ Outdated(t)
    \/ Starts(t) \/ FoundStale(t)
    \/ Completes(t) \/ GivenUp(t)

\* Every step makes one of these moves with every branch there is, keeps what
\* the branch was created with, and never hands it other tokens.
LEMMA TaskMoves ==
    ASSUME RuntimeInv, [RuntimeNext]_vars, NEW t \in Branches
    PROVE  /\ t \in Tasks /\ t \in Branches'
           /\ SameOrigin(t)
           /\ t \in held' => t \in held /\ branchTokens'[t] = branchTokens[t]
           /\ Moves(t)
<1> DEFINE Stays == /\ t \in Branches' /\ SameOrigin(t)
                    /\ t \in held' => t \in held /\ branchTokens'[t] = branchTokens[t]
<1>0. SUFFICES t \in Tasks /\ Stays /\ Moves(t)
  OBVIOUS
<1>1. /\ RuntimeTypeOK /\ branch \in Seq(Branch) /\ Branches = 1 .. Len(branch)
      /\ Len(branch) \in Nat /\ Len(branch) <= MaxTasks /\ MaxTasks \in Nat
      /\ task \in [Tasks -> TaskStatus] /\ inflight \in {0} \cup Branches
      /\ version \in [Sessions -> Nat]
  BY RuntimeAssumption DEF RuntimeInv, RuntimeTypeOK, TypeOK, Branches
<1>2. t \in Tasks /\ branch[t].session \in Sessions
  BY <1>1, BranchFields DEF Tasks
<1>3. ASSUME UNCHANGED <<branchVars, task>> PROVE Stays /\ Rests(t)
  BY <1>3 DEF branchVars, SameOrigin, Rests, Branches, held
<1>4. ASSUME NEW s \in Sessions, NEW start \in Nat, NEW end \in Nat, Accepted(s, start, end)
      PROVE  Stays /\ (Rests(t) \/ Outdated(t))
  <2>1. Invalidate(s, start, end)
    BY <1>4 DEF Accepted
  <2>2. Stays
    BY <1>1, <2>1, InvalidateType
  <2>3. CASE t \in Invalidated(s, start, end)
    <3>1. /\ branch'[t].status = "invalidated" /\ t \notin held'
          /\ task'[t] = task[t] \/ (task[t] \in ActiveStatus /\ task'[t] = "cancelled")
      BY <1>1, <1>2, <2>1, <2>3, InvalidateType
    <3>2. /\ IsActive(t) /\ branch[t].session = s
          /\ NeedsCurrent(t) \/ start < branch[t].depEnd
      BY <2>3 DEF Invalidated
    <3>3. version'[s] = version[s] + 1 /\ Frontier(s) <= start
      BY <1>1, <1>4 DEF Accepted
    <3>4. Frontier(s) \in Nat /\ branch[t].depEnd \in Nat
      BY <1>1, WholeType, BranchFields DEF RuntimeTypeOK
    <3>5. NeedsCurrent(t) \/ branch[t].depEnd > Frontier(branch[t].session)
      BY <3>2, <3>3, <3>4
    <3> QED
      BY <2>2, <3>1, <3>2, <3>3, <3>5 DEF Outdated
  <2>4. CASE t \notin Invalidated(s, start, end)
    BY <1>1, <1>2, <2>1, <2>2, <2>4, InvalidateType DEF Rests
  <2> QED
    BY <2>3, <2>4
<1>5. CASE HandleEvent
  <2>1. CASE Refused
    BY <1>2, <1>3, <2>1 DEF Refused, Moves
  <2>2. ASSUME NEW s \in Sessions, NEW start \in Nat, NEW end \in Nat, Accepted(s, start, end)
        PROVE  t \in Tasks /\ Stays /\ Moves(t)
    BY <1>2, <1>4, <2>2 DEF Moves
  <2> QED
    BY <1>5, <2>1, <2>2, EventEffect
<1>6. ASSUME NEW s \in Sessions, NEW kind \in Kinds,
             SubmitTask(s, kind) \/ SubmitRefused(s, kind) \/ SubmitUnreadable(s, kind)
      PROVE  Stays /\ Rests(t)
  <2>1. t # NewTask
    BY <1>1 DEF NewTask
  <2>2. PICK status \in BranchStatus : CreateBranch(s, kind, status)
    BY <1>6 DEF SubmitTask, SubmitRefused, SubmitUnreadable, BranchStatus, ActiveStatus
  <2>3. branch'[t] = branch[t] /\ t \in Branches'
    BY <1>1, <2>2, CreateBranchProperties
  <2>4. task'[t] = task[t]
    BY <1>1, <1>2, <1>6, <2>1 DEF SubmitTask, SubmitRefused, SubmitUnreadable
  <2>5. (t \in held' <=> t \in held) /\ (t \in held' => branchTokens'[t] = branchTokens[t])
    <3>1. Fork(s, kind) \/ UNCHANGED branchTokens
      BY <1>6 DEF SubmitTask, SubmitRefused, SubmitUnreadable
    <3>2. CASE Fork(s, kind)
      BY <2>1, <3>2, ForkProperties
    <3>3. CASE UNCHANGED branchTokens
      BY <3>3 DEF held
    <3> QED
      BY <3>1, <3>2, <3>3
  <2> QED
    BY <2>3, <2>4, <2>5 DEF SameOrigin, Rests
<1>7. ASSUME UNCHANGED branchVars, UNCHANGED transcriptVars, task'[t] = CancelStale[t]
      PROVE  Stays /\ Moves(t)
  BY <1>2, <1>7 DEF CancelStale, StaleTasks, Queued, Moves, Rests, FoundStale,
                    branchVars, SameOrigin, Branches, held
<1>8. ASSUME NEW u \in Tasks, RunNext(u) PROVE Stays /\ Moves(t)
  <2>1. /\ u \in Branches /\ task[u] = "queued" /\ ~IsStale(u)
    BY <1>8 DEF RunNext, Candidates, Queued, StaleTasks, RuntimeInv, Numbered
  <2>2. /\ branch' = SetStatus({u}, "running") /\ "running" \in BranchStatus
        /\ branchTokens' = branchTokens
    BY <1>8 DEF RunNext, BranchStatus, ActiveStatus
  <2>3. /\ t \in Branches' /\ SameOrigin(t)
        /\ branch'[t].status = IF t = u THEN "running" ELSE branch[t].status
    BY <1>1, <2>2, SetStatusProperties DEF SameOrigin, Branches
  <2>4. t \in held' <=> t \in held
    BY <2>2 DEF held
  <2>5. CASE t = u
    BY <1>1, <1>2, <1>8, <2>1, <2>2, <2>3, <2>4, <2>5 DEF RunNext, Moves, Starts, CancelStale
  <2>6. CASE t # u
    <3>1. task'[t] = CancelStale[t] /\ UNCHANGED transcriptVars
      BY <1>1, <1>2, <1>8, <2>6 DEF RunNext, CancelStale
    <3> QED
      BY <1>2, <2>2, <2>3, <2>4, <2>6, <3>1
         DEF CancelStale, StaleTasks, Queued, Moves, Rests, FoundStale
  <2> QED
    BY <2>5, <2>6
<1>9. CASE RunNextFindsNone
  BY <1>2, <1>7, <1>9 DEF RunNextFindsNone
<1>10. CASE OutputAllowed
  <2>1. /\ t \in Branches' /\ SameOrigin(t)
        /\ branch'[t].status = IF t = inflight THEN "completed" ELSE branch[t].status
        /\ held' = held \ {inflight} /\ \A u \in held' : branchTokens'[u] = branchTokens[u]
    <3>1. branch' = SetStatus({inflight}, "completed") /\ Release({inflight})
      BY <1>10 DEF OutputAllowed
    <3>2. "completed" \in BranchStatus
      BY DEF BranchStatus
    <3> DEFINE ts == {inflight}
    <3>3. \A u : u \in ts <=> u = inflight
      OBVIOUS
    <3> HIDE DEF ts
    <3>4. branch' = SetStatus(ts, "completed") /\ Release(ts)
      BY <3>1 DEF ts
    <3>5. /\ Branches' = Branches /\ held' = held \ ts
          /\ \A u \in held' : branchTokens'[u] = branchTokens[u]
          /\ SameOrigin(t)
          /\ branch'[t].status = IF t \in ts THEN "completed" ELSE branch[t].status
      BY <1>1, <3>2, <3>4, DecideProperties
    <3> QED
      BY <3>3, <3>5 DEF ts
  <2>2. task'[t] = IF t = inflight THEN "completed" ELSE task[t]
    BY <1>1, <1>2, <1>10 DEF OutputAllowed
  <2> QED
    BY <1>2, <1>10, <2>1, <2>2 DEF OutputAllowed, Landed, Moves, Rests, Completes
<1>11. CASE OutputWithheld
  <2>1. /\ t \in Branches' /\ SameOrigin(t)
        /\ branch'[t].status = IF t \in {inflight} /\ IsActive(t) THEN "cancelled"
                                                          ELSE branch[t].status
        /\ held' = {u \in held : ~(u \in {inflight} /\ IsActive(u))}
        /\ \A u \in held' : branchTokens'[u] = branchTokens[u]
    BY <1>1, <1>11, CancelProperties DEF OutputWithheld
  <2>2. task'[t] = IF t = inflight /\ task[t] \in ActiveStatus THEN "dropped" ELSE task[t]
    BY <1>1, <1>2, <1>11 DEF OutputWithheld
  <2> QED
    BY <1>2, <1>11, <2>1, <2>2 DEF OutputWithheld, Landed, Moves, Rests, GivenUp
<1>12. CASE GenerateFails
  BY <1>2, <1>3, <1>12 DEF GenerateFails, Moves
<1>13. ASSUME NEW target \in 0 .. MaxTasks, NEW ts \in SUBSET Tasks, ShedLoad(target, ts)
       PROVE  Stays /\ Moves(t)
  <2>1. /\ t \in Branches' /\ SameOrigin(t)
        /\ branch'[t].status = IF t \in ts /\ IsActive(t) THEN "cancelled"
                                                          ELSE branch[t].status
        /\ held' = {u \in held : ~(u \in ts /\ IsActive(u))}
        /\ \A u \in held' : branchTokens'[u] = branchTokens[u]
    BY <1>1, <1>13, CancelProperties DEF ShedLoad
  <2>2. task'[t] = IF t \in ts THEN "dropped" ELSE task[t]
    BY <1>2, <1>13 DEF ShedLoad
  <2>3. t \in ts => task[t] = "queued"
    BY <1>13 DEF ShedLoad, Queued
  <2> QED
    BY <1>13, <2>1, <2>2, <2>3 DEF ShedLoad, Moves, Rests, GivenUp, ActiveStatus
<1>14. CASE UNCHANGED vars
  BY <1>2, <1>3, <1>14 DEF vars, runtimeVars, Moves
<1> QED
  BY <1>2, <1>5, <1>6, <1>8, <1>9, <1>10, <1>11, <1>12, <1>13, <1>14
     DEF RuntimeNext, GenerateReturns, Moves

-----------------------------------------------------------------------------
(***************************************************************************)
(* The invariants                                                          *)
(***************************************************************************)

(***************************************************************************)
(* What the two tables know of one task, whatever fails.  A base version   *)
(* that is behind stays behind, so a stale task never becomes current      *)
(* again; the branch of the call in flight has been started; and nothing   *)
(* is held for a branch that is decided.                                   *)
(***************************************************************************)
Tracked(t) ==
    /\ branch[t].base <= version[branch[t].session]
    /\ ~NeedsCurrent(t) => /\ branch[t].status # "invalidated"
                           /\ branch[t].depEnd <= Frontier(branch[t].session)
    /\ task[t] \in ActiveStatus /\ ~IsStale(t) => branch[t].status = task[t]
    /\ branch[t].status = "completed" <=> task[t] = "completed"
    /\ branch[t].status = "running" => task[t] # "queued"
    /\ inflight = t => /\ branch[t].status # "queued"
                       /\ branch[t].status = "running" => task[t] = "running"
    /\ t \in held => IsActive(t)
    /\ t \in held => \/ task[t] \in ActiveStatus
                     \/ task[t] = "cancelled" /\ IsStale(t) /\ branch[t].status = "queued"
                     \/ task[t] = "none" /\ "unreadable" \in Faults

(***************************************************************************)
(* What a task depends on, and what the prompt of the call in flight was   *)
(* built from: the transcript of this moment if the task needs it and its  *)
(* version is still the session's, a part of the spine that covers the     *)
(* dependency otherwise.                                                   *)
(***************************************************************************)
Current(t) == NeedsCurrent(t) /\ ~IsStale(t)

Prompted(t) ==
    /\ Current(t) => branch[t].depEnd = Len(Whole(branch[t].session))
    /\ inflight = t /\ Current(t) => prompt = Whole(branch[t].session)
    /\ inflight = t /\ ~NeedsCurrent(t) =>
          IsPrefix(prompt, Spine(branch[t].session)) /\ branch[t].depEnd <= Len(prompt)

\* What the cache and the branches hold is what the transcript still says.
Prefixed(s) ==
    /\ IsPrefix(resident[s], Whole(s))
    /\ ~wedged[s]

\* A branch is active only with a task, as long as every submission got one.
Tasked(t) == IsActive(t) => ~Orphan(t)

HeldIsCurrent(t) ==
    t \in held => /\ IsPrefix(branchTokens[t], Whole(branch[t].session))
                  /\ Len(branchTokens[t]) <= branch[t].depEnd

-----------------------------------------------------------------------------
(***************************************************************************)
(* Steps: what changes with time, and what a new branch starts with        *)
(***************************************************************************)

\* A session's version and its spine only grow, and while the version stands
\* still the transcript does.
LEMMA HistoryStep ==
    ASSUME RuntimeInv, [RuntimeNext]_vars, NEW s \in Sessions
    PROVE  /\ version[s] \in Nat /\ version'[s] \in Nat /\ version[s] <= version'[s]
           /\ version'[s] = version[s] => /\ Whole(s)' = Whole(s)
                                          /\ Spine(s)' = Spine(s)
           /\ Spine(s) \in Seq(Nat) /\ Spine(s)' \in Seq(Nat)
           /\ IsPrefix(Spine(s), Spine(s)')
           /\ Frontier(s) \in Nat /\ Frontier(s)' \in Nat /\ Frontier(s) <= Frontier(s)'
<1>1. TypeOK /\ TypeOK' /\ [Next]_transcriptVars
  BY TranscriptStep, StepType DEF RuntimeInv, RuntimeTypeOK
<1>2. version[s] \in Nat /\ version'[s] \in Nat
  BY <1>1 DEF TypeOK
<1>3. committed[s] \in Seq(Nat) /\ committed'[s] \in Seq(Nat)
  BY <1>1 DEF TypeOK
<1>4. IsPrefix(committed[s], committed'[s])
  BY <1>1, SpinePrefix
<1>5. \/ version'[s] > version[s]
      \/ /\ version'[s] = version[s]
         /\ committed'[s] = committed[s] /\ tentative'[s] = tentative[s]
  BY <1>1, VersionStep
<1>6. ASSUME version'[s] = version[s] PROVE Whole(s)' = Whole(s) /\ Spine(s)' = Spine(s)
  <2>1. committed'[s] = committed[s] /\ tentative'[s] = tentative[s]
    BY <1>2, <1>5, <1>6
  <2> QED
    BY <2>1 DEF Whole, Spine
<1>7. Len(committed[s]) <= Len(committed'[s])
  BY <1>4 DEF IsPrefix
<1> QED
  BY <1>2, <1>3, <1>4, <1>5, <1>6, <1>7 DEF Spine, Frontier

\* A call to the engine starts with RunNext and ends with its answer.
LEMMA FlightStep ==
    ASSUME [RuntimeNext]_vars
    PROVE  \/ UNCHANGED flightVars
           \/ inflight' = 0 /\ (GenerateReturns \/ GenerateFails)
           \/ \E t \in Tasks : RunNext(t)
<1>1. HandleEvent => UNCHANGED flightVars
  <2>1. ASSUME NEW s \in Sessions, NEW g \in Segments, NEW r \in 0 .. MaxRevision,
               EventRefused(s, g, r) \/ MetadataEvent(s, g, r)
        PROVE  UNCHANGED flightVars
    BY <2>1 DEF EventRefused, MetadataEvent, runtimeVars
  <2>2. ASSUME NEW s \in Sessions, NEW g \in Segments, NEW r \in 0 .. MaxRevision,
               NEW text \in Texts, NEW final \in BOOLEAN, ContentStep(s, g, r, text, final)
        PROVE  UNCHANGED flightVars
    BY <2>2, ContentStepIsContent DEF Content
  <2> QED
    BY <2>1, <2>2 DEF HandleEvent, ContentStep
<1>2. ASSUME NEW s \in Sessions, NEW kind \in Kinds,
             SubmitTask(s, kind) \/ SubmitRefused(s, kind) \/ SubmitUnreadable(s, kind)
      PROVE  UNCHANGED flightVars
  BY <1>2 DEF SubmitTask, SubmitRefused, SubmitUnreadable, Submission
<1>3. RunNextFindsNone => UNCHANGED flightVars
  BY DEF RunNextFindsNone
<1>4. GenerateReturns \/ GenerateFails => inflight' = 0
  BY DEF GenerateReturns, GenerateFails, OutputAllowed, OutputWithheld, Landed
<1>5. (\E target \in 0 .. MaxTasks, ts \in SUBSET Tasks : ShedLoad(target, ts))
        => UNCHANGED flightVars
  BY DEF ShedLoad
<1>6. UNCHANGED vars => UNCHANGED flightVars
  BY DEF vars, runtimeVars
<1> QED
  BY <1>1, <1>2, <1>3, <1>4, <1>5, <1>6 DEF RuntimeNext

\* What RunNext does to the task it starts.
LEMMA RunNextProperties ==
    ASSUME RuntimeInv, NEW t \in Tasks, RunNext(t)
    PROVE  /\ t \in Branches
           /\ inflight = 0 /\ inflight' = t
           /\ task[t] = "queued" /\ task'[t] = "running"
           /\ branch[t].status = "queued" /\ branch'[t].status = "running"
           /\ ~IsStale(t)
           /\ prompt' = IF NeedsCurrent(t) THEN Whole(branch[t].session)
                                           ELSE Spine(branch[t].session)
           /\ UNCHANGED transcriptVars
<1>1. branch \in Seq(Branch) /\ task \in [Tasks -> TaskStatus] /\ Numbered
  BY DEF RuntimeInv, RuntimeTypeOK
<1>2. t \in Branches /\ task[t] = "queued" /\ ~IsStale(t)
  BY <1>1 DEF RunNext, Candidates, Queued, StaleTasks, Numbered
<1>3. branch'[t].status = "running"
  <2>1. branch' = SetStatus({t}, "running") /\ "running" \in BranchStatus
    BY DEF RunNext, BranchStatus, ActiveStatus
  <2> QED
    BY <1>1, <1>2, <2>1, SetStatusProperties
<1>4. task'[t] = "running"
  BY <1>1 DEF RunNext, CancelStale
<1> QED
  BY <1>2, <1>3, <1>4 DEF RunNext

\* What a submission leaves of the branches before it, and its own branch.
Submitted(s, kind, t) ==
    /\ Branches' = Branches \cup {t} /\ t \notin Branches /\ t \in Tasks
    /\ branch'[t].session = s /\ branch'[t].kind = kind
    /\ branch'[t].base = version[s]
    /\ branch'[t].depEnd = IF kind \in CurrentVersionKinds THEN Len(Whole(s)) ELSE Frontier(s)
    /\ \/ /\ branch'[t].status = "cancelled" /\ task'[t] = "none" /\ t \notin held'
       \/ /\ branch'[t].status = "queued" /\ t \in held'
          /\ task'[t] = "queued" \/ (task'[t] = "none" /\ "unreadable" \in Faults)
          /\ IsPrefix(branchTokens'[t], resident[s])
          /\ kind \notin CurrentVersionKinds => Len(branchTokens'[t]) = promoted[s]
    /\ inflight' # t
    /\ UNCHANGED <<transcriptVars, cacheVars, wedged>>

LEMMA NewBranch ==
    ASSUME RuntimeInv, [RuntimeNext]_vars, NEW t \in Branches', t \notin Branches
    PROVE  \E s \in Sessions, kind \in Kinds : Submitted(s, kind, t)
<1>1. /\ RuntimeTypeOK /\ branch \in Seq(Branch) /\ Branches = 1 .. Len(branch)
      /\ Len(branch) \in Nat /\ MaxTasks \in Nat
      /\ task \in [Tasks -> TaskStatus] /\ Numbered
      /\ inflight \in {0} \cup Branches
      /\ held \subseteq Branches
  BY RuntimeAssumption DEF RuntimeInv, RuntimeTypeOK, Branches
<1>2. ASSUME NEW s \in Sessions, NEW kind \in Kinds,
             SubmitTask(s, kind) \/ SubmitRefused(s, kind) \/ SubmitUnreadable(s, kind)
      PROVE  Submitted(s, kind, t)
  <2>1. /\ UNCHANGED <<transcriptVars, cacheVars, flightVars, wedged>>
        /\ Len(branch) < MaxTasks
    BY <1>2 DEF SubmitTask, SubmitRefused, SubmitUnreadable, Submission
  <2>2. NewTask \in Tasks
    BY <1>1, <2>1 DEF NewTask, Tasks
  <2>3. PICK status \in {"queued", "cancelled"} : CreateBranch(s, kind, status)
    BY <1>2 DEF SubmitTask, SubmitRefused, SubmitUnreadable
  <2>4. status \in BranchStatus
    BY DEF BranchStatus, ActiveStatus
  <2>5. /\ Branches' = Branches \cup {NewTask} /\ NewTask \in Nat /\ NewTask \notin Branches
        /\ branch'[NewTask].status = status
        /\ branch'[NewTask].session = s /\ branch'[NewTask].kind = kind
        /\ branch'[NewTask].base = version[s]
        /\ branch'[NewTask].depEnd = IF WithTail(kind) THEN Len(Whole(s)) ELSE Frontier(s)
    BY <1>1, <2>3, <2>4, CreateBranchProperties
  <2>6. t = NewTask
    BY <2>5
  <2>7. task[t] = "none"
    BY <1>1, <2>2, <2>5, <2>6 DEF Numbered
  <2>8. inflight' # t
    BY <1>1, <2>1, <2>5, <2>6 DEF flightVars, NewTask
  <2>9. CASE SubmitRefused(s, kind)
    <3>1. branch'[t].status = "cancelled"
      <4>1. CreateBranch(s, kind, "cancelled") /\ "cancelled" \in BranchStatus
        BY <2>9 DEF SubmitRefused, BranchStatus
      <4> QED
        BY <1>1, <2>6, <4>1, CreateBranchProperties
    <3>2. t \notin held' /\ task'[t] = "none"
      BY <1>1, <2>7, <2>9 DEF SubmitRefused, held
    <3> QED
      BY <2>1, <2>2, <2>5, <2>6, <2>8, <3>1, <3>2 DEF Submitted, WithTail
  <2>10. CASE SubmitTask(s, kind) \/ SubmitUnreadable(s, kind)
    <3>1. branch'[t].status = "queued"
      <4>1. CreateBranch(s, kind, "queued") /\ "queued" \in BranchStatus
        BY <2>10 DEF SubmitTask, SubmitUnreadable, BranchStatus, ActiveStatus
      <4> QED
        BY <1>1, <2>6, <4>1, CreateBranchProperties
    <3>2. Fork(s, kind)
      BY <2>10 DEF SubmitTask, SubmitUnreadable
    <3>3. /\ t \in held' /\ IsPrefix(branchTokens'[t], resident[s])
          /\ kind \notin CurrentVersionKinds => Len(branchTokens'[t]) = promoted[s]
      BY <2>6, <3>2, ForkProperties DEF WithTail
    <3>4. task'[t] = "queued" \/ (task'[t] = "none" /\ "unreadable" \in Faults)
      BY <1>1, <2>2, <2>6, <2>7, <2>10 DEF SubmitTask, SubmitUnreadable
    <3> QED
      BY <2>1, <2>2, <2>5, <2>6, <2>8, <3>1, <3>3, <3>4 DEF Submitted, WithTail
  <2> QED
    BY <1>2, <2>9, <2>10
<1>3. ASSUME Branches' = Branches PROVE FALSE
  BY <1>3
<1>4. CASE HandleEvent
  <2>1. CASE Refused
    BY <1>3, <2>1 DEF Refused, branchVars, Branches
  <2>2. ASSUME NEW s \in Sessions, NEW start \in Nat, NEW end \in Nat, Accepted(s, start, end)
        PROVE  FALSE
    BY <1>1, <1>3, <2>2, InvalidateType DEF Accepted
  <2> QED
    BY <1>4, <2>1, <2>2, EventEffect
<1>5. CASE \E u \in Tasks : RunNext(u)
  <2>1. PICK u \in Tasks : RunNext(u)
    BY <1>5
  <2>2. branch' = SetStatus({u}, "running")
    BY <2>1 DEF RunNext
  <2> QED
    BY <1>3, <2>2 DEF SetStatus, Branches
<1>6. CASE GenerateReturns
  BY <1>3, <1>6 DEF GenerateReturns, OutputAllowed, OutputWithheld, CancelBranches,
                    SetStatus, Branches
<1>7. CASE \E target \in 0 .. MaxTasks, ts \in SUBSET Tasks : ShedLoad(target, ts)
  BY <1>3, <1>7 DEF ShedLoad, CancelBranches, SetStatus, Branches
<1>8. CASE RunNextFindsNone \/ GenerateFails \/ UNCHANGED vars
  BY <1>3, <1>8 DEF RunNextFindsNone, GenerateFails, vars, runtimeVars, branchVars, Branches
<1> QED
  BY <1>2, <1>4, <1>5, <1>6, <1>7, <1>8 DEF RuntimeNext

-----------------------------------------------------------------------------
(***************************************************************************)
(* The two tables                                                          *)
(***************************************************************************)

\* A stale task never becomes current again.
LEMMA StaleStays ==
    ASSUME RuntimeInv, [RuntimeNext]_vars, NEW t \in Branches,
           branch[t].base <= version[branch[t].session]
    PROVE  /\ branch[t].session \in Sessions /\ branch'[t].session = branch[t].session
           /\ branch'[t].depEnd = branch[t].depEnd /\ branch[t].depEnd \in Nat
           /\ branch'[t].base = branch[t].base
           /\ branch'[t].base <= version'[branch'[t].session]
           /\ NeedsCurrent(t)' <=> NeedsCurrent(t)
           /\ IsStale(t) => IsStale(t)'
<1> DEFINE s == branch[t].session
           b == branch[t].base
<1>1. s \in Sessions /\ b \in Nat /\ branch[t].depEnd \in Nat
  BY BranchFields DEF RuntimeInv, RuntimeTypeOK
<1>2. SameOrigin(t)
  BY TaskMoves
<1>3. version[s] \in Nat /\ version'[s] \in Nat /\ version[s] <= version'[s]
  BY <1>1, HistoryStep
<1>4. NeedsCurrent(t)' <=> NeedsCurrent(t)
  BY <1>2 DEF SameOrigin, NeedsCurrent
<1>5. b <= version[s]
  OBVIOUS
<1>6. branch'[t].session = s /\ branch'[t].base = b /\ branch'[t].depEnd = branch[t].depEnd
  BY <1>2 DEF SameOrigin
<1>7. IsStale(t) <=> NeedsCurrent(t) /\ b # version[s]
  BY DEF IsStale
<1>8. IsStale(t)' <=> NeedsCurrent(t)' /\ b # version'[s]
  BY <1>6 DEF IsStale
<1> HIDE DEF s, b
<1>9. b <= version'[s] /\ (b # version[s] => b # version'[s])
  BY <1>1, <1>3, <1>5
<1> QED
  BY <1>1, <1>4, <1>6, <1>7, <1>8, <1>9 DEF s, b

LEMMA TrackedStays ==
    ASSUME RuntimeInv, [RuntimeNext]_vars, NEW t \in Branches, Tracked(t)
    PROVE  Tracked(t)'
<1>1. /\ t \in Tasks
      /\ t \in held' => t \in held
      /\ Moves(t)
  BY TaskMoves
<1>2. branch[t].base <= version[branch[t].session]
  BY DEF Tracked
<1>3. /\ branch[t].session \in Sessions /\ branch'[t].session = branch[t].session
      /\ branch'[t].depEnd = branch[t].depEnd /\ branch[t].depEnd \in Nat
      /\ branch'[t].base <= version'[branch'[t].session]
      /\ NeedsCurrent(t)' <=> NeedsCurrent(t)
      /\ IsStale(t) => IsStale(t)'
  BY <1>2, StaleStays
<1>4. Frontier(branch[t].session) \in Nat /\ Frontier(branch[t].session)' \in Nat
      /\ Frontier(branch[t].session) <= Frontier(branch[t].session)'
  BY <1>3, HistoryStep
<1>5. ~NeedsCurrent(t)' => branch'[t].depEnd <= Frontier(branch[t].session)'
  BY <1>3, <1>4 DEF Tracked
<1>6. \/ inflight' = inflight
      \/ inflight' # t
      \/ /\ inflight' = t /\ task'[t] = "running" /\ branch'[t].status = "running"
         /\ task[t] = "queued" /\ branch[t].status = "queued"
  <2>1. CASE UNCHANGED flightVars
    BY <2>1 DEF flightVars
  <2>2. CASE inflight' = 0
    <3>1. t # 0
      BY <1>1, RuntimeAssumption DEF Tasks
    <3> QED
      BY <2>2, <3>1
  <2>3. CASE \E u \in Tasks : RunNext(u)
    BY <2>3, RunNextProperties
  <2> QED
    BY <2>1, <2>2, <2>3, FlightStep
<1> DEFINE Status == branch[t].status
           Asked  == inflight' = t => /\ branch'[t].status # "queued"
                                      /\ branch'[t].status = "running" => task'[t] = "running"
           Agrees ==
    /\ ~NeedsCurrent(t) => branch'[t].status # "invalidated"
    /\ task'[t] \in ActiveStatus /\ ~IsStale(t)' => branch'[t].status = task'[t]
    /\ branch'[t].status = "completed" <=> task'[t] = "completed"
    /\ branch'[t].status = "running" => task'[t] # "queued"
    /\ Asked
    /\ t \in held' => branch'[t].status \in ActiveStatus
    /\ t \in held' => \/ task'[t] \in ActiveStatus
                      \/ task'[t] = "cancelled" /\ IsStale(t)' /\ branch'[t].status = "queued"
                      \/ task'[t] = "none" /\ "unreadable" \in Faults
<1>7. /\ ~NeedsCurrent(t) => Status # "invalidated"
      /\ ~NeedsCurrent(t) => branch[t].depEnd <= Frontier(branch[t].session)
      /\ task[t] \in ActiveStatus /\ ~IsStale(t) => Status = task[t]
      /\ Status = "completed" <=> task[t] = "completed"
      /\ Status = "running" => task[t] # "queued"
      /\ inflight = t => /\ Status # "queued"
                         /\ Status = "running" => task[t] = "running"
      /\ t \in held => Status \in ActiveStatus
      /\ t \in held => \/ task[t] \in ActiveStatus
                       \/ task[t] = "cancelled" /\ IsStale(t) /\ Status = "queued"
                       \/ task[t] = "none" /\ "unreadable" \in Faults
  BY DEF Tracked, IsActive
<1>8. CASE Rests(t)
  <2>1. Agrees
    BY <1>3, <1>6, <1>7, <1>8 DEF Rests
  <2> QED
    BY <1>3, <1>5, <2>1 DEF Tracked, IsActive
<1>9. CASE Outdated(t)
  <2>1. NeedsCurrent(t)
    BY <1>3, <1>4, <1>7, <1>9 DEF Outdated
  <2>2. IsStale(t)'
    <3>1. /\ version'[branch[t].session] = version[branch[t].session] + 1
          /\ version[branch[t].session] \in Nat
          /\ branch[t].base \in Nat /\ branch'[t].base = branch[t].base
      BY <1>2, <1>3, <1>9, HistoryStep, BranchFields, StaleStays
         DEF Outdated, RuntimeInv, RuntimeTypeOK
    <3>2. branch'[t].base # version'[branch[t].session]
      BY <1>2, <3>1
    <3> QED
      BY <1>3, <2>1, <3>2 DEF IsStale
  <2>3. /\ branch'[t].status = "invalidated" /\ t \notin held'
        /\ task'[t] = task[t] \/ task'[t] = "cancelled"
        /\ Status \in ActiveStatus
    BY <1>9 DEF Outdated, IsActive
  <2>4. Agrees
    BY <1>6, <1>7, <2>1, <2>2, <2>3 DEF ActiveStatus
  <2> QED
    BY <1>3, <1>5, <2>4 DEF Tracked, IsActive
<1>10. CASE Starts(t)
  <2>1. Agrees
    BY <1>7, <1>10 DEF Starts, ActiveStatus
  <2> QED
    BY <1>3, <1>5, <2>1 DEF Tracked, IsActive
<1>11. CASE FoundStale(t)
  <2>1. IsStale(t)' /\ task[t] = "queued" /\ task'[t] = "cancelled"
        /\ branch'[t].status = Status
    BY <1>3, <1>11 DEF FoundStale
  <2>2. Agrees
    BY <1>1, <1>6, <1>7, <2>1 DEF ActiveStatus
  <2> QED
    BY <1>3, <1>5, <2>2 DEF Tracked, IsActive
<1>12. CASE Completes(t)
  <2>1. Agrees
    BY <1>6, <1>7, <1>12 DEF Completes, ActiveStatus
  <2> QED
    BY <1>3, <1>5, <2>1 DEF Tracked, IsActive
<1>13. CASE GivenUp(t)
  <2>1. Agrees
    BY <1>6, <1>7, <1>13 DEF GivenUp, ActiveStatus, IsActive
  <2> QED
    BY <1>3, <1>5, <2>1 DEF Tracked, IsActive
<1> QED
  BY <1>1, <1>8, <1>9, <1>10, <1>11, <1>12, <1>13 DEF Moves

LEMMA TrackedStarts ==
    ASSUME RuntimeInv, [RuntimeNext]_vars, NEW t \in Branches', t \notin Branches
    PROVE  Tracked(t)'
<1>1. PICK s \in Sessions, kind \in Kinds : Submitted(s, kind, t)
  BY NewBranch
<1>2. version'[s] = version[s] /\ Frontier(s)' = Frontier(s) /\ version[s] \in Nat
      /\ Frontier(s) \in Nat
  <2>1. UNCHANGED transcriptVars
    BY <1>1 DEF Submitted
  <2> QED
    BY <2>1, HistoryStep DEF transcriptVars, sessionVars, Frontier
<1>3. /\ branch'[t].session = s /\ branch'[t].kind = kind
      /\ branch'[t].base = version'[s]
      /\ kind \notin CurrentVersionKinds => branch'[t].depEnd = Frontier(s)'
  BY <1>1, <1>2 DEF Submitted
<1>4. ~IsStale(t)'
  BY <1>3 DEF IsStale
<1>5. \/ branch'[t].status = "cancelled" /\ task'[t] = "none" /\ t \notin held'
      \/ /\ branch'[t].status = "queued"
         /\ task'[t] = "queued" \/ (task'[t] = "none" /\ "unreadable" \in Faults)
  BY <1>1 DEF Submitted
<1>6. inflight' # t
  BY <1>1 DEF Submitted
<1>7. /\ branch'[t].base <= version'[branch'[t].session]
      /\ ~NeedsCurrent(t)' => branch'[t].depEnd <= Frontier(branch[t].session)'
  <2>1. version'[s] \in Nat /\ version'[s] <= version'[s]
    BY <1>2
  <2>2. Len(committed'[s]) \in Nat /\ Len(committed'[s]) <= Len(committed'[s])
    BY <1>2 DEF Frontier
  <2>3. ~NeedsCurrent(t)' => branch'[t].depEnd = Len(committed'[s])
    BY <1>3 DEF NeedsCurrent, Frontier
  <2> QED
    BY <1>3, <2>1, <2>2, <2>3 DEF Frontier
<1> DEFINE Agrees ==
    /\ branch'[t].status # "invalidated"
    /\ task'[t] \in ActiveStatus => branch'[t].status = task'[t]
    /\ branch'[t].status = "completed" <=> task'[t] = "completed"
    /\ branch'[t].status # "running"
    /\ t \in held' => branch'[t].status \in ActiveStatus
    /\ t \in held' => \/ task'[t] \in ActiveStatus
                      \/ task'[t] = "none" /\ "unreadable" \in Faults
<1>8. Agrees
  BY <1>5 DEF ActiveStatus
<1> QED
  BY <1>6, <1>7, <1>8 DEF Tracked, IsActive

TaskInv == RuntimeInv /\ \A t \in Branches : Tracked(t)

LEMMA TaskInvariant == RuntimeSpec => []TaskInv
<1>1. RuntimeInit => TaskInv
  <2>1. RuntimeInit => Branches = {}
    BY DEF RuntimeInit, Branches
  <2> QED
    BY <2>1, RuntimeInitInv DEF TaskInv
<1>2. TaskInv /\ [RuntimeNext]_vars => TaskInv'
  <2> SUFFICES ASSUME TaskInv, [RuntimeNext]_vars PROVE TaskInv'
    OBVIOUS
  <2>1. RuntimeInv /\ RuntimeInv'
    BY RuntimeStepInv DEF TaskInv
  <2>2. ASSUME NEW t \in Branches' PROVE Tracked(t)'
    <3>1. CASE t \in Branches
      BY <2>1, <3>1, TrackedStays DEF TaskInv
    <3>2. CASE t \notin Branches
      BY <2>1, <2>2, <3>2, TrackedStarts
    <3> QED
      BY <3>1, <3>2
  <2> QED
    BY <2>1, <2>2 DEF TaskInv
<1> QED
  BY <1>1, <1>2, PTL DEF RuntimeSpec

(***************************************************************************)
(* The scheduler's table and the branch graph's agree on every task that   *)
(* is not stale, whatever fails and however calls overlap: run_next never  *)
(* starts or completes a task in one of them alone (TablesAgree).          *)
(***************************************************************************)
THEOREM TablesStayTogether == RuntimeSpec => []TablesAgree
<1>1. TaskInv => TablesAgree
  BY DEF TaskInv, Tracked, TablesAgree, ActiveStatus
<1> QED
  BY <1>1, TaskInvariant, PTL

(***************************************************************************)
(* No revision of the tail invalidates a memory task, a summary or a user  *)
(* query: their dependency ends at the commit frontier of their creation,  *)
(* and no diff starts before the frontier (SpineTasksSurvive).             *)
(***************************************************************************)
THEOREM SpineTasksAreSafe == RuntimeSpec => []SpineTasksSurvive
<1>1. TaskInv => SpineTasksSurvive
  BY DEF TaskInv, Tracked, SpineTasksSurvive
<1> QED
  BY <1>1, TaskInvariant, PTL

(***************************************************************************)
(* References outlive their task only where pop_next found it stale, and   *)
(* where submit_task raised half way (NothingElseLeaks).                   *)
(***************************************************************************)
THEOREM LeaksAreKnown == RuntimeSpec => []NothingElseLeaks
<1>1. TaskInv => NothingElseLeaks
  BY DEF TaskInv, RuntimeInv, RuntimeTypeOK, Branches, Tracked, NothingElseLeaks
<1> QED
  BY <1>1, TaskInvariant, PTL

(***************************************************************************)
(* A decided task stays decided in both tables, and its branch is never    *)
(* given tokens again (DecidedForGood).                                    *)
(***************************************************************************)
THEOREM DecisionsAreFinal == RuntimeSpec => DecidedForGood
<1> DEFINE Final == \A t \in Branches :
              /\ task[t] \in Terminal => task'[t] = task[t]
              /\ ~IsActive(t) => branch'[t].status = branch[t].status /\ t \notin held'
<1>1. TaskInv /\ [RuntimeNext]_vars => [Final]_vars
  <2> SUFFICES ASSUME TaskInv, [RuntimeNext]_vars, NEW t \in Branches
               PROVE  /\ task[t] \in Terminal => task'[t] = task[t]
                      /\ ~IsActive(t) => branch'[t].status = branch[t].status /\ t \notin held'
    OBVIOUS
  <2>1. /\ RuntimeInv /\ Tracked(t)
        /\ branch[t].status \in BranchStatus
    BY BranchFields DEF TaskInv, RuntimeInv, RuntimeTypeOK
  <2>2. Moves(t) /\ (t \in held' => t \in held)
    BY <2>1, TaskMoves
  <2>3. ~IsActive(t) => t \notin held'
    BY <2>1, <2>2 DEF Tracked
  <2>4. /\ branch[t].status = "completed" <=> task[t] = "completed"
        /\ inflight = t => /\ branch[t].status # "queued"
                           /\ branch[t].status = "running" => task[t] = "running"
    BY <2>1 DEF Tracked
  <2>5. CASE Completes(t)
    <3>1. branch[t].status \notin {"cancelled", "invalidated"} /\ inflight = t
          /\ branch'[t].status = "completed" /\ task'[t] = "completed"
      BY <2>5 DEF Completes, Allows
    <3>2. branch[t].status \in {"running", "completed"}
      BY <2>1, <2>4, <3>1 DEF BranchStatus, ActiveStatus
    <3> QED
      BY <2>3, <2>4, <3>1, <3>2 DEF Terminal, IsActive, ActiveStatus
  <2>6. CASE Rests(t) \/ Outdated(t)
    BY <2>3, <2>6 DEF Rests, Outdated, Terminal, ActiveStatus
  <2>7. CASE Starts(t) \/ FoundStale(t)
    BY <2>3, <2>7 DEF Starts, FoundStale, Terminal, ActiveStatus, IsActive
  <2>8. CASE GivenUp(t)
    BY <2>3, <2>8 DEF GivenUp, Terminal, ActiveStatus
  <2> QED
    BY <2>2, <2>5, <2>6, <2>7, <2>8 DEF Moves
<1> QED
  BY <1>1, TaskInvariant, PTL DEF RuntimeSpec, DecidedForGood

\* A transcript changes only when an event is accepted.
LEMMA OnlyEventsRewrite ==
    ASSUME RuntimeInv, [RuntimeNext]_vars
    PROVE  \/ UNCHANGED <<committed, tentative>>
           \/ \E s \in Sessions, start, end \in Nat : Accepted(s, start, end)
<1>1. CASE HandleEvent
  BY <1>1, EventEffect DEF Refused
<1>2. UNCHANGED transcriptVars => UNCHANGED <<committed, tentative>>
  BY DEF transcriptVars, sessionVars
<1>3. ASSUME NEW s \in Sessions, NEW kind \in Kinds,
             SubmitTask(s, kind) \/ SubmitRefused(s, kind) \/ SubmitUnreadable(s, kind)
      PROVE  UNCHANGED transcriptVars
  BY <1>3 DEF SubmitTask, SubmitRefused, SubmitUnreadable, Submission
<1>4. CASE (\E t \in Tasks : RunNext(t)) \/ RunNextFindsNone
  BY <1>2, <1>4 DEF RunNext, RunNextFindsNone
<1>5. CASE GenerateReturns \/ GenerateFails
  BY <1>2, <1>5 DEF GenerateReturns, OutputAllowed, OutputWithheld, GenerateFails, Landed
<1>6. CASE \E target \in 0 .. MaxTasks, ts \in SUBSET Tasks : ShedLoad(target, ts)
  BY <1>2, <1>6 DEF ShedLoad
<1>7. CASE UNCHANGED vars
  BY <1>2, <1>7 DEF vars
<1> QED
  BY <1>1, <1>2, <1>3, <1>4, <1>5, <1>6, <1>7 DEF RuntimeNext

(***************************************************************************)
(* An event that changes a session leaves no branch of it with a task of   *)
(* an older version (EventClearsStaleBranches).                            *)
(***************************************************************************)
THEOREM EventsClearStaleBranches == RuntimeSpec => EventClearsStaleBranches
<1> DEFINE Cleared == \A s \in Sessions :
          Whole(s)' # Whole(s) =>
              \A t \in held' : branch[t].session = s =>
                  branch[t].kind \notin CurrentVersionKinds
<1>1. TaskInv /\ TaskInv' /\ [RuntimeNext]_vars => [Cleared]_vars
  <2> SUFFICES ASSUME TaskInv, TaskInv', [RuntimeNext]_vars,
                      NEW s \in Sessions, Whole(s)' # Whole(s),
                      NEW t \in held', branch[t].session = s,
                      NeedsCurrent(t)
               PROVE  FALSE
    BY DEF NeedsCurrent
  <2>1. RuntimeInv /\ RuntimeTypeOK /\ branch \in Seq(Branch)
    BY DEF TaskInv, RuntimeInv, RuntimeTypeOK
  <2>2. ~UNCHANGED <<committed, tentative>>
    BY DEF Whole
  <2>3. PICK u \in Sessions, start \in Nat, end \in Nat : Accepted(u, start, end)
    BY <2>1, <2>2, OnlyEventsRewrite
  <2>4. u = s
    BY <2>3 DEF Accepted, Whole
  <2>5. /\ Invalidate(s, start, end)
        /\ held' = held \ Invalidated(s, start, end)
    BY <2>1, <2>3, <2>4, InvalidateType DEF Accepted
  <2>6. t \in held /\ t \notin Invalidated(s, start, end)
    BY <2>5
  <2>7. t \in Branches
    BY <2>1, <2>6 DEF RuntimeTypeOK, Branches
  <2>8. IsActive(t) /\ branch[t].base <= version[s]
    BY <2>6, <2>7 DEF TaskInv, Tracked
  <2>9. branch[t].base \in Nat /\ version[s] \in Nat
    BY <2>1, <2>7, BranchFields DEF RuntimeTypeOK, TypeOK
  <2>10. branch[t].base # version[s] + 1
    BY <2>8, <2>9
  <2> QED
    BY <2>6, <2>7, <2>8, <2>10 DEF Invalidated
<1> QED
  BY <1>1, TaskInvariant, PTL DEF RuntimeSpec, EventClearsStaleBranches

(***************************************************************************)
(* While generate answers, a task is RUNNING only until it does, with any  *)
(* number of sessions and tasks and whatever overlaps the call             *)
(* (RunningIsInFlight): with the two tables, a task that is neither in     *)
(* flight nor decided waits in the queue, where run_next or load shedding  *)
(* finds it.                                                               *)
(***************************************************************************)
THEOREM RunningTasksAreAwaited ==
    ASSUME "engine" \notin Faults
    PROVE  RuntimeSpec => []RunningIsInFlight
<1>1. RuntimeInit => RunningIsInFlight
  BY DEF RuntimeInit, RunningIsInFlight
<1>2. RuntimeInv /\ RuntimeInv' /\ RunningIsInFlight /\ [RuntimeNext]_vars
        => RunningIsInFlight'
  <2> SUFFICES ASSUME RuntimeInv, RuntimeInv', RunningIsInFlight, [RuntimeNext]_vars,
                      NEW t \in Tasks, task'[t] = "running"
               PROVE  inflight' = t
    BY DEF RunningIsInFlight
  <2>1. t \in Branches'
    BY DEF RuntimeInv, Numbered
  <2>2. t \in Branches
    <3>1. SUFFICES ASSUME t \notin Branches PROVE FALSE
      OBVIOUS
    <3>2. PICK s \in Sessions, kind \in Kinds : Submitted(s, kind, t)
      BY <2>1, <3>1, NewBranch
    <3> QED
      BY <3>2 DEF Submitted
  <2>3. Starts(t) \/ task[t] = "running"
    <3>1. Moves(t)
      BY <2>2, TaskMoves
    <3> QED
      BY <3>1 DEF Moves, Rests, Outdated, FoundStale, Completes, GivenUp
  <2>4. CASE Starts(t)
    BY <2>4 DEF Starts
  <2>5. CASE task[t] = "running"
    <3>1. inflight = t /\ t # 0
      BY <2>5 DEF RunningIsInFlight, Tasks
    <3>2. CASE UNCHANGED flightVars
      BY <3>1, <3>2 DEF flightVars
    <3>3. ~GenerateReturns
      <4>1. task \in [Tasks -> TaskStatus]
        BY DEF RuntimeInv, RuntimeTypeOK
      <4> QED
        BY <3>1, <4>1 DEF GenerateReturns, OutputAllowed, OutputWithheld, ActiveStatus
    <3>4. ~GenerateFails
      BY DEF GenerateFails
    <3>5. \A u \in Tasks : ~RunNext(u)
      BY <3>1 DEF RunNext
    <3> QED
      BY <3>2, <3>3, <3>4, <3>5, FlightStep
  <2> QED
    BY <2>3, <2>4, <2>5
<1> QED
  BY <1>1, <1>2, RuntimeInvariant, PTL DEF RuntimeSpec

(***************************************************************************)
(* While operations wait for a running generate, its output is allowed     *)
(* when it returns: nothing but the answer can come between                *)
(* (LockMakesGateRedundant).                                               *)
(***************************************************************************)
THEOREM GateIsRedundantBehindTheLock == RuntimeSpec => []LockMakesGateRedundant
<1>1. RuntimeInit => LockMakesGateRedundant
  BY DEF RuntimeInit, LockMakesGateRedundant
<1>2. TaskInv /\ TaskInv' /\ LockMakesGateRedundant /\ [RuntimeNext]_vars
        => LockMakesGateRedundant'
  <2> SUFFICES ASSUME TaskInv, TaskInv', LockMakesGateRedundant, [RuntimeNext]_vars,
                      ~Overlap, inflight' # 0
               PROVE  Allows(inflight)'
    BY DEF LockMakesGateRedundant
  <2>1. RuntimeInv
    BY DEF TaskInv
  <2>2. CASE UNCHANGED vars
    BY <2>2 DEF LockMakesGateRedundant, Allows, IsStale, NeedsCurrent, Frontier,
                vars, runtimeVars, branchVars, flightVars, transcriptVars, sessionVars
  <2>3. ASSUME NEW t \in Tasks, RunNext(t) PROVE Allows(inflight)'
    <3>1. /\ t \in Branches /\ inflight' = t /\ branch'[t].status = "running"
          /\ ~IsStale(t) /\ UNCHANGED transcriptVars
      BY <2>1, <2>3, RunNextProperties
    <3>2. SameOrigin(t) /\ t \in Branches'
      BY <2>1, <3>1, TaskMoves
    <3>3. ~IsStale(t)'
      BY <3>1, <3>2 DEF SameOrigin, IsStale, NeedsCurrent, transcriptVars, sessionVars
    <3>4. Tracked(t)'
      BY <3>2 DEF TaskInv
    <3> QED
      BY <3>1, <3>3, <3>4 DEF Allows, Tracked
  <2>4. ASSUME Unlocked PROVE inflight = 0
    BY <2>4 DEF Unlocked
  <2>5. CASE inflight = 0
    <3>1. CASE UNCHANGED flightVars
      BY <2>5, <3>1 DEF flightVars
    <3> QED
      BY <2>3, <2>5, <3>1, FlightStep
  <2>6. CASE inflight # 0
    <3>1. ~HandleEvent
      <4>1. ASSUME NEW s \in Sessions, NEW g \in Segments, NEW r \in 0 .. MaxRevision
            PROVE  ~EventRefused(s, g, r) /\ ~MetadataEvent(s, g, r)
        BY <2>4, <2>6 DEF EventRefused, MetadataEvent
      <4>2. ASSUME NEW s \in Sessions, NEW g \in Segments, NEW r \in 0 .. MaxRevision,
                   NEW text \in Texts, NEW final \in BOOLEAN, ContentStep(s, g, r, text, final)
            PROVE  FALSE
        BY <2>4, <2>6, <4>2, ContentStepIsContent DEF Content
      <4> QED
        BY <4>1, <4>2 DEF HandleEvent, ContentStep
    <3>2. ASSUME NEW s \in Sessions, NEW kind \in Kinds
          PROVE  ~SubmitTask(s, kind) /\ ~SubmitRefused(s, kind) /\ ~SubmitUnreadable(s, kind)
      BY <2>4, <2>6 DEF SubmitTask, SubmitRefused, SubmitUnreadable, Submission
    <3>3. (\A t \in Tasks : ~RunNext(t)) /\ ~RunNextFindsNone
      BY <2>6 DEF RunNext, RunNextFindsNone
    <3>4. ~GenerateReturns /\ ~GenerateFails
      BY DEF GenerateReturns, GenerateFails, OutputAllowed, OutputWithheld, Landed
    <3>5. \A target \in 0 .. MaxTasks, ts \in SUBSET Tasks : ~ShedLoad(target, ts)
      BY <2>4, <2>6 DEF ShedLoad
    <3> QED
      BY <2>2, <3>1, <3>2, <3>3, <3>4, <3>5 DEF RuntimeNext
  <2> QED
    BY <2>5, <2>6
<1> QED
  BY <1>1, <1>2, TaskInvariant, PTL DEF RuntimeSpec

-----------------------------------------------------------------------------
(***************************************************************************)
(* Fresh outputs                                                           *)
(***************************************************************************)

LEMMA PromptedStays ==
    ASSUME TaskInv, [RuntimeNext]_vars, NEW t \in Branches, Prompted(t)
    PROVE  Prompted(t)'
<1> DEFINE s == branch[t].session
<1>1. RuntimeInv /\ Tracked(t) /\ prompt \in Seq(Nat)
  BY DEF TaskInv, RuntimeInv, RuntimeTypeOK
<1>2. /\ s \in Sessions /\ branch'[t].session = s
      /\ branch'[t].depEnd = branch[t].depEnd /\ branch[t].depEnd \in Nat
      /\ branch'[t].base = branch[t].base
      /\ NeedsCurrent(t)' <=> NeedsCurrent(t)
      /\ IsStale(t) => IsStale(t)'
      /\ branch[t].base <= version[s]
  BY <1>1, StaleStays DEF Tracked
<1>3. /\ version[s] \in Nat /\ version'[s] \in Nat /\ version[s] <= version'[s]
      /\ version'[s] = version[s] => /\ committed'[s] \o tentative'[s] = Whole(s)
                                     /\ committed'[s] = Spine(s)
      /\ Spine(s) \in Seq(Nat) /\ committed'[s] \in Seq(Nat)
      /\ IsPrefix(Spine(s), committed'[s])
  <2>1. ASSUME NEW u \in Sessions
        PROVE  /\ version[u] \in Nat /\ version'[u] \in Nat /\ version[u] <= version'[u]
               /\ version'[u] = version[u] => /\ committed'[u] \o tentative'[u] = Whole(u)
                                              /\ committed'[u] = Spine(u)
               /\ Spine(u) \in Seq(Nat) /\ committed'[u] \in Seq(Nat)
               /\ IsPrefix(Spine(u), committed'[u])
    BY <1>1, <2>1, HistoryStep DEF Whole, Spine
  <2> QED
    BY <1>2, <2>1
<1>4. Current(t)' => /\ Current(t)
                     /\ committed'[s] \o tentative'[s] = Whole(s)
  <2>1. SUFFICES ASSUME Current(t)' PROVE version'[s] = version[s] /\ Current(t)
    BY <1>3
  <2>2. NeedsCurrent(t) /\ ~IsStale(t)
    BY <1>2, <2>1 DEF Current
  <2>3. branch[t].base = version'[s] /\ branch[t].base = version[s]
    BY <1>2, <2>1, <2>2 DEF Current, IsStale
  <2> QED
    BY <2>2, <2>3 DEF Current
<1>5. Current(t)' => branch'[t].depEnd = Len(committed'[s] \o tentative'[s])
  BY <1>2, <1>4 DEF Prompted
<1> DEFINE Asked == /\ Current(t)' => prompt' = committed'[s] \o tentative'[s]
                    /\ ~NeedsCurrent(t)' => /\ IsPrefix(prompt', committed'[s])
                                            /\ branch'[t].depEnd <= Len(prompt')
<1>6. ASSUME inflight' = t PROVE Asked
  <2>1. CASE UNCHANGED flightVars
    <3>1. inflight = t /\ prompt' = prompt
      BY <1>6, <2>1 DEF flightVars
    <3>2. ~NeedsCurrent(t) => IsPrefix(prompt, committed'[s])
      BY <1>1, <1>3, <3>1, PrefixTransitive DEF Prompted
    <3> QED
      BY <1>2, <1>4, <3>1, <3>2 DEF Prompted
  <2>2. ASSUME RunNext(t), t \in Tasks PROVE Asked
    <3>1. /\ prompt' = IF NeedsCurrent(t) THEN Whole(s) ELSE Spine(s)
          /\ UNCHANGED transcriptVars
      BY <1>1, <2>2, RunNextProperties
    <3>2. committed' = committed
      BY <3>1 DEF transcriptVars, sessionVars
    <3>3. ~NeedsCurrent(t) => /\ IsPrefix(prompt', committed'[s])
                              /\ branch'[t].depEnd <= Len(prompt')
      BY <1>1, <1>2, <1>3, <3>1, <3>2, PrefixProperties DEF Tracked, Spine, Frontier
    <3> QED
      BY <1>2, <1>4, <3>1, <3>3 DEF Current
  <2>3. t # 0
    BY <1>1, TaskMoves, RuntimeAssumption DEF Tasks
  <2>4. ASSUME NEW u \in Tasks, RunNext(u) PROVE u = t
    BY <1>1, <1>6, <2>4, RunNextProperties
  <2> QED
    BY <1>6, <2>1, <2>2, <2>3, <2>4, FlightStep
<1> HIDE DEF s
<1>7. branch'[t].session = s
  BY <1>2
<1> QED
  BY <1>5, <1>6, <1>7 DEF Prompted, Whole, Spine

LEMMA PromptedStarts ==
    ASSUME RuntimeInv, [RuntimeNext]_vars, NEW t \in Branches', t \notin Branches
    PROVE  Prompted(t)'
<1>1. PICK s \in Sessions, kind \in Kinds : Submitted(s, kind, t)
  BY NewBranch
<1>2. /\ inflight' # t
      /\ branch'[t].session = s /\ branch'[t].kind = kind
      /\ kind \in CurrentVersionKinds => branch'[t].depEnd = Len(Whole(s))
      /\ UNCHANGED <<committed, tentative>>
  BY <1>1 DEF Submitted, transcriptVars, sessionVars
<1> QED
  BY <1>2 DEF Prompted, Current, NeedsCurrent, Whole

FreshInv == TaskInv /\ \A t \in Branches : Prompted(t)

LEMMA FreshInvariant == RuntimeSpec => []FreshInv
<1>1. RuntimeInit => \A t \in Branches : Prompted(t)
  BY DEF RuntimeInit, Branches
<1>2. TaskInv /\ (\A t \in Branches : Prompted(t)) /\ [RuntimeNext]_vars
        => (\A t \in Branches : Prompted(t))'
  <2> SUFFICES ASSUME TaskInv, \A t \in Branches : Prompted(t), [RuntimeNext]_vars,
                      NEW t \in Branches'
               PROVE  Prompted(t)'
    OBVIOUS
  <2>1. CASE t \in Branches
    BY <2>1, PromptedStays
  <2>2. CASE t \notin Branches
    BY <2>2, PromptedStarts DEF TaskInv
  <2> QED
    BY <2>1, <2>2
<1> QED
  BY <1>1, <1>2, TaskInvariant, PTL DEF RuntimeSpec, FreshInv

(***************************************************************************)
(* `stale_output_escape` remains zero: an output is allowed only while the *)
(* transcript its prompt was built from still stands, as far as the task   *)
(* depends on it, however many events overlapped its generation            *)
(* (OutputIsFresh).                                                        *)
(***************************************************************************)
THEOREM AllowedOutputsAreFresh == RuntimeSpec => OutputIsFresh
<1> DEFINE FreshOutput == \A t \in Branches :
          task[t] # "completed" /\ task'[t] = "completed" =>
              LET now == Whole(branch[t].session)
              IN  /\ IsPrefix(prompt, now)
                  /\ branch[t].depEnd <= Len(prompt)
                  /\ NeedsCurrent(t) => prompt = now
<1>1. FreshInv /\ [RuntimeNext]_vars => [FreshOutput]_vars
  <2> SUFFICES ASSUME FreshInv, [RuntimeNext]_vars, NEW t \in Branches,
                      task[t] # "completed", task'[t] = "completed"
               PROVE  /\ IsPrefix(prompt, Whole(branch[t].session))
                      /\ branch[t].depEnd <= Len(prompt)
                      /\ NeedsCurrent(t) => prompt = Whole(branch[t].session)
    OBVIOUS
  <2>1. /\ RuntimeInv /\ TypeOK /\ Prompted(t) /\ prompt \in Seq(Nat)
        /\ branch[t].session \in Sessions /\ branch[t].depEnd \in Nat
    BY BranchFields DEF FreshInv, TaskInv, RuntimeInv, RuntimeTypeOK
  <2>2. Moves(t)
    BY <2>1, TaskMoves
  <2>3. Completes(t)
    BY <2>2 DEF Moves, Rests, Outdated, Starts, FoundStale, GivenUp, ActiveStatus
  <2>4. inflight = t /\ ~IsStale(t)
    BY <2>3 DEF Completes, Allows
  <2>5. /\ Whole(branch[t].session) \in Seq(Nat) /\ Spine(branch[t].session) \in Seq(Nat)
        /\ IsPrefix(Spine(branch[t].session), Whole(branch[t].session))
    BY <2>1, WholeType
  <2>6. CASE NeedsCurrent(t)
    <3>1. /\ prompt = Whole(branch[t].session)
          /\ branch[t].depEnd = Len(prompt)
      BY <2>1, <2>4, <2>6 DEF Prompted, Current
    <3>2. IsPrefix(prompt, prompt) /\ Len(prompt) <= Len(prompt)
      BY <2>1, PrefixProperties
    <3> QED
      BY <3>1, <3>2
  <2>7. CASE ~NeedsCurrent(t)
    BY <2>1, <2>4, <2>5, <2>7, PrefixTransitive DEF Prompted
  <2> QED
    BY <2>6, <2>7
<1> QED
  BY <1>1, FreshInvariant, PTL DEF RuntimeSpec, OutputIsFresh

-----------------------------------------------------------------------------
(***************************************************************************)
(* What the cache and the branches hold, while every text can be encoded.  *)
(***************************************************************************)

\* Then every active branch has a task, and no cancellation is interrupted.
LEMMA NotOrphanedStays ==
    ASSUME TaskInv, [RuntimeNext]_vars, NEW t \in Branches, Tasked(t)
    PROVE  Tasked(t)'
<1>1. Moves(t)
  BY TaskMoves DEF TaskInv
<1> QED
  BY <1>1 DEF Moves, Rests, Outdated, Starts, FoundStale, Completes, GivenUp,
              Tasked, IsActive, Orphan, ActiveStatus

LEMMA NotOrphanedStarts ==
    ASSUME "unreadable" \notin Faults,
           RuntimeInv, [RuntimeNext]_vars, NEW t \in Branches', t \notin Branches
    PROVE  Tasked(t)'
<1>1. PICK s \in Sessions, kind \in Kinds : Submitted(s, kind, t)
  BY NewBranch
<1> QED
  BY <1>1 DEF Submitted, Tasked, IsActive, Orphan, ActiveStatus

\* A rollback of a cache that is a prefix of the transcript leaves a prefix of
\* the new transcript.
LEMMA RemainingIsPrefix ==
    ASSUME RuntimeInv, NEW s \in Sessions, NEW text \in Texts,
           IsPrefix(resident[s], Whole(s))
    PROVE  IsPrefix(Remaining(s, text), Expected(s, text))
<1> DEFINE rest  == Remaining(s, text)
           new   == Expected(s, text)
           old   == Whole(s)
           start == ChangedStart(s, text)
<1>1. /\ RuntimeTypeOK /\ TypeOK /\ old \in Seq(Nat) /\ resident[s] \in Seq(Nat)
  BY WholeType DEF RuntimeInv, RuntimeTypeOK
<1>2. new \in Seq(Nat)
  <2>1. committed[s] \in Seq(Nat) /\ NewTail(s, text) \in Seq(Nat)
    BY <1>1, NewTailType DEF TypeOK
  <2> QED
    BY <2>1 DEF Expected
<1>3. /\ rest \in Seq(Nat) /\ Len(rest) \in Nat /\ Len(rest) <= start
      /\ IsPrefix(rest, resident[s])
  BY <1>1, RemainingProperties
<1>4. /\ start \in Nat /\ start <= Len(new)
      /\ \A i \in 1 .. start : old[i] = new[i]
  BY <1>1, ChangeProperties
<1>5. IsPrefix(rest, old)
  BY <1>1, <1>3, PrefixTransitive
<1> HIDE DEF rest, new, old, start
<1>6. Len(rest) <= Len(old) /\ \A i \in 1 .. Len(rest) : rest[i] = old[i]
  BY <1>1, <1>3, <1>5, PrefixByIndex
<1>7. Len(new) \in Nat
  BY <1>2
<1>8. Len(rest) <= Len(new) /\ \A i \in 1 .. Len(rest) : rest[i] = new[i]
  BY <1>3, <1>4, <1>6, <1>7
<1> QED
  BY <1>2, <1>3, <1>8, PrefixByIndex DEF rest, new

LEMMA PrefixedStays ==
    ASSUME RuntimeInv, [RuntimeNext]_vars,
           \A t \in Branches : Tasked(t),
           \A s \in Sessions : Prefixed(s)
    PROVE  \A s \in Sessions : Prefixed(s)'
<1>1. CASE UNCHANGED <<committed, tentative, cacheVars, engineVars, wedged>>
  BY <1>1 DEF Prefixed, Whole, cacheVars
<1>2. ASSUME NEW s \in Sessions, NEW g \in Segments, NEW r \in 0 .. MaxRevision,
             NEW text \in Texts, NEW final \in BOOLEAN, ContentStep(s, g, r, text, final),
             NEW u \in Sessions
      PROVE  Prefixed(u)'
  <2>1. /\ Content(s, g, r, text, final) /\ ContentEvent(s, g, r, text, final)
    BY <1>2, ContentStepIsContent
  <2>2. /\ Expected(s, text) \in Seq(Nat) /\ Whole(s)' = Expected(s, text)
        /\ u # s => committed'[u] = committed[u] /\ tentative'[u] = tentative[u]
    BY <2>1, ContentEffect DEF RuntimeInv, RuntimeTypeOK
  <2>3. IsPrefix(Remaining(s, text), Expected(s, text))
    BY RemainingIsPrefix DEF Prefixed
  <2>4. ~Interrupted(s, ChangedStart(s, text), ChangedEnd(s, text))
    BY DEF Interrupted, Invalidated, Tasked
  <2>5. wedged' = wedged
    BY <1>2, <2>3, <2>4 DEF ContentStep, ContentInterrupted, ContentAsserts, ContentKept,
                            ContentPublished, ContentUnpublished
  <2>6. \/ resident' = [resident EXCEPT ![s] = Remaining(s, text)]
        \/ resident' = [resident EXCEPT ![s] = Expected(s, text)]
    BY <1>2, <2>3, <2>4 DEF ContentStep, ContentInterrupted, ContentAsserts, ContentKept,
                            ContentPublished, ContentUnpublished
  <2>7. resident \in [Sessions -> Seq(Nat)]
    BY DEF RuntimeInv, RuntimeTypeOK
  <2>8. CASE u = s
    <3>1. IsPrefix(Expected(s, text), Expected(s, text))
      BY <2>2, PrefixProperties
    <3>2. IsPrefix(resident'[s], Expected(s, text))
      BY <2>3, <2>6, <2>7, <3>1
    <3> QED
      BY <2>2, <2>5, <2>8, <3>2 DEF Prefixed
  <2>9. CASE u # s
    <3>1. resident'[u] = resident[u]
      BY <2>6, <2>7, <2>9
    <3> QED
      BY <2>2, <2>5, <2>9, <3>1 DEF Prefixed, Whole
  <2> QED
    BY <2>8, <2>9
<1> QED
  BY <1>1, <1>2, OnlyContentWrites

\* An event that spares an active branch starts to change after what it holds.
LEMMA HeldStays ==
    ASSUME TaskInv, [RuntimeNext]_vars, NEW t \in Branches, HeldIsCurrent(t)
    PROVE  HeldIsCurrent(t)'
<1> SUFFICES ASSUME t \in held'
             PROVE  (/\ IsPrefix(branchTokens[t], Whole(branch[t].session))
                     /\ Len(branchTokens[t]) <= branch[t].depEnd)'
  BY DEF HeldIsCurrent
<1> DEFINE s == branch[t].session
           a == branchTokens[t]
<1>1. RuntimeInv /\ RuntimeTypeOK /\ TypeOK /\ Tracked(t)
  BY DEF TaskInv, RuntimeInv, RuntimeTypeOK
<1>2. /\ t \in held /\ branchTokens'[t] = a
      /\ branch'[t].session = s /\ branch'[t].depEnd = branch[t].depEnd
  BY <1>1, TaskMoves DEF SameOrigin
<1>3. s \in Sessions /\ branch[t].depEnd \in Nat /\ a \in Seq(Nat) /\ Len(a) \in Nat
  BY <1>1, <1>2, BranchFields DEF RuntimeTypeOK
<1>4. IsPrefix(a, Whole(s)) /\ Len(a) <= branch[t].depEnd
  BY <1>2 DEF HeldIsCurrent
<1>5. IsActive(t)
  BY <1>1, <1>2 DEF Tracked
<1>6. IsPrefix(a, committed'[s] \o tentative'[s])
  <2>1. CASE UNCHANGED <<committed, tentative>>
    BY <1>4, <2>1 DEF Whole
  <2>2. ASSUME NEW u \in Sessions, NEW start \in Nat, NEW end \in Nat, Accepted(u, start, end)
        PROVE  IsPrefix(a, committed'[s] \o tentative'[s])
    <3>1. CASE u # s
      BY <1>3, <1>4, <2>2, <3>1 DEF Accepted, Whole
    <3>2. CASE u = s
      <4> DEFINE old == Whole(s)
                 new == committed'[s] \o tentative'[s]
      <4>1. t \notin Invalidated(s, start, end)
        BY <1>1, <2>2, <3>2, InvalidateType DEF Accepted
      <4>2. ~(start < end /\ 0 < end /\ start < branch[t].depEnd)
        BY <1>5, <4>1 DEF Invalidated
      <4>3. /\ start <= end /\ start <= Len(new)
            /\ \A i \in 1 .. start : new[i] = old[i]
            /\ start = end => new = old
        BY <2>2, <3>2 DEF Accepted, Whole
      <4>4. old \in Seq(Nat) /\ new \in Seq(Nat)
        <5>1. TypeOK'
          BY <1>1, RuntimeStepInv DEF RuntimeInv, RuntimeTypeOK
        <5> QED
          BY <1>1, <1>3, <5>1, WholeType DEF TypeOK, Whole
      <4> HIDE DEF s, a, old, new
      <4>5. CASE start = end
        BY <1>4, <4>3, <4>5 DEF old, new
      <4>6. CASE branch[t].depEnd <= start
        <5>1. Len(a) <= start /\ Len(new) \in Nat /\ Len(old) \in Nat
          BY <1>3, <1>4, <4>4, <4>6
        <5>2. Len(a) <= Len(old) /\ \A i \in 1 .. Len(a) : a[i] = old[i]
          BY <1>3, <1>4, <4>4, PrefixByIndex DEF old
        <5>3. Len(a) <= Len(new) /\ \A i \in 1 .. Len(a) : a[i] = new[i]
          BY <1>3, <4>3, <5>1, <5>2
        <5>4. IsPrefix(a, new)
          BY <1>3, <4>4, <5>3, PrefixByIndex
        <5> QED
          BY <5>4 DEF new
      <4> QED
        BY <1>3, <4>2, <4>3, <4>5, <4>6
    <3> QED
      BY <3>1, <3>2
  <2> QED
    BY <1>1, <2>1, <2>2, OnlyEventsRewrite
<1> QED
  BY <1>2, <1>4, <1>6 DEF Whole

LEMMA HeldStarts ==
    ASSUME RuntimeInv, \A s \in Sessions : Prefixed(s),
           [RuntimeNext]_vars, NEW t \in Branches', t \notin Branches
    PROVE  HeldIsCurrent(t)'
<1> SUFFICES ASSUME t \in held'
             PROVE  (/\ IsPrefix(branchTokens[t], Whole(branch[t].session))
                     /\ Len(branchTokens[t]) <= branch[t].depEnd)'
  BY DEF HeldIsCurrent
<1>1. PICK s \in Sessions, kind \in Kinds : Submitted(s, kind, t)
  BY NewBranch
<1> DEFINE a == branchTokens'[t]
<1>2. /\ branch'[t].session = s
      /\ branch'[t].depEnd = IF kind \in CurrentVersionKinds THEN Len(Whole(s)) ELSE Frontier(s)
      /\ IsPrefix(a, resident[s])
      /\ kind \notin CurrentVersionKinds => Len(a) = promoted[s]
      /\ UNCHANGED <<committed, tentative>>
  BY <1>1 DEF Submitted, transcriptVars, sessionVars
<1>3. /\ resident[s] \in Seq(Nat) /\ Whole(s) \in Seq(Nat)
      /\ Len(Whole(s)) \in Nat /\ promoted[s] <= Frontier(s)
  BY WholeType DEF RuntimeInv, RuntimeTypeOK, Cached
<1>4. a \in Seq(Nat)
  BY RuntimeStepInv DEF RuntimeInv, RuntimeTypeOK
<1>5. IsPrefix(a, Whole(s))
  BY <1>2, <1>3, <1>4, PrefixTransitive DEF Prefixed
<1> HIDE DEF a
<1>6. Len(a) <= Len(Whole(s))
  BY <1>5 DEF IsPrefix
<1> QED
  BY <1>2, <1>3, <1>5, <1>6 DEF a, Whole

BackedInv ==
    /\ TaskInv
    /\ \A s \in Sessions : Prefixed(s)
    /\ \A t \in Branches : Tasked(t)
    /\ \A t \in Branches : HeldIsCurrent(t)

LEMMA BackedInvariant ==
    ASSUME "unreadable" \notin Faults
    PROVE  RuntimeSpec => []BackedInv
<1> DEFINE Rest == /\ \A s \in Sessions : Prefixed(s)
                   /\ \A t \in Branches : Tasked(t)
                   /\ \A t \in Branches : HeldIsCurrent(t)
<1>1. RuntimeInit => Rest
  <2> SUFFICES ASSUME RuntimeInit, NEW s \in Sessions PROVE Prefixed(s)
    BY DEF RuntimeInit, Branches
  <2>1. /\ resident[s] = <<>> /\ committed[s] = <<>> /\ tentative[s] = <<>>
        /\ ~wedged[s]
    BY DEF RuntimeInit, Init
  <2>2. <<>> \in Seq(Nat)
    OBVIOUS
  <2>3. IsPrefix(<<>>, <<>> \o <<>>)
    BY <2>2, PrefixProperties
  <2> QED
    BY <2>1, <2>3 DEF Prefixed, Whole
<1>2. TaskInv /\ Rest /\ [RuntimeNext]_vars => Rest'
  <2> SUFFICES ASSUME TaskInv, Rest, [RuntimeNext]_vars PROVE Rest'
    OBVIOUS
  <2>1. RuntimeInv
    BY DEF TaskInv
  <2>2. \A s \in Sessions : Prefixed(s)'
    BY <2>1, PrefixedStays
  <2>3. ASSUME NEW t \in Branches'
        PROVE  Tasked(t)' /\ HeldIsCurrent(t)'
    <3>1. CASE t \in Branches
      BY <3>1, NotOrphanedStays, HeldStays
    <3>2. CASE t \notin Branches
      BY <2>1, <3>2, NotOrphanedStarts, HeldStarts
    <3> QED
      BY <3>1, <3>2
  <2> QED
    BY <2>2, <2>3
<1> HIDE DEF Rest
<1>3. RuntimeSpec => []Rest
  BY <1>1, <1>2, TaskInvariant, PTL DEF RuntimeSpec
<1>4. TaskInv /\ Rest => BackedInv
  BY DEF Rest, BackedInv
<1> QED
  BY <1>3, <1>4, TaskInvariant, PTL

(***************************************************************************)
(* While every text can be encoded, the tokens resident for a session are  *)
(* a prefix of its transcript, and the promoted ones lie inside the spine; *)
(* engine updates and generations may fail (ResidentIsPrefix).             *)
(***************************************************************************)
THEOREM CacheFollowsTranscript ==
    ASSUME "unreadable" \notin Faults
    PROVE  RuntimeSpec => []ResidentIsPrefix
<1>1. BackedInv => ResidentIsPrefix
  BY DEF BackedInv, TaskInv, RuntimeInv, Cached, Prefixed, ResidentIsPrefix
<1> QED
  BY <1>1, BackedInvariant, PTL

(***************************************************************************)
(* Then the assertion of handle_event, "resident cache is not a prefix of  *)
(* the transcript", never fires (NeverWedged): only a submission whose     *)
(* prompt cannot be encoded leads to it.                                   *)
(***************************************************************************)
THEOREM AssertionHolds ==
    ASSUME "unreadable" \notin Faults
    PROVE  RuntimeSpec => []NeverWedged
<1>1. BackedInv => NeverWedged
  BY DEF BackedInv, Prefixed, NeverWedged
<1> QED
  BY <1>1, BackedInvariant, PTL

(***************************************************************************)
(* Then, too, what a live branch holds is a prefix of the transcript and   *)
(* no longer than what it declared to depend on: no revision rewrites it   *)
(* without invalidating the branch (HeldTokensAreCurrent).                 *)
(***************************************************************************)
THEOREM LiveBranchesHoldCurrentTokens ==
    ASSUME "unreadable" \notin Faults
    PROVE  RuntimeSpec => []HeldTokensAreCurrent
<1>1. BackedInv => HeldTokensAreCurrent
  BY DEF BackedInv, TaskInv, RuntimeInv, RuntimeTypeOK, Branches, HeldIsCurrent,
         HeldTokensAreCurrent
<1> QED
  BY <1>1, BackedInvariant, PTL

=============================================================================
