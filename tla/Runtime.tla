------------------------------- MODULE Runtime -------------------------------
(***************************************************************************)
(* CueBeeRuntime (runtime.py) over its parts: the transcript (module       *)
(* Transcript), the branch graph (branch_graph.py), the semantic scheduler *)
(* (scheduler.py), the freshness gate (freshness_gate.py), and what a user *)
(* of the cache and of the engine sees: the tokens resident for a session  *)
(* or held by a branch, and the session tokens the engine was told.  How   *)
(* the cache keeps those tokens in shared blocks is module KVCache.        *)
(*                                                                         *)
(* handle_event, submit_task and shed_load are one step each.  run_next is *)
(* two: RunNext pops a task and builds its prompt, GenerateReturns or      *)
(* GenerateFails is the engine's answer and all that follows it.  Behind   *)
(* the gateway's lock nothing happens between them; a runtime embedded     *)
(* without it (Overlap) may handle events while the engine generates.      *)
(*                                                                         *)
(* Tasks are numbered in the order of their submission, which is the order *)
(* the branch graph iterates in.  Resubmitting an id raises before it has  *)
(* any effect, so every step below submits a new one.                      *)
(***************************************************************************)
EXTENDS Transcript

CONSTANTS
    Kinds,         \* the task kinds of this instance
    MaxTasks,      \* bound: submissions
    AdmissionCap,  \* admission_cap
    MinTail,       \* TentativePrefillPolicy.min_tail_tokens
    Overlap        \* may operations run while the engine generates?

CurrentVersionKinds == {"proactive_hint", "search_decision"}
AllKinds == CurrentVersionKinds
              \cup {"user_query", "memory_extraction", "context_summary"}

ASSUME RuntimeAssumption ==
    /\ Kinds \subseteq AllKinds
    /\ MaxTasks \in Nat
    /\ AdmissionCap \in Nat \ {0}
    /\ MinTail \in Nat
    /\ Overlap \in BOOLEAN

VARIABLES
    resident,      \* kv.session_tokens: tokens cached for each session
    promoted,      \* how many of them have validity COMMITTED
    branch,        \* BranchGraph._branches in creation order
    branchTokens,  \* kv._branches: the shared prefix each branch holds
    task,          \* AnalysisTask.status, "none" where nothing was submitted
    inflight,      \* the task whose generate call is running, or 0
    prompt,        \* the transcript tokens of its prompt
    view,          \* the engine's copy of a session: the updates, folded
    viewFrontier,  \* the commit frontier of the last update it was sent
    wedged         \* handle_event has raised its AssertionError

cacheVars  == <<resident, promoted>>
branchVars == <<branch, branchTokens>>
flightVars == <<inflight, prompt>>
engineVars == <<view, viewFrontier>>
runtimeVars == <<cacheVars, branchVars, task, flightVars, engineVars, wedged>>
vars == <<transcriptVars, runtimeVars>>

Tasks == 1 .. MaxTasks
ActiveStatus == {"queued", "running"}
BranchStatus == ActiveStatus \cup {"completed", "cancelled", "invalidated"}
TaskStatus   == ActiveStatus \cup {"none", "completed", "cancelled", "dropped"}

Branch == [status  : BranchStatus,
           session : Sessions,
           kind    : Kinds,
           base    : Nat,         \* base_version
           depEnd  : Nat]         \* dependency is TokenRange(0, depEnd)

held == DOMAIN branchTokens

RuntimeTypeOK ==
    /\ TypeOK
    /\ resident \in [Sessions -> Seq(Nat)]
    /\ promoted \in [Sessions -> Nat]
    /\ branch \in Seq(Branch) /\ Len(branch) <= MaxTasks
    /\ held \subseteq DOMAIN branch
    /\ branchTokens \in [held -> Seq(Nat)]
    /\ task \in [Tasks -> TaskStatus]
    /\ inflight \in {0} \cup DOMAIN branch
    /\ prompt \in Seq(Nat)
    /\ view \in [Sessions -> Seq(Nat)]
    /\ viewFrontier \in [Sessions -> Nat]
    /\ wedged \in [Sessions -> BOOLEAN]

RuntimeInit ==
    /\ Init
    /\ resident = [s \in Sessions |-> <<>>]
    /\ promoted = [s \in Sessions |-> 0]
    /\ branch = <<>>
    /\ branchTokens = <<>>
    /\ task = [t \in Tasks |-> "none"]
    /\ inflight = 0
    /\ prompt = <<>>
    /\ view = [s \in Sessions |-> <<>>]
    /\ viewFrontier = [s \in Sessions |-> 0]
    /\ wedged = [s \in Sessions |-> FALSE]

Branches   == DOMAIN branch
IsActive(t) == branch[t].status \in ActiveStatus
NeedsCurrent(t) == branch[t].kind \in CurrentVersionKinds
IsStale(t) == NeedsCurrent(t) /\ branch[t].base # version[branch[t].session]

Queued == {t \in Tasks : task[t] = "queued"}
ActiveTasks == {t \in Tasks : task[t] \in ActiveStatus}

\* The lock: an operation waits for a running generate unless they overlap.
Unlocked == Overlap \/ inflight = 0

-----------------------------------------------------------------------------
(***************************************************************************)
(* Branch invalidation, and the cancellations handle_event makes of it.    *)
(***************************************************************************)

\* Mutant of Invalidated: running branches are spared.
InvalidatedQueued(s, start, end) ==
    {t \in Branches :
        /\ branch[t].session = s
        /\ branch[t].status = "queued"
        /\ \/ NeedsCurrent(t) /\ branch[t].base # version[s] + 1
           \/ start < end /\ 0 < end /\ start < branch[t].depEnd}

\* Mutant of Invalidated: compares with the version before the event.
InvalidatedBefore(s, start, end) ==
    {t \in Branches :
        /\ branch[t].session = s
        /\ IsActive(t)
        /\ \/ NeedsCurrent(t) /\ branch[t].base # version[s]
           \/ start < end /\ 0 < end /\ start < branch[t].depEnd}

Invalidated(s, start, end) ==
    {t \in Branches :
        /\ branch[t].session = s
        /\ IsActive(t)
        /\ \/ NeedsCurrent(t) /\ branch[t].base # version[s] + 1
           \/ start < end /\ 0 < end /\ start < branch[t].depEnd}

\* A branch whose submission failed has no task, and cancelling it raises.
Orphan(t) == task[t] = "none"
Interrupted(s, start, end) == \E t \in Invalidated(s, start, end) : Orphan(t)

SetStatus(ts, status) ==
    [t \in Branches |->
        IF t \in ts THEN [branch[t] EXCEPT !.status = status] ELSE branch[t]]

\* kv.release_branch for each of them
Release(ts) == branchTokens' = [t \in held \ ts |-> branchTokens[t]]

Invalidate(s, start, end) ==
    LET gone == Invalidated(s, start, end)
        cancelled == {t \in gone : \A u \in gone : u <= t => ~Orphan(u)}
    IN  /\ branch' = SetStatus(gone, "invalidated")
        /\ Release(gone)
        /\ task' = [t \in Tasks |-> IF t \in cancelled /\ task[t] \in ActiveStatus
                                      THEN "cancelled" ELSE task[t]]

-----------------------------------------------------------------------------
(***************************************************************************)
(* handle_event                                                            *)
(***************************************************************************)

\* Nothing beyond the adapter and the transcript is reached.
EventRefused(s, g, r) ==
    /\ Unlocked
    /\ \/ \E final \in BOOLEAN : RefuseClosed(s, g, r, final)
       \/ \E final \in BOOLEAN : RefuseLate(s, g, r, final)
    /\ UNCHANGED runtimeVars

MetadataEvent(s, g, r) ==
    /\ Unlocked
    /\ Relabel(s, g, r) \/ CloseSession(s, g, r)
    /\ Invalidate(s, Len(Whole(s)), Len(Whole(s)))
    /\ UNCHANGED <<cacheVars, flightVars, engineVars, wedged>>

Content(s, g, r, text, final) ==
    /\ Unlocked
    /\ IF final THEN CommitFinal(s, g, r, text) ELSE Revise(s, g, r, text)
    /\ Invalidate(s, ChangedStart(s, text), ChangedEnd(s, text))
    /\ UNCHANGED flightVars

\* Mutant of Remaining: rolls back from the end of the change.
RemainingToEnd(s, text) ==
    IF Len(resident[s]) > ChangedEnd(s, text)
      THEN SubSeq(resident[s], 1, ChangedEnd(s, text))
      ELSE resident[s]

\* The cache after the rollback.
Remaining(s, text) ==
    IF Len(resident[s]) > ChangedStart(s, text)
      THEN SubSeq(resident[s], 1, ChangedStart(s, text))
      ELSE resident[s]

MayPrefill(s, text, final) == final \/ Len(NewTail(s, text)) >= MinTail

Promote(s, text, final) ==
    promoted' = IF final THEN [promoted EXCEPT ![s] = Len(Expected(s, text))]
                         ELSE promoted

\* Cancelling an orphan raised KeyError: the cache is left as it was.
ContentInterrupted(s, g, r, text, final) ==
    /\ Content(s, g, r, text, final)
    /\ Interrupted(s, ChangedStart(s, text), ChangedEnd(s, text))
    /\ UNCHANGED <<cacheVars, engineVars, wedged>>

Uninterrupted(s, g, r, text, final) ==
    /\ Content(s, g, r, text, final)
    /\ ~Interrupted(s, ChangedStart(s, text), ChangedEnd(s, text))

\* "resident cache is not a prefix of the transcript"
ContentAsserts(s, g, r, text, final) ==
    /\ Uninterrupted(s, g, r, text, final)
    /\ ~IsPrefix(Remaining(s, text), Expected(s, text))
    /\ resident' = [resident EXCEPT ![s] = Remaining(s, text)]
    /\ wedged' = [wedged EXCEPT ![s] = TRUE]
    /\ UNCHANGED <<promoted, engineVars>>

\* Nothing to prefill, or a tail the policy does not admit: it is too short,
\* or the confidence and the load of the moment are against it.
ContentKept(s, g, r, text, final) ==
    /\ Uninterrupted(s, g, r, text, final)
    /\ IsPrefix(Remaining(s, text), Expected(s, text))
    /\ final => Remaining(s, text) = Expected(s, text)
    /\ resident' = [resident EXCEPT ![s] = Remaining(s, text)]
    /\ Promote(s, text, final)
    /\ UNCHANGED <<engineVars, wedged>>

MustPublish(s, text, final) ==
    /\ IsPrefix(Remaining(s, text), Expected(s, text))
    /\ Remaining(s, text) # Expected(s, text)
    /\ MayPrefill(s, text, final)

\* The engine replaces its copy from the end of the resident prefix on.
ContentPublished(s, g, r, text, final) ==
    /\ Uninterrupted(s, g, r, text, final)
    /\ MustPublish(s, text, final)
    /\ resident' = [resident EXCEPT ![s] = Expected(s, text)]
    /\ Promote(s, text, final)
    /\ view' = [view EXCEPT ![s] =
                    LET from == Len(Remaining(s, text))
                    IN  SubSeq(@, 1, from)
                          \o SubSeq(Expected(s, text), from + 1, Len(Expected(s, text)))]
    /\ viewFrontier' = [viewFrontier EXCEPT ![s] = Len(committed'[s])]
    /\ UNCHANGED wedged

\* Mutant of ContentUnpublished: the cache is extended before the engine is told.
UnpublishedButCached(s, g, r, text, final) ==
    /\ "publish" \in Faults
    /\ Uninterrupted(s, g, r, text, final)
    /\ MustPublish(s, text, final)
    /\ resident' = [resident EXCEPT ![s] = Expected(s, text)]
    /\ UNCHANGED <<promoted, engineVars, wedged>>

\* update_session raises (queue full, stream closed or not open).
ContentUnpublished(s, g, r, text, final) ==
    /\ "publish" \in Faults
    /\ Uninterrupted(s, g, r, text, final)
    /\ MustPublish(s, text, final)
    /\ resident' = [resident EXCEPT ![s] = Remaining(s, text)]
    /\ UNCHANGED <<promoted, engineVars, wedged>>

HandleEvent ==
    \E s \in Sessions, g \in Segments, r \in 0 .. MaxRevision :
        \/ EventRefused(s, g, r)
        \/ MetadataEvent(s, g, r)
        \/ \E text \in Texts, final \in BOOLEAN :
              \/ ContentInterrupted(s, g, r, text, final)
              \/ ContentAsserts(s, g, r, text, final)
              \/ ContentKept(s, g, r, text, final)
              \/ ContentPublished(s, g, r, text, final)
              \/ ContentUnpublished(s, g, r, text, final)

-----------------------------------------------------------------------------
(***************************************************************************)
(* submit_task: the branch is created, forked and given its prompt before  *)
(* the scheduler is asked.                                                 *)
(***************************************************************************)

\* Mutant of NewTask: off by one.
NewTaskFromZero == Len(branch)

NewTask == Len(branch) + 1

\* Mutant of WithTail: every task is given the tail.
EveryTaskWithTail(kind) == kind \in AllKinds

WithTail(kind) == kind \in CurrentVersionKinds

CreateBranch(s, kind, status) ==
    branch' = Append(branch,
        [status  |-> status,
         session |-> s,
         kind    |-> kind,
         base    |-> version[s],
         depEnd  |-> IF WithTail(kind) THEN Len(Whole(s)) ELSE Frontier(s)])

\* kv.fork_branch: every resident token, or the promoted ones.
Fork(s, kind) ==
    LET tokens == IF WithTail(kind) THEN resident[s]
                                    ELSE SubSeq(resident[s], 1, promoted[s])
    IN  branchTokens' = [t \in held \cup {NewTask} |->
                            IF t = NewTask THEN tokens ELSE branchTokens[t]]

Submission(s) ==
    /\ Unlocked
    /\ version[s] > 0
    /\ Len(branch) < MaxTasks
    /\ UNCHANGED <<transcriptVars, cacheVars, flightVars, engineVars, wedged>>

SubmitTask(s, kind) ==
    /\ Submission(s)
    /\ Cardinality(ActiveTasks) < AdmissionCap
    /\ CreateBranch(s, kind, "queued")
    /\ Fork(s, kind)
    /\ task' = [task EXCEPT ![NewTask] = "queued"]

\* The cap is reached: the branch is cancelled and its references released.
SubmitRefused(s, kind) ==
    /\ Submission(s)
    /\ Cardinality(ActiveTasks) >= AdmissionCap
    /\ CreateBranch(s, kind, "cancelled")
    /\ UNCHANGED <<branchTokens, task>>

\* The task's own prompt cannot be encoded: nobody cancels the new branch.
SubmitUnreadable(s, kind) ==
    /\ "unreadable" \in Faults
    /\ Submission(s)
    /\ CreateBranch(s, kind, "queued")
    /\ Fork(s, kind)
    /\ UNCHANGED task

-----------------------------------------------------------------------------
(***************************************************************************)
(* run_next and shed_load                                                  *)
(***************************************************************************)

StaleTasks == {t \in Queued : IsStale(t)}
Candidates == Queued \ StaleTasks

CancelStale == [t \in Tasks |-> IF t \in StaleTasks THEN "cancelled" ELSE task[t]]

\* pop_next: which candidate scores best is left open.  The branch of a task
\* it cancels is not touched.
RunNext(t) ==
    /\ inflight = 0
    /\ t \in Candidates
    /\ branch[t].status = "queued"
    /\ task' = [CancelStale EXCEPT ![t] = "running"]
    /\ branch' = SetStatus({t}, "running")
    /\ inflight' = t
    /\ prompt' = IF NeedsCurrent(t) THEN Whole(branch[t].session)
                                    ELSE Spine(branch[t].session)
    /\ UNCHANGED <<transcriptVars, cacheVars, branchTokens, engineVars, wedged>>

RunNextFindsNone ==
    /\ inflight = 0
    /\ Candidates = {}
    /\ StaleTasks # {}
    /\ task' = CancelStale
    /\ UNCHANGED <<transcriptVars, cacheVars, branchVars, flightVars, engineVars, wedged>>

\* Mutant of Allows: neither the branch's status nor its version is asked.
AllowsByFrontier(t) ==
    NeedsCurrent(t) \/ branch[t].depEnd <= Frontier(branch[t].session)

\* FreshnessGate.evaluate
Allows(t) ==
    /\ branch[t].status \notin {"cancelled", "invalidated"}
    /\ ~IsStale(t)
    /\ NeedsCurrent(t) \/ branch[t].depEnd <= Frontier(branch[t].session)

Landed ==
    /\ inflight # 0
    /\ inflight' = 0
    /\ prompt' = <<>>
    /\ UNCHANGED <<transcriptVars, cacheVars, engineVars, wedged>>

\* Mutant of OutputAllowed: the scheduler is not told.
OutputAllowedUntold ==
    /\ Landed
    /\ Allows(inflight)
    /\ branch' = SetStatus({inflight}, "completed")
    /\ Release({inflight})
    /\ UNCHANGED task

OutputAllowed ==
    /\ Landed
    /\ Allows(inflight)
    /\ branch' = SetStatus({inflight}, "completed")
    /\ Release({inflight})
    /\ task' = [task EXCEPT ![inflight] = "completed"]

\* Mutant of CancelBranches: the references are kept.
CancelKeepingRefs(ts) ==
    /\ branch' = SetStatus({t \in ts : IsActive(t)}, "cancelled")
    /\ UNCHANGED branchTokens

\* Mutant of CancelBranches: a decided branch is cancelled once more.
CancelDecided(ts) ==
    /\ branch' = SetStatus(ts, "cancelled")
    /\ Release(ts)

CancelBranches(ts) ==
    LET live == {t \in ts : IsActive(t)}
    IN  /\ branch' = SetStatus(live, "cancelled")
        /\ Release(live)

\* Mutant of OutputWithheld: the gate's refusal is not passed on to the task.
OutputWithheldSilently ==
    /\ Landed
    /\ ~Allows(inflight)
    /\ CancelBranches({inflight})
    /\ UNCHANGED task

OutputWithheld ==
    /\ Landed
    /\ ~Allows(inflight)
    /\ CancelBranches({inflight})
    /\ task' = [task EXCEPT ![inflight] = IF @ \in ActiveStatus THEN "dropped" ELSE @]

GenerateReturns == OutputAllowed \/ OutputWithheld

\* engine.generate raises: run_next has no handler.
GenerateFails ==
    /\ "engine" \in Faults
    /\ Landed
    /\ UNCHANGED <<branchVars, task>>

DropOrder == [context_summary |-> 0, memory_extraction |-> 1,
              search_decision |-> 2, proactive_hint |-> 3, user_query |-> 4]

\* The queued tasks of the lowest kinds go, as many as are above the target;
\* which of one kind go first (priority, creation time) is left open.
ShedLoad(target, ts) ==
    /\ Unlocked
    /\ ts # {} /\ ts \subseteq Queued
    /\ Cardinality(ActiveTasks \ ts) >= target
    /\ Cardinality(ActiveTasks \ ts) = target \/ ts = Queued
    /\ \A t \in ts, u \in Queued \ ts :
          DropOrder[branch[t].kind] <= DropOrder[branch[u].kind]
    /\ CancelBranches(ts)
    /\ task' = [t \in Tasks |-> IF t \in ts THEN "dropped" ELSE task[t]]
    /\ UNCHANGED <<transcriptVars, cacheVars, flightVars, engineVars, wedged>>

RuntimeNext ==
    \/ HandleEvent
    \/ \E s \in Sessions, kind \in Kinds :
          \/ SubmitTask(s, kind)
          \/ SubmitRefused(s, kind)
          \/ SubmitUnreadable(s, kind)
    \/ \E t \in Tasks : RunNext(t)
    \/ RunNextFindsNone
    \/ GenerateReturns
    \/ GenerateFails
    \/ \E target \in 0 .. MaxTasks, ts \in SUBSET Tasks : ShedLoad(target, ts)

RuntimeSpec == RuntimeInit /\ [][RuntimeNext]_vars

(***************************************************************************)
(* Somebody keeps calling run_next, and the engine answers every call.     *)
(* Nothing is assumed of the callbacks or of the submissions.              *)
(***************************************************************************)
FairRuntimeSpec ==
    /\ RuntimeSpec
    /\ WF_vars((\E t \in Tasks : RunNext(t)) \/ RunNextFindsNone)
    /\ WF_vars(GenerateReturns)

=============================================================================
