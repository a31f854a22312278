-------------------------- MODULE RuntimeProperties --------------------------
(***************************************************************************)
(* What CueBeeRuntime promises, stated over module Runtime.                *)
(***************************************************************************)
EXTENDS Runtime

Terminal == {"completed", "cancelled", "dropped"}

(***************************************************************************)
(* The tokens resident for a session are a prefix of its transcript and    *)
(* the promoted ones lie inside the spine, so that neither the assertion   *)
(* of handle_event nor the frontier check of rollback_tentative can fire.  *)
(* It survives engine updates that fail; it needs every text to be         *)
(* encodable, see NeverWedged.                                             *)
(***************************************************************************)
ResidentIsPrefix ==
    \A s \in Sessions :
        /\ IsPrefix(resident[s], Whole(s))
        /\ promoted[s] <= Len(resident[s])
        /\ promoted[s] <= Frontier(s)

(***************************************************************************)
(* The assertion "resident cache is not a prefix of the transcript" of     *)
(* handle_event (runtime.py:142) never fires.                              *)
(***************************************************************************)
NeverWedged == \A s \in Sessions : ~wedged[s]

(***************************************************************************)
(* The scheduler's and the branch graph's tables agree on every task that  *)
(* is not stale, so run_next never pops a task whose branch is not queued  *)
(* (mark_running would raise) and never completes one that is not running  *)
(* in both.  It holds under every fault.                                   *)
(***************************************************************************)
TablesAgree ==
    \A t \in Branches :
        /\ task[t] = "queued"  /\ ~IsStale(t) => branch[t].status = "queued"
        /\ task[t] = "running" /\ ~IsStale(t) => branch[t].status = "running"
        /\ inflight = t /\ branch[t].status = "running" => task[t] = "running"
        /\ branch[t].status = "completed" <=> task[t] = "completed"

(***************************************************************************)
(* A task is RUNNING only while its answer is awaited, unless generate     *)
(* raises: whatever revises, cancels or sheds while the engine works,      *)
(* run_next decides the task it popped when the answer is back, also when  *)
(* the gate withholds it (runtime.py:256-277).  A task left RUNNING would  *)
(* be popped and decided by nobody.                                        *)
(***************************************************************************)
RunningIsInFlight == \A t \in Tasks : task[t] = "running" => inflight = t

(***************************************************************************)
(* What a live branch holds is still a prefix of the transcript, never     *)
(* longer than the interval it declared to depend on: invalidation reaches *)
(* every branch whose cached tokens a revision has rewritten.              *)
(***************************************************************************)
HeldTokensAreCurrent ==
    \A t \in held :
        /\ IsPrefix(branchTokens[t], Whole(branch[t].session))
        /\ Len(branchTokens[t]) <= branch[t].depEnd

(***************************************************************************)
(* Memory and summary tasks and user queries depend on the spine alone,    *)
(* and no revision of the tail ever invalidates them.                      *)
(***************************************************************************)
SpineTasksSurvive ==
    \A t \in Branches :
        ~NeedsCurrent(t) =>
            /\ branch[t].status # "invalidated"
            /\ branch[t].depEnd <= Frontier(branch[t].session)

(***************************************************************************)
(* The only references that outlive their task belong to a task the        *)
(* scheduler found stale by itself (its branch is still queued, and the    *)
(* next accepted event of the session invalidates it) or to a submission   *)
(* whose prompt could not be encoded.                                      *)
(***************************************************************************)
NothingElseLeaks ==
    \A t \in held :
        \/ task[t] \in ActiveStatus
        \/ task[t] = "cancelled" /\ IsStale(t) /\ branch[t].status = "queued"
        \/ task[t] = "none" /\ "unreadable" \in Faults

(***************************************************************************)
(* `stale_output_escape` must remain zero: when an output is allowed, the  *)
(* transcript its prompt was built from is still there, it covers all that *)
(* the task depended on, and for a task that needs the current version it  *)
(* is the transcript of this moment.  Events may overlap the generation.   *)
(***************************************************************************)
OutputIsFresh ==
    [][\A t \in Branches :
          task[t] # "completed" /\ task'[t] = "completed" =>
              LET now == Whole(branch[t].session)
              IN  /\ IsPrefix(prompt, now)
                  /\ branch[t].depEnd <= Len(prompt)
                  /\ NeedsCurrent(t) => prompt = now
      ]_vars

(***************************************************************************)
(* A decided task stays decided: no late answer, revision or shedding      *)
(* moves a task out of a terminal state, in either table.                  *)
(***************************************************************************)
DecidedForGood ==
    [][\A t \in Branches :
          /\ task[t] \in Terminal => task'[t] = task[t]
          /\ ~IsActive(t) => branch'[t].status = branch[t].status /\ t \notin held'
      ]_vars

(***************************************************************************)
(* An event that changes a session leaves no branch of it with a task of   *)
(* an older version: stale references live until the next such event.      *)
(***************************************************************************)
EventClearsStaleBranches ==
    [][\A s \in Sessions :
          Whole(s)' # Whole(s) =>
              \A t \in held' : branch[t].session = s =>
                  branch[t].kind \notin CurrentVersionKinds
      ]_vars

(***************************************************************************)
(* The engine's copy of a session starts with the resident tokens, so the  *)
(* cache never claims tokens the engine was not given.                     *)
(***************************************************************************)
EngineHoldsResident ==
    \A s \in Sessions : IsPrefix(resident[s], view[s])

(***************************************************************************)
(* Committed-frontier protection at the engine: an update never rewrites a *)
(* token below the frontier an earlier one declared, the frontier it       *)
(* declares never moves back, and the tokens below it stay resident, so    *)
(* that no later update has to start replacing below it.                   *)
(***************************************************************************)
UpdatesSpareCommitted ==
    [][\A s \in Sessions :
          /\ viewFrontier[s] <= viewFrontier'[s]
          /\ viewFrontier'[s] <= Len(resident'[s])
          /\ IsPrefix(SubSeq(view[s], 1, viewFrontier[s]), view'[s])
      ]_vars

(***************************************************************************)
(* Behind the gateway's lock the gate is redundant: whatever happened      *)
(* before run_next popped a task, its output is allowed when it returns.   *)
(***************************************************************************)
LockMakesGateRedundant ==
    ~Overlap /\ inflight # 0 => Allows(inflight)

(***************************************************************************)
(* While run_next is called and the engine answers, every admitted task is *)
(* decided: it is not forgotten by a cancellation or a race.               *)
(***************************************************************************)
TasksAreDecided ==
    \A t \in Tasks : (task[t] \in ActiveStatus) ~> (task[t] \in Terminal)

-----------------------------------------------------------------------------
(***************************************************************************)
(* Claims of the documentation that the code does not keep.                *)
(***************************************************************************)

(***************************************************************************)
(* README.md: "Tail-dependent tasks are cancelled when their transcript    *)
(* version changes."  An event refused after the version moved cancels     *)
(* nothing.                                                                *)
(***************************************************************************)
TailTasksFollowVersion ==
    \A t \in Branches : task[t] \in ActiveStatus => ~IsStale(t)

(***************************************************************************)
(* docs/vllm-integration.md: "Assert that every reference count returns to *)
(* baseline after complete, cancel, and failure."  Read for failure: a     *)
(* task whose generate call is over holds no references.                   *)
(***************************************************************************)
FailureReleases == \A t \in held : task[t] = "running" => inflight = t

=============================================================================
