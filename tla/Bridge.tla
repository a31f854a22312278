------------------------------- MODULE Bridge --------------------------------
(***************************************************************************)
(* VLLMRevisionBridge (vllm_bridge.py:105-159): the table of open input    *)
(* streams, keyed by session and branch ids alike, and the streams         *)
(* themselves, which open_session and open_branch also hand out.  Whoever  *)
(* has been given a stream may go on using it when the id is closed, and   *)
(* the engine goes on reading it.  A call of the bridge that raises before *)
(* it changes anything (unknown id, id already open, full queue) is no     *)
(* step; close_session_nowait on a full queue raises after it has.         *)
(***************************************************************************)
EXTENDS InputStream, FiniteSets

CONSTANTS
    Ids,           \* ids of sessions and branches
    MaxStreams     \* bound: streams constructed

ASSUME BridgeAssumption == MaxStreams \in Nat

VARIABLES
    table,         \* _streams: id -> number of its stream, 0 when there is none
    origin         \* how each stream came about: its id, and whether it is a fork

bridgeVars == <<streamVars, table, origin>>

BranchLimit == 2   \* max_pending_updates of a branch's stream

BridgeTypeOK ==
    /\ StreamTypeOK
    /\ Len(streams) <= MaxStreams
    /\ table \in [Ids -> 0 .. Len(streams)]
    /\ origin \in Seq([id: Ids, fork: BOOLEAN]) /\ Len(origin) = Len(streams)
    /\ \A i \in DOMAIN streams :
          streams[i].limit = IF origin[i].fork THEN BranchLimit ELSE MaxPending

BridgeInit ==
    /\ streams = <<>> /\ published = 0
    /\ table = [id \in Ids |-> 0]
    /\ origin = <<>>

Open(id) == table[id] # 0

\* Mutant of MayOpen: an id that is open is opened again.
MayOpenAnyway(id) == Len(streams) < MaxStreams

MayOpen(id) == Len(streams) < MaxStreams /\ ~Open(id)

\* The stream s is constructed and listed under id.
List(id, s, fork) ==
    /\ MayOpen(id)
    /\ streams' = Append(streams, s)
    /\ table' = [table EXCEPT ![id] = Len(streams) + 1]
    /\ origin' = Append(origin, [id |-> id, fork |-> fork])

OpenSession(id) ==
    /\ List(id, NewStream(MaxPending), FALSE)
    /\ UNCHANGED published

UpdateSession(id) ==
    /\ Open(id)
    /\ PublishAtOnce(table[id])
    /\ UNCHANGED <<table, origin>>

\* What BranchForkUpdate refuses, of what the model tells apart
ValidFork(source, branch) == source # branch

OpenBranch(source, branch) ==
    /\ published < MaxUpdates
    /\ ValidFork(source, branch)
    /\ Open(source)
    /\ List(branch, WithUpdate(NewStream(BranchLimit), published + 1), TRUE)
    /\ published' = published + 1

\* Mutant of ClosedBehind: the stream is dropped from the table and left open.
ClosedBehindOpen(i) == streams

ClosedBehind(i) == [streams EXCEPT ![i] = Closed(@)]

\* The id is free again even when the queue is full and close_nowait raises.
CloseSessionNowait(id) ==
    /\ Open(id)
    /\ table' = [table EXCEPT ![id] = 0]
    /\ streams' = ClosedBehind(table[id])
    /\ UNCHANGED <<published, origin>>

HolderStep(i) == Holder(i) /\ UNCHANGED <<table, origin>>
ResumeStep(i) == i \in DOMAIN streams /\ Resume(i) /\ UNCHANGED <<table, origin>>
TakeStep(i)   == i \in DOMAIN streams /\ Take(i) /\ UNCHANGED <<table, origin>>

BridgeNext ==
    \/ \E id \in Ids :
          \/ OpenSession(id) \/ UpdateSession(id) \/ CloseSessionNowait(id)
          \/ \E source \in Ids : OpenBranch(source, id)
    \/ \E i \in DOMAIN streams : HolderStep(i) \/ ResumeStep(i) \/ TakeStep(i)

\* The event loop runs ready tasks, and the engine iterates every stream.
BridgeSpec ==
    /\ BridgeInit /\ [][BridgeNext]_bridgeVars
    /\ \A i \in 1 .. MaxStreams :
          WF_bridgeVars(ResumeStep(i)) /\ WF_bridgeVars(TakeStep(i))

-----------------------------------------------------------------------------
(***************************************************************************)
(* Properties                                                              *)
(***************************************************************************)

(***************************************************************************)
(* A stream that no id leads to any more is closed: opening, forking and   *)
(* closing never lose an open stream, which nobody could then close, and   *)
(* its consumer would wait for ever.  Two ids never share a stream.        *)
(***************************************************************************)
UnlistedIsClosed ==
    /\ \A i \in DOMAIN streams : table[origin[i].id] # i => streams[i].closed
    /\ \A id, other \in Ids : Open(id) /\ table[id] = table[other] => id = other

(***************************************************************************)
(* The streams of an id do not share updates: once the id has been closed  *)
(* and opened again, the earlier stream accepts nothing more, even from a  *)
(* holder that kept it, and what a putter still waits to put there was     *)
(* published before anything the later one accepted.  This orders the      *)
(* calls that publish.  Which of the two streams the engine reads first is *)
(* not said: they are independent queues, and an update left in the        *)
(* earlier one may be read after one of the later.                         *)
(***************************************************************************)
Accepted(i) ==
    LET s == streams[i]
    IN  Range(s.delivered \o s.queue \o s.woken \o s.waiting) \ {Marker}

LivesAreSeparate ==
    \A i, j \in DOMAIN streams :
        i < j /\ origin[i].id = origin[j].id =>
            \A u \in Accepted(i), v \in Accepted(j) : u < v

(***************************************************************************)
(* A branch's stream starts with its fork request (vllm_bridge.py:145      *)
(* "Open a branch stream and enqueue its partial-block fork request"):     *)
(* nothing the engine reads of a branch refers to cache blocks it has not  *)
(* been told to fork, whoever updates the branch and however it is closed. *)
(***************************************************************************)
ForkComesFirst ==
    \A i \in DOMAIN streams :
        LET items == streams[i].delivered \o streams[i].queue IN
        origin[i].fork =>
            /\ items # <<>>
            /\ \A u \in Accepted(i) : Head(items) <= u

=============================================================================
