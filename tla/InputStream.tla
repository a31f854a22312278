----------------------------- MODULE InputStream -----------------------------
(***************************************************************************)
(* The VLLMInputStream objects of vllm_bridge.py: each is the bounded      *)
(* asyncio queue between the runtime, which publishes updates, and         *)
(* AsyncLLM.generate, which iterates inputs().  The bridge publishes and   *)
(* closes with the _nowait forms; whoever holds the stream may also use    *)
(* publish and close, which wait for a slot.                               *)
(*                                                                         *)
(* An update is the number of the call that published it.  A call that     *)
(* raises before it changes anything (QueueFull, or "vLLM input stream is  *)
(* closed") is no step.  The waiting put of asyncio.Queue is modelled as   *)
(* the standard library implements it: a getter that frees a slot resolves *)
(* the oldest putter's future, whose task runs later, after anything the   *)
(* event loop runs before it, and tests the queue again.                   *)
(***************************************************************************)
EXTENDS Integers, Sequences, SequencesExt

CONSTANTS
    MaxPending,    \* max_pending_updates
    MaxUpdates     \* bound: published updates

ASSUME StreamAssumption == MaxPending \in Nat \ {0} /\ MaxUpdates \in Nat

VARIABLES
    streams,       \* the stream objects constructed so far, oldest first
    published      \* the number of publishing calls so far, on any stream

streamVars == <<streams, published>>

Updates == 1 .. MaxUpdates
Marker  == 0       \* _CLOSED
Items   == Updates \cup {Marker}

Stream == [
    queue: Seq(Items),        \* _queue, oldest first
    limit: Nat \ {0},         \* its maxsize
    closed: BOOLEAN,          \* _closed
    waiting: Seq(Items),      \* the items of put calls waiting for a slot, oldest first
    woken: Seq(Items),        \* those whose future is resolved but whose task has not run
    direct: SUBSET Updates,   \* the updates enqueued within their publishing call
    delivered: Seq(Updates),  \* what inputs() has yielded
    ended: BOOLEAN ]          \* inputs() has returned

StreamTypeOK ==
    /\ streams \in Seq(Stream)
    /\ \A i \in DOMAIN streams : Len(streams[i].queue) <= streams[i].limit
    /\ published \in 0 .. MaxUpdates

NewStream(limit) ==
    [ queue |-> <<>>, limit |-> limit, closed |-> FALSE,
      waiting |-> <<>>, woken |-> <<>>,
      direct |-> {}, delivered |-> <<>>, ended |-> FALSE ]

\* Mutant of Full: one item more than the bound.
FullBeyond(s) == Len(s.queue) > s.limit

Full(s) == Len(s.queue) >= s.limit

\* Mutant of Enqueue: the newest item is yielded first.
EnqueueFirst(q, item) == <<item>> \o q

Enqueue(q, item) == Append(q, item)

\* Mutant of Publishing: the closed stream is not refused.
PublishingAlways(s) == published < MaxUpdates

Publishing(s) == published < MaxUpdates /\ ~s.closed

\* The stream after put_nowait(update) within its call
WithUpdate(s, u) ==
    [s EXCEPT !.queue = Enqueue(@, u), !.direct = @ \cup {u}]

\* publish_nowait, and publish when there is a slot
PublishAtOnce(i) ==
    /\ Publishing(streams[i])
    /\ ~Full(streams[i])
    /\ streams' = [streams EXCEPT ![i] = WithUpdate(@, published + 1)]
    /\ published' = published + 1

PublishWaits(i) ==
    /\ Publishing(streams[i])
    /\ Full(streams[i])
    /\ streams' = [streams EXCEPT ![i].waiting = Append(@, published + 1)]
    /\ published' = published + 1

\* close_nowait: the stream is closed even when putting the marker raises.
Closed(s) ==
    IF s.closed THEN s
    ELSE [s EXCEPT !.closed = TRUE, !.queue = IF Full(s) THEN @ ELSE Enqueue(@, Marker)]

CloseNowait(i) ==
    /\ ~streams[i].closed
    /\ streams' = [streams EXCEPT ![i] = Closed(@)]
    /\ UNCHANGED published

CloseWaits(i) ==
    /\ ~streams[i].closed
    /\ Full(streams[i])
    /\ streams' = [streams EXCEPT ![i].closed = TRUE, ![i].waiting = Append(@, Marker)]
    /\ UNCHANGED published

\* The put call whose turn it is finds a slot, or waits again behind the others.
Resume(i) ==
    /\ streams[i].woken # <<>>
    /\ LET item == Head(streams[i].woken)
           rest == [streams EXCEPT ![i].woken = Tail(@)]
       IN  streams' = IF Full(streams[i])
                      THEN [rest EXCEPT ![i].waiting = Append(@, item)]
                      ELSE [rest EXCEPT ![i].queue = Enqueue(@, item)]
    /\ UNCHANGED published

\* The stream after get: the oldest waiting put, if any, is woken.
Taken(s) ==
    [s EXCEPT !.queue = Tail(@),
              !.woken = IF s.waiting = <<>> THEN @ ELSE Append(@, Head(s.waiting)),
              !.waiting = IF @ = <<>> THEN @ ELSE Tail(@)]

\* One turn of the loop of inputs()
Take(i) ==
    /\ ~streams[i].ended
    /\ streams[i].queue # <<>>
    /\ LET item == Head(streams[i].queue)
           rest == [streams EXCEPT ![i] = Taken(@)]
       IN  streams' = IF item = Marker
                      THEN [rest EXCEPT ![i].ended = TRUE]
                      ELSE [rest EXCEPT ![i].delivered = Append(@, item)]
    /\ UNCHANGED published

\* What whoever holds a stream may call
Holder(i) == PublishAtOnce(i) \/ PublishWaits(i) \/ CloseNowait(i) \/ CloseWaits(i)

-----------------------------------------------------------------------------
(***************************************************************************)
(* One stream by itself.  The event loop runs a task that is ready, and    *)
(* the engine iterates inputs().                                           *)
(***************************************************************************)
StreamInit == streams = <<NewStream(MaxPending)>> /\ published = 0

StreamNext == \E i \in DOMAIN streams : Holder(i) \/ Resume(i) \/ Take(i)

StreamSpec ==
    /\ StreamInit /\ [][StreamNext]_streamVars
    /\ WF_streamVars(Resume(1)) /\ WF_streamVars(Take(1))

-----------------------------------------------------------------------------
(***************************************************************************)
(* Properties                                                              *)
(***************************************************************************)

(***************************************************************************)
(* An update the bridge has published (enqueued within the call) reaches   *)
(* the engine, however the stream is closed afterwards and whoever waits   *)
(* for a slot meanwhile.  One that had to wait may be overtaken by the     *)
(* closing marker and is then lost.                                        *)
(***************************************************************************)
Direct(u)    == \E i \in DOMAIN streams : u \in streams[i].direct
Delivered(u) == \E i \in DOMAIN streams : u \in Range(streams[i].delivered)

PublishedArrives == \A u \in Updates : Direct(u) ~> Delivered(u)

(***************************************************************************)
(* Versions reach the engine in the order they were published: an update   *)
(* is overtaken by a later one only if its publisher had to wait.          *)
(***************************************************************************)
OnlyWaitersAreOvertaken ==
    \A s \in Range(streams) : \A j, k \in DOMAIN s.delivered :
        j < k /\ s.delivered[j] > s.delivered[k] => s.delivered[k] \notin s.direct

(***************************************************************************)
(* inputs() is documented to yield "until closed" (vllm_bridge.py:53): a   *)
(* closed stream comes to its end.  close_nowait on a full queue raises    *)
(* after it has marked the stream closed, and no marker is ever put.       *)
(***************************************************************************)
ClosedEnds == streams[1].closed ~> streams[1].ended

=============================================================================
