---------------------------- MODULE SpeakerService ----------------------------
(***************************************************************************)
(* SpeakerService (speaker/service.py) with its batcher, its store and its *)
(* workers, as the gateway calls it: under one lock, with the times the    *)
(* clients state (api/server.py:54-89).  A flush takes its batches out of  *)
(* the queues and then has them embedded one by one; only the end of the   *)
(* process comes between.  What voice activity detection finds silent is   *)
(* no step.                                                                *)
(***************************************************************************)
EXTENDS SpeakerBatching, SpeakerStore

CONSTANTS
    WorkerLists,   \* the lists of workers the service may be given
    Faults,        \* "embedding": an embedding may be one that assign refuses
    MaxChunks,     \* bound: accepted chunks
    MaxTime        \* bound: the clock

ASSUME ServiceAssumption ==
    /\ WorkerLists \subseteq Seq(BOOLEAN) \ {<<>>}
    /\ Faults \subseteq {"embedding"}
    /\ MaxChunks \in Nat /\ MaxTime \in Nat

VARIABLES
    now,           \* the clock of the clients
    workers,       \* whether each worker embeds or raises
    nextWorker,    \* _next_worker, modulo the number of workers
    flight,        \* the batches of the running flush that are not embedded yet
    output,        \* what the running flush will return
    gauge,         \* the metric speaker_backlog_seconds, in milliseconds
    segments       \* what the flushes have returned

workerVars  == <<workers, nextWorker>>
flushVars   == <<flight, output>>
serviceVars == <<batchVars, storeVars, workerVars, flushVars, now, gauge, segments>>

\* SpeakerSegment, with the voice that was heard
Segment == [item: Nat \ {0}, voice: Voices, speaker: Nat \ {0}]

ItemsOf(ss) == {x.item : x \in ss}

LastSubmit == MaxTime - MaxWait

SpeakerTypeOK ==
    /\ items \in Seq([ chunk: Chunks, enqueued: 0 .. LastSubmit, deadline: Nat ])
    /\ queued \subseteq DOMAIN items
    /\ pending \in [Sessions -> 0 .. PerSession]
    /\ store \in [Sessions -> SpeakerSession] /\ exported \in [Sessions -> SpeakerSession]
    /\ forgotten \subseteq Sessions
    /\ now \in 0 .. MaxTime
    /\ workers \in WorkerLists
    /\ nextWorker \in 0 .. Len(workers) - 1
    /\ gauge \in Nat
    /\ flight \in Seq(Seq(DOMAIN items))
    /\ \A batch \in Range(flight) : Len(batch) \in 1 .. MaxBatch
    /\ output \cup segments \subseteq Segment
    /\ ItemsOf(output \cup segments) \subseteq DOMAIN items

ServiceInit ==
    /\ BatchInit /\ StoreInit
    /\ now = 0
    /\ workers \in WorkerLists
    /\ nextWorker = 0
    /\ flight = <<>> /\ output = {}
    /\ gauge = 0
    /\ segments = {}

Unlocked == flight = <<>>

Tick ==
    /\ now < MaxTime
    /\ now' = now + 1
    /\ UNCHANGED <<batchVars, storeVars, workerVars, flushVars, gauge, segments>>

Submit(chunk) ==
    /\ Unlocked
    /\ Len(items) < MaxChunks /\ now <= LastSubmit
    /\ Enqueue(chunk, now)
    /\ gauge' = Backlog'
    /\ UNCHANGED <<storeVars, workerVars, flushVars, now, segments>>

\* flush up to its loop over the batches
FlushStarts(at, force) ==
    /\ Unlocked
    /\ flight' = Ripe(at, force)
    /\ flight' # <<>>
    /\ Pop(flight')
    /\ UNCHANGED <<storeVars, workerVars, output, now, gauge, segments>>

FlushFindsNothing(at, force) ==
    /\ Unlocked
    /\ Ripe(at, force) = <<>>
    /\ gauge' = Backlog
    /\ UNCHANGED <<batchVars, storeVars, workerVars, flushVars, now, segments>>

\* Mutant of Heard: the results are taken in another order than the chunks.
HeardInOrder(batch, i) == items[batch[Len(batch) + 1 - i]].chunk.voice

\* The embedding the i-th chunk of a batch is given: results are keyed by the
\* chunk's id, and of several with one id the last is kept.
Heard(batch, i) ==
    LET same == {j \in DOMAIN batch : items[batch[j]].chunk.id = items[batch[i]].chunk.id}
    IN  items[batch[Max(same)]].chunk.voice

Hearings(batch) ==
    [i \in DOMAIN batch |-> [item |-> batch[i], voice |-> Heard(batch, i)]]

\* The store after a sequence of hearings
AfterHearing(hearings) ==
    FoldLeft(LAMBDA st, h : [st EXCEPT ![SessionOf(h.item)] = Assigned(@, h.voice)],
             store, hearings)

Works == workers[nextWorker + 1]

\* Mutant of Rotate: the position is not taken modulo the workers.
RotateOn == nextWorker' = nextWorker + 1

Rotate == nextWorker' = (nextWorker + 1) % Len(workers)

\* One turn of the loop; after the last batch the flush returns.
EmbedBatch ==
    /\ ~Unlocked /\ Works
    /\ LET batch == Head(flight)
           spoken == {[ item |-> h.item, voice |-> h.voice,
                        speaker |-> SpeakerOf(store'[SessionOf(h.item)], h.voice) ]
                         : h \in Range(Hearings(batch))}
           all == output \cup spoken
       IN  /\ store' = AfterHearing(Hearings(batch))
           /\ IF Tail(flight) = <<>>
              THEN /\ output' = {}
                   /\ segments' = segments \cup all
                   /\ gauge' = Backlog
              ELSE /\ output' = all
                   /\ UNCHANGED <<segments, gauge>>
    /\ flight' = Tail(flight)
    /\ Rotate
    /\ UNCHANGED <<batchVars, exported, forgotten, workers, now>>

\* The flush raises: what has left the queues and is not returned is lost, what
\* was assigned stays assigned, and the metric stays as it was.
Raise ==
    /\ flight' = <<>> /\ output' = {}
    /\ Rotate
    /\ UNCHANGED <<batchVars, exported, forgotten, workers, now, gauge, segments>>

WorkerRaises ==
    /\ ~Unlocked /\ ~Works
    /\ Raise
    /\ UNCHANGED store

\* assign refuses an embedding of the batch, after the first `done`.
AssignRaises ==
    /\ "embedding" \in Faults
    /\ ~Unlocked /\ Works
    /\ \E done \in 0 .. Len(Head(flight)) - 1 :
          store' = AfterHearing(SubSeq(Hearings(Head(flight)), 1, done))
    /\ Raise

ReplaceWorkers(list) ==
    /\ Unlocked
    /\ workers' = list
    /\ nextWorker' = 0
    /\ UNCHANGED <<batchVars, storeVars, flushVars, now, gauge, segments>>

\* The operations of the store, and a restore into the running service
StoreCall(s) ==
    /\ Unlocked
    /\ \/ \E k \in DOMAIN store[s].profiles : Rename(s, k)
       \/ ExportSession(s)
       \/ RestoreAll({s})
    /\ UNCHANGED <<batchVars, workerVars, flushVars, now, gauge, segments>>

\* The process ends; a new one starts from what was exported.
Restart ==
    /\ queued' = {} /\ pending' = [s \in Sessions |-> 0]
    /\ RestoreAll(Sessions)
    /\ nextWorker' = 0
    /\ flight' = <<>> /\ output' = {}
    /\ gauge' = 0
    /\ UNCHANGED <<items, workers, now, segments>>

\* flush_audio states time 0 when the client gives none.
ServiceNext ==
    \/ Tick
    \/ \E chunk \in Chunks : Submit(chunk)
    \/ \E at \in {0, now}, force \in BOOLEAN :
          FlushStarts(at, force) \/ FlushFindsNothing(at, force)
    \/ EmbedBatch \/ WorkerRaises \/ AssignRaises
    \/ \E list \in WorkerLists : ReplaceWorkers(list)
    \/ \E s \in Sessions : StoreCall(s)
    \/ Restart

\* Somebody keeps flushing, with the time of the clock, and a worker that is
\* called returns or raises.
ServiceSpec ==
    /\ ServiceInit /\ [][ServiceNext]_serviceVars
    /\ WF_serviceVars(Tick)
    /\ WF_serviceVars(FlushStarts(now, FALSE))
    /\ WF_serviceVars(EmbedBatch \/ WorkerRaises)

-----------------------------------------------------------------------------
(***************************************************************************)
(* Properties                                                              *)
(***************************************************************************)

(***************************************************************************)
(* The count that decides on backpressure is the number of a session's     *)
(* queued chunks, after any flush, failed or not: a count that is off by   *)
(* one refuses a session for good, long after.  The backlog the autoscaler *)
(* is told is never less than what is queued; it is more after a flush     *)
(* that raised.                                                            *)
(***************************************************************************)
CountsAreExact ==
    /\ \A s \in Sessions : pending[s] = Cardinality({n \in queued : SessionOf(n) = s})
    /\ gauge >= Backlog

(***************************************************************************)
(* A chunk waits in the queues, or is in one place of the flush that took  *)
(* it, or has one answer: the loop over a bucket rebuilds its deque after  *)
(* each batch and must select from the new one (batcher.py:62-66).         *)
(***************************************************************************)
AnsweredOnce ==
    /\ \A b, c \in DOMAIN flight : \A i \in DOMAIN flight[b], j \in DOMAIN flight[c] :
          flight[b][i] = flight[c][j] => b = c /\ i = j
    /\ \A b \in DOMAIN flight : \A i \in DOMAIN flight[b] :
          flight[b][i] \notin queued \cup ItemsOf(output \cup segments)
    /\ queued \cap ItemsOf(output \cup segments) = {}
    /\ \A x, y \in output \cup segments : x.item = y.item => x = y

(***************************************************************************)
(* docs/architecture.md: "worker restart or scale-out does not change      *)
(* identity continuity".  Two segments of a session carry one speaker      *)
(* exactly if they were heard as one voice, across flushes that raise,     *)
(* other workers, renames and restarts, unless speakers the session had    *)
(* were newer than its export when it was restored.                        *)
(***************************************************************************)
IdentityContinuity ==
    \A x, y \in segments :
        SessionOf(x.item) = SessionOf(y.item) /\ SessionOf(x.item) \notin forgotten =>
            (x.voice = y.voice <=> x.speaker = y.speaker)

(***************************************************************************)
(* What has been exported is never taken back: the speaker of an exported  *)
(* number keeps its number, its voice and its name in the running store,   *)
(* whatever is assigned after a restore.                                   *)
(***************************************************************************)
ExportedSurvives ==
    \A s \in Sessions : \A k \in DOMAIN exported[s].profiles :
        /\ k \in DOMAIN store[s].profiles
        /\ store[s].profiles[k].voice = exported[s].profiles[k].voice
        /\ exported[s].profiles[k].named => store[s].profiles[k].named

(***************************************************************************)
(* A batch mixes sessions, and its results are keyed by chunk id alone     *)
(* (service.py:63): a chunk is heard with its own voice, or with that of   *)
(* another chunk with the same id in the same bucket, which may be of      *)
(* another session.  Nothing else of one session reaches the speakers of   *)
(* another, returned or stored, whichever batch or flush fails.            *)
(***************************************************************************)
MayHear(n, voice) ==
    \E m \in DOMAIN items :
        /\ items[m].chunk.voice = voice
        /\ items[m].chunk.id = items[n].chunk.id
        /\ BucketOf(items[m].chunk) = BucketOf(items[n].chunk)

MixedByIdOnly ==
    /\ \A x \in segments : MayHear(x.item, x.voice)
    /\ \A s \in Sessions : \A k \in DOMAIN store[s].profiles :
          \E n \in DOMAIN items :
              SessionOf(n) = s /\ MayHear(n, store[s].profiles[k].voice)

(***************************************************************************)
(* docs/architecture.md: a batch is dispatched "when size, wait, or        *)
(* earliest deadline requires it".  Of each session the most urgent chunks *)
(* of a bucket leave first, and a bucket that dispatches at all sends the  *)
(* most urgent chunk of every session it holds, as long as they are not    *)
(* more than fit in a batch.  With more sessions those whose names come    *)
(* last may stay behind, even with the deadline that made the bucket ready.*)
(***************************************************************************)
SessionsIn(q) == {SessionOf(n) : n \in q}

UrgentLeaves ==
    [][\A b \in Range(BucketOrder) :
          LET q    == Bucket(b)
              gone == q \ queued'
          IN  /\ \A m \in gone, n \in q \ gone : SessionOf(m) = SessionOf(n) => Before(m, n)
              /\ gone # {} /\ Cardinality(SessionsIn(q)) <= MaxBatch =>
                    SessionsIn(gone) = SessionsIn(q)
      ]_serviceVars

(***************************************************************************)
(* Once clients stop sending, which the bound on chunks makes them do,     *)
(* every accepted chunk leaves the queues, if only the flushes state the   *)
(* time: max_wait_ms is a reason to dispatch whatever the batch size and   *)
(* the deadlines.  A flush without now_ms states time 0 and may find       *)
(* nothing ready for ever.                                                 *)
(***************************************************************************)
EverythingLeaves == (queued # {}) ~> (queued = {})

=============================================================================
