--------------------------- MODULE SpeakerBatching ---------------------------
(***************************************************************************)
(* SpeakerMicroBatcher (speaker/batcher.py): audio chunks wait in three    *)
(* buckets by duration and leave in batches that mix sessions.  An item is *)
(* the number of the enqueue call that accepted it, so that the numbers    *)
(* in a bucket are the order of its deque.  A refused enqueue changes      *)
(* nothing but a counter nobody reads and is no step.  Times are           *)
(* milliseconds, as the caller states them.                                *)
(***************************************************************************)
EXTENDS AudioChunks, FiniteSets, Sequences, SequencesExt

CONSTANTS
    MaxBatch,      \* max_batch_size
    MaxWait,       \* max_wait_ms
    Slack,         \* dispatch_slack_ms
    PerSession     \* per_session_pending

ASSUME BatchingAssumption ==
    /\ MaxBatch \in Nat \ {0} /\ MaxWait \in Nat \ {0} /\ PerSession \in Nat \ {0}
    /\ Slack \in Nat

VARIABLES
    items,         \* every QueuedChunk accepted so far
    queued,        \* those in _buckets
    pending        \* _pending_by_session

batchVars == <<items, queued, pending>>

Patience   == 100  \* what enqueue grants a chunk without a deadline

BatchInit ==
    /\ items = <<>>
    /\ queued = {}
    /\ pending = [s \in Sessions |-> 0]

SessionOf(n) == items[n].chunk.session

\* The names of the buckets, sorted
BucketOrder == <<"long", "medium", "short">>

BucketOf(chunk) ==
    CASE chunk.length <= 1000 -> "short"
      [] chunk.length \in 1001 .. 3000 -> "medium"
      [] OTHER -> "long"

Bucket(b) == {n \in queued : BucketOf(items[n].chunk) = b}

Backlog == MapThenSumSet(LAMBDA n : items[n].chunk.length, queued)

Enqueue(chunk, at) ==
    /\ pending[chunk.session] < PerSession
    /\ items' = Append(items,
          [ chunk |-> chunk, enqueued |-> at,
            deadline |-> IF chunk.due = NoDeadline THEN at + Patience ELSE chunk.due ])
    /\ queued' = queued \cup {Len(items) + 1}
    /\ pending' = [pending EXCEPT ![chunk.session] = @ + 1]

\* Mutant of Waited: only a wait longer than the limit counts.
WaitedBeyond(q, at) == \E n \in q : at - items[n].enqueued > MaxWait

Waited(q, at) == \E n \in q : at - items[n].enqueued >= MaxWait

Ready(q, at) ==
    \/ Cardinality(q) >= MaxBatch
    \/ Waited(q, at)
    \/ \E n \in q : items[n].deadline <= at + Slack

\* The order of the candidates: by deadline, then by arrival
Before(m, n) ==
    LET x == items[m]
        y == items[n]
    IN  \/ x.deadline < y.deadline
        \/ x.deadline = y.deadline /\ x.enqueued < y.enqueued
        \/ x.deadline = y.deadline /\ x.enqueued = y.enqueued /\ m < n

\* Mutant of Round: a session gives its least urgent chunk first.
RoundLatest(n, q) == Cardinality({m \in q : SessionOf(m) = SessionOf(n) /\ Before(n, m)})

\* In which turn of its session a candidate is taken
Round(n, q) == Cardinality({m \in q : SessionOf(m) = SessionOf(n) /\ Before(m, n)})

\* Sessions take turns in the order of their names, each with its most urgent chunk.
TurnBefore(m, n, q) ==
    \/ Round(m, q) < Round(n, q)
    \/ Round(m, q) = Round(n, q) /\ SessionOf(m) < SessionOf(n)

\* How many candidates are taken before one
Place(n, q) == Cardinality({m \in q : TurnBefore(m, n, q)})

\* _fair_select: the first candidates, in the order of their turns, up to the limit
FairSelect(q) ==
    [i \in 1 .. Min({MaxBatch, Cardinality(q)}) |-> CHOOSE n \in q : Place(n, q) = i - 1]

\* How often the loop over one bucket turns; after the first batch only a full
\* one is a reason to go on, unless the flush is forced.
BatchCount(q, at, force) ==
    LET full == Cardinality(q) \div MaxBatch
    IN  CASE q = {}                -> 0
          [] q # {} /\ force       -> (Cardinality(q) + MaxBatch - 1) \div MaxBatch
          [] q # {} /\ ~force      -> IF Ready(q, at) THEN Max({1, full}) ELSE 0

\* Mutant of Batches: every batch is selected from the bucket as it was at first.
BatchesOfOld(q, at, force) == [k \in 1 .. BatchCount(q, at, force) |-> FairSelect(q)]

\* The batches of one bucket
Batches(q, at, force) ==
    LET left[k \in 0 .. Cardinality(q)] ==
            IF k = 0 THEN q ELSE left[k - 1] \ Range(FairSelect(left[k - 1]))
    IN  [k \in 1 .. BatchCount(q, at, force) |-> FairSelect(left[k - 1])]

\* What pop_ready returns
Ripe(at, force) ==
    LET of(i) == Batches(Bucket(BucketOrder[i]), at, force)
    IN  of(1) \o of(2) \o of(3)

\* Mutant of PendingWithout: a session is counted down once per flush.
PendingWithoutOnce(gone) ==
    [s \in Sessions |-> IF \E n \in gone : SessionOf(n) = s THEN pending[s] - 1 ELSE pending[s]]

PendingWithout(gone) ==
    [s \in Sessions |-> pending[s] - Cardinality({n \in gone : SessionOf(n) = s})]

\* pop_ready takes the batches out of their buckets.
Pop(batches) ==
    LET gone == UNION {Range(batch) : batch \in Range(batches)}
    IN  /\ queued' = queued \ gone
        /\ pending' = PendingWithout(gone)
        /\ UNCHANGED items

=============================================================================
