# CueBee: a TLA+ model of the streaming-inference runtime

CueBee keeps a revisable speech transcript, a token cache that follows it, and
analysis tasks that must never act on a transcript that is gone; beside it, it
gives the speakers of every session stable numbers. This directory models the
parts of `src/cuebee` in which that is decided, checks them with TLC on small
instances, and proves with TLAPS, for all values of their parameters, what the
transcript layer, the runtime, the cache, the vLLM bridge, the speaker service and
the autoscaler must never violate.

Paths below are relative to `src/cuebee/` unless they start with `docs/` or
`README.md`, which are the repository's.

## 1. Inventory

| Component | State | Operations | Talks to |
|---|---|---|---|
| `RevisionAdapter` (`revision_adapter.py`) | per (session, segment): last revision, finalized | `normalize` | called first by `handle_event` |
| `SessionManager` (`session_manager.py`, `tokenizer.py`) | per session: version, committed and tentative tokens, active segment, closed | `apply` | its diff drives invalidation and rollback |
| `VersionedKVManager` / `BlockPool` (`kv_metadata.py`) | reference-counted blocks, reference lists of sessions and branches | `append_session`, `rollback_tentative`, `commit_tentative`, `fork_branch`, `append_branch`, `release_branch` | called by runtime and branch graph |
| `BranchGraph` (`branch_graph.py`) | branch per task: status, base version, dependency interval | `create`, `invalidate`, `mark_running`, `complete`, `cancel` | holds cache references |
| `VersionDeadlineScheduler` (`scheduler.py`) | task per id: status | `submit`, `cancel`, `pop_next`, `complete`, `drop`, `shed_load` | called by runtime only |
| `FreshnessGate` (`freshness_gate.py`) | none | `evaluate` | last check before an output leaves |
| `CueBeeRuntime` (`runtime.py`) | the six above | `handle_event`, `submit_task`, `run_next`, `shed_load` | engine: `update_session`, `generate`, `abort` |
| Engine boundary (`engine.py`) | external | as above | may raise |
| vLLM bridge (`vllm_bridge.py`) | table of open streams, a bounded asyncio queue each | `open_session`, `update_session`, `open_branch`, `close_session_nowait`; `publish[_nowait]`, `close[_nowait]`, `inputs` of a stream | between the runtime and the engine |
| HTTP gateway (`api/server.py`) | one lock | every operation under the lock | runtime, speaker service |
| Speaker service (`speaker/batcher.py`, `service.py`) | buckets of chunks, pending counters, next worker | `submit`, `flush`, `replace_workers` | workers, speaker store |
| Speaker store (`speaker/session_store.py`) | per session: profiles, next number | `assign`, `rename`, `export_session`, `restore_session` | speaker service |
| Autoscaler (`speaker/autoscaler.py`) | replicas, last scale time, low-load windows | `observe` | whoever reads the metrics |
| VAD, worker, alignment, metrics, demo | none that is read back | | |

What is hard, and what makes each component correct:

* **Failure in the middle.** `handle_event` moves the adapter's cursor, then the
  version, then the branches, then the cache, then the engine, and any of the
  later steps may raise. What is left must still be consistent enough for the
  next event.
* **Answers that race revisions.** `engine.generate` runs for long. Behind the
  gateway's lock nothing overlaps it; an embedded runtime may handle events
  meanwhile, and the gate is what stands between an old answer and the user.
* **Two tables.** A task exists in the scheduler and in the branch graph, each
  with its own status, changed by different calls.
* **Sharing.** A session and its branches refer to the same blocks, and each
  writes into partly filled ones.
* **Boundaries.** Token prefixes, guards, frontiers and block ends meet in the
  interval a revision reports as changed.
* **Order of callbacks.** The vendor repeats, reorders and restarts.
* **Streams that outlive their ids.** `open_session` hands the stream out and the
  table forgets it on close; both sides go on using it. An id opened again has a
  second stream beside the first, and no order holds between the two.
* **Batches across sessions.** Chunks of different sessions share a batch, a
  worker and a failure, and are told apart by chunk id alone; which chunk leaves
  when depends on sizes, waits, deadlines and the names of the sessions.
* **Identity over restarts.** Speaker numbers live in a store that is exported and
  restored by hand.

`PROJECT.json` lists the hazards one by one, with the line where each bites and
the properties that watch it.

## 2. Modules

```
Transcript ── Runtime ── RuntimeProperties ── MCRuntime
    │  └── MCTranscript        │
    └── TranscriptProofs ── RuntimeProofs ── RuntimeTaskProofs (TLAPS)
TokenStore ◄─implements── KVCache ── MCKVCache
                             └── KVCacheLemmas ── KVCacheProofs (TLAPS)
InputStream ── Bridge ── BridgeProofs (TLAPS)
AudioChunks ─┬─ SpeakerBatching ─┬─ SpeakerService ── MCSpeaker
             └─ SpeakerStore ────┘        └── SpeakerProofs (TLAPS)
Autoscaler ── AutoscalerProofs (TLAPS)
```

**`Transcript`** is the adapter in front of the session manager. `revision` and
`finalized` are `_SegmentCursor`; `version`, `committed`, `tentative`, `active`
and `closed` are the fields of `ConversationSession`. One action is one
`SessionManager.apply`: `Revise` and `CommitFinal` for content, `Relabel` and
`CloseSession` for metadata, `RefuseClosed` and `RefuseLate` for its exceptions
(`RefuseLate` moves the version, as the code does), `Drop` for what the adapter
rejects. A text is the token sequence its encoding gives: only equality of
prefixes matters to the code. `APPEND_PARTIAL` and `REVISE_PARTIAL` are one
action because the adapter derives the one from the other and nobody looks
again. Vendor revisions are bounded by `MaxRevision`.

**`Runtime`** extends it with everything `CueBeeRuntime` owns.
`handle_event` is one of `EventRefused`, `MetadataEvent`, `ContentInterrupted`
(cancelling an orphan branch raised `KeyError`), `ContentAsserts` (the prefix
assertion), `ContentKept` (nothing is prefilled), `ContentPublished` and
`ContentUnpublished` (`update_session` raised). `submit_task` is `SubmitTask`,
`SubmitRefused` (admission cap) or `SubmitUnreadable`. `run_next` is split at
the engine call: `RunNext` pops the task, marks both tables and fixes the
prompt; `OutputAllowed`, `OutputWithheld` or `GenerateFails` is the rest.
`resident` is what `kv.session_tokens` returns, `promoted` the length of its
committed part, `branchTokens` what a live branch holds of the session (its
private prompt is left out); the block structure behind them is `KVCache`.
`view` and `viewFrontier` are the engine's copy of a session: the updates it was
sent, folded. The engine is outside the repository; the runtime only relies on
its replacing tokens from `replace_from` on.

`Overlap = FALSE` is the gateway: `Application.lock` is held through the engine
call. `Overlap = TRUE` is a runtime embedded without the lock, with operations
arriving while the engine generates, which `docs/architecture.md` expects ("an
abort may race an in-flight forward pass") and
`docs/vllm-integration.md` asks to be tested. Only one `generate` is in flight
at a time. The score of the scheduler and the confidence and load of the prefill
policy are left open: any candidate may be popped, and a tail of sufficient
length may or may not be prefilled.

`Faults` switches the failures on: `"unreadable"` (the tokenizer raises: a lone
surrogate under UTF-8; also a malformed relabel), `"publish"`
(`update_session` raises: full queue, closed or unknown stream) and `"engine"`
(`generate` raises).

**`KVCache`** is `VersionedKVManager` over `BlockPool`, one action per path of
an operation: into new blocks, in place, or by copy. Block ids carry no meaning,
so the model takes any unused ones and `MCKVCache` identifies states that differ
in ids only. What a loop that skips some references collects is `Kept`; that it is
what `SelectSeq` gives, which is recursive and out of the provers' reach, is an
assumption of `MCKVCache` that TLC evaluates. **`TokenStore`** is what its callers rely on: every
session and branch has a token sequence of its own. `KVCache` implements it
under the mapping `content`/`lent` = the tokens behind the references, `firm` =
the end of the committed ones.

**`InputStream`** is the `VLLMInputStream` objects: asyncio queues with the
waiting and the `_nowait` forms of publish and close. A putter that is woken runs
later, after whatever the event loop runs before it, and tests the queue again;
that is how asyncio.Queue works, and what makes overtaking possible. It has a
specification of one stream by itself. **`Bridge`** extends it with the table of
`VLLMRevisionBridge`: `OpenSession`, `UpdateSession`, `OpenBranch` (the stream of
two slots and the fork request in it are one step, as no `await` comes between)
and `CloseSessionNowait`, which frees the id even when the full queue makes it
raise. A stream that has been handed out may be published to, closed and read
whether an id leads to it or not. `origin` remembers for the properties what each
stream was constructed for.

**`AudioChunks`** is the record a client sends: the samples are the voice they
are of. **`SpeakerBatching`** is `SpeakerMicroBatcher`. An item is the number of
the call that accepted it, so that the set of numbers in a bucket is its deque.
`FairSelect` is the round robin of `_fair_select` said by rank: a chunk's round is
the number of more urgent chunks of its session, and a batch is the first
`MaxBatch` chunks by round and session name, each at its `Place`; `Batches` is the
loop of `pop_ready` over one bucket. The thresholds of the buckets and the 100 ms of patience are the
code's. **`SpeakerStore`** is `SpeakerSessionStore`, with an embedding as the
voice it belongs to: two embeddings of one voice are similar enough for
`assignment_threshold`, two of different voices are not, and the centroid moves
within its voice. **`SpeakerService`** composes them as the gateway does, under
its lock. `flush` is `FlushStarts` (everything up to the loop over the batches,
which have left the queues by then) and one `EmbedBatch` for each turn of the loop;
the last one returns. Between them only the process may end, or the flush may
raise: `WorkerRaises`, or `AssignRaises` after any number of a batch's chunks.
`Restart` is the end of the process and a new one restored from the latest
exports; `StoreCall` also restores into the running service. `segments` remembers
what was returned; like `output` it is a set, since no property is about the order
of the answers and `AnsweredOnce` says that no two are alike.

**`Autoscaler`** is `SpeakerAutoscaler.observe`, one action for each way through
it. Time since the last scaling and the count of low windows are kept up to the
values from which on they change nothing, which makes the state finite without a
bound on time. Loads are what the formulas tell apart: the workers the arriving
audio asks for, the backlog in quarters of its target, and whether utilization is
below 0.65 of its target. `recent`, `age` and `closest` are history, written from
the observations and the replicas and never from the counters the code decides by.

Operators marked *Mutant* in a comment are used by no specification. Each is the
definition below it with one plausible mistake; substituting it makes TLC report
the property named in `PROJECT.json`, which shows that the property can fail.

## 3. Runs

| Run | Instance | What it shows |
|---|---|---|
| `transcript` | 1 session, 2 segments, revisions 0..2, 5 texts (equal, extending, diverging, unrelated), guard 1; 5 thousand states | `DiffSound`, `SpineOnlyGrows`, `CommitsOnce`, `VersionNamesTranscript`, `TailOwnerIsOpen` |
| `runtime_races` | 1 session, 2 segments, revisions 0..1, 2 texts, 2 tasks of a tail and a spine kind, engine overlaps, failing updates; 370 thousand states | `ResidentIsPrefix`, `EngineHoldsResident`, `UpdatesSpareCommitted`, `HeldTokensAreCurrent`, `SpineTasksSurvive`, `RunningIsInFlight`, `OutputIsFresh` |
| `runtime_faults` | the same with unreadable texts and prompts, a failing engine and admission cap 1; 470 thousand states | `TablesAgree`, `NothingElseLeaks`, `DecidedForGood`, `EventClearsStaleBranches` |
| `gateway` | 2 sessions, 2 segments, revision 0 only, lock held, 2 tasks, fairness; 420 thousand states | `LockMakesGateRedundant`, `TasksAreDecided` |
| `kv_cache` | 1 session, 2 branches, blocks of 2, sequences up to 3 tokens, inputs of 1 to 3 tokens; 115 thousand states | `RefCountsExact`, `RefsTile`, `ImplementsTokenStore` |
| `input_stream` | 2 ids, 3 streams, queues of 1 (sessions) and 2 (branches), 3 updates; 310 thousand states | `OnlyWaitersAreOvertaken`, `PublishedArrives`, `UnlistedIsClosed`, `LivesAreSeparate` |
| `speaker` | 2 sessions, 2 voices, 3 chunks of 4 kinds, batches of 2, at most 2 pending, wait of 1, clock 0..2, a good and a broken worker; 660 thousand states | `CountsAreExact`, `AnsweredOnce`, `IdentityContinuity`, `ExportedSurvives`, `MixedByIdOnly`, `UrgentLeaves`, `EverythingLeaves` |
| `autoscaler` | 1 to 4 replicas, cooldown 3, 3 windows, 2 arrivals, 3 backlogs, intervals 0..2; 25 thousand states | `ChangesAreEarned`, `FollowsDemand` |

Four more runs check one sentence of the repository each and end in a
counterexample:

| Run | Claim | What the code does |
|---|---|---|
| `tail_tasks` | `README.md:142` "Tail-dependent tasks are cancelled when their transcript version changes." | the version moves before an event is refused, and then nothing is cancelled |
| `engine_failure` | `docs/vllm-integration.md:68`, reference counts return to baseline after failure | `generate` raising leaves task and branch RUNNING and the references held |
| `unreadable_prompt` | the assertion at `runtime.py:142` | a prompt that cannot be encoded leaves an orphan branch, and the second revision after it trips the assertion |
| `stream_close` | `vllm_bridge.py:53` "until closed" | `close_nowait` on a full queue puts no marker, and `inputs()` never ends |

None of them lets a stale output through: `OutputIsFresh` holds in every
instance, and the first failure is repaired by the next accepted event
(`EventClearsStaleBranches`).

**Bounds.** Two segments are needed for overlap and for the blank in front of a
later segment; two revisions for a revision, a duplicate and a final of each.
Two tasks of the two kinds of dependency are enough for one to be in flight while
the other is shed, refused or popped. Two tokens per text suffice to diverge at
the first or at a later token, and with `GuardTokens = 1` to cut back into the
common part. `gateway` needs two sessions and overlapping segments (a refused
event makes a queued task stale), and pays for them with one revision per segment
and a `MinTail` that leaves prefilling to finals. There nothing overlaps the
engine; that an answer which races a revision, a refused event or load shedding
still decides its task is the safety property `RunningIsInFlight` of
`runtime_races`. Blocks of two tokens with sequences of three give full, partly
filled and straddled blocks. Two ids and three streams give an id a second life
while a branch of the first is open, and a queue of one lets a putter wait, be
woken and be overtaken within three updates. Three chunks give a full batch and a
remainder in one bucket, or
batches of two buckets in one flush with the broken worker first or second; the
two sessions use one chunk id for different voices, session 1 has a chunk with a
deadline and one without, and session 2 one that is late when it arrives. Chunks
are accepted up to `LastSubmit`, so that the clock can run out every wait.
`Segments` is a symmetry set in the two safety runs: no definition or property
distinguishes segments. The `VIEW` of `kv_cache` forgets block ids and keeps what
every reference holds and which references share a block, which is all that
guards and properties read; blocks nobody refers to are kept apart, so that a
leak is seen.

**Fairness.** `gateway` assumes that somebody keeps calling `run_next` (the
gateway's `tick`) and that `generate` returns; nothing is assumed of callbacks
or submissions. It does not hold of an engine that raises, which is the
`engine_failure` run. `Bridge` assumes that the event loop runs ready tasks
and that the engine iterates `inputs()` of every stream. `SpeakerService` assumes
that time passes, that somebody keeps flushing with the time of the clock, and
that a worker returns or raises; nothing of forced flushes or of flushes that
state time 0, which is what the gateway fills in. `EverythingLeaves` is about
clients that stop sending: while others keep sending, the sessions whose names
come last may wait for ever if they are more than a batch holds, because every
batch starts from the first name. `Autoscaler` assumes that somebody keeps
observing, at different times.

**Deadlock** is not checked where the bounds let the system stop: when all
revisions and tasks are used up.

## 4. Proofs

`TranscriptProofs` proves about `Transcript`, for every set of sessions,
segments and texts, every guard, bound and combination of faults:

* `TypeCorrect`: `TypeOK` is inductive.
* `DiffIsSound`: `DiffSound` follows from `TypeOK` alone. `CommonPrefix` is
  defined by counting the lengths on which two sequences agree, which needs no
  recursion; `CommonPrefixProperties` shows by the cardinality of intervals that
  the sequences agree exactly up to it. From that the guard only shortens the
  prefix (`TokenLcpProperties`), what is kept of the tail is common to both
  (`KeptProperties`), and the interval is sound (`TypedDiffSound`).
* `SpineGrows`, `SegmentsCommitOnce`: from `SpineStep`, which says an event
  leaves the spine alone or appends one tail while it finalizes a segment.
* `VersionsNameTranscripts`: every action that writes tokens or closes a session
  contains `Bump`.
* `TailOwnerStaysOpen`: inductive together with `TypeOK`, under the assumption
  that no text is unreadable. The assumption is needed: a final whose text cannot
  be encoded is finalized in the adapter and never applied, and the session then
  refuses every other segment.

They rest on `TranscriptAssumption` only: texts are non-empty token sequences
(`STTEvent` rejects empty text) and the parameters are natural numbers.

`RuntimeProofs` proves about `Runtime`, for any number of sessions, segments and
tasks, every combination of faults, and with or without overlap:

* `RuntimeImplementsTranscript`: every step of the runtime is a step of `Transcript`
  or leaves its variables alone. All of the theorems above therefore hold of the
  runtime, and the proofs below use them.
* `RuntimeTypeCorrect`. Types alone are not inductive: a cut keeps a prefix of
  what is cached or of what the engine has, and a prefix of something too short
  is not a sequence of tokens. The invariant is `RuntimeInv` = `RuntimeTypeOK` and
  `Cached` (the cache is a prefix of the engine's copy, and the engine's frontier
  is inside the cache and inside the spine) and `Numbered` (a task has a status
  only once its branch was created).
* `EngineHoldsTheCache` and `CommittedIsSpared` follow from it. `Cached` survives
  an update that raises because the cache is rolled back before the engine is told,
  and a rollback stops at the frontier.

`RuntimeTaskProofs` adds the tasks. Its invariants are three, each inductive
together with the ones before:

* `TaskInv` (`Tracked`, of every task with a branch): what the two tables say of it
  fits together, also when it is in flight or stale; no branch is of a version
  still to come; a spine task depends on nothing past the frontier. From it:
  `TablesStayTogether`, `SpineTasksAreSafe`, `LeaksAreKnown`, `DecisionsAreFinal`,
  `EventsClearStaleBranches`, and `GateIsRedundantBehindTheLock`.
  `RunningTasksAreAwaited` needs only `RuntimeInv` and that generate does not raise
  (`"engine" \notin Faults`); the run `engine_failure` shows why.
* `FreshInv` (`Prompted`): as long as a tail task is of the session's current
  version, the prompt it runs with is the whole transcript; the prompt of a spine
  task is a prefix of the spine and covers its dependency. From it:
  `AllowedOutputsAreFresh`.
* `BackedInv`: no branch is an orphan, the cache is a prefix of the transcript,
  and a live branch holds the beginning of it. From it: `CacheFollowsTranscript`,
  `AssertionHolds`, `LiveBranchesHoldCurrentTokens`. These three, and only
  these, assume that everything can be encoded (`"unreadable" \notin Faults`).
  The run `unreadable_prompt` shows that they are false without it: a prompt that
  cannot be encoded leaves an orphan, and the next revision but one trips the
  assertion.

`BridgeProofs` proves about `Bridge`, for any ids, queue limits and number of
holders and updates: `BridgeTypeCorrect`, `OnlyWaitersFallBehind`,
`LostStreamsAreClosed`, `EarlierLivesAreOlder` and `BranchesStartWithTheirFork`.
`EarlierLivesAreOlder` orders the calls that publish under one id, not what the engine
reads: section 5 says what stays open. `BranchesStartWithTheirFork` (`ForkComesFirst`)
holds of every single call and is only proved, not a run's property. All of them are parts of one inductive invariant, `BridgeInv`:

* `Straight`, of every stream: nothing in it is newer than the latest call, what
  `publish_nowait` put there is not also waiting, and of what was read or queued
  nothing newer is in front of it;
* `Forked`, of every stream of a branch: what was read first, or will be, is its
  oldest update, and not the closing marker;
* `Filed`: the table leads an id to a stream made for it, and every stream it does
  not lead to is closed;
* `Lives`: of two streams of one id the earlier is closed and all it holds is older.

The argument avoids a case for every pair of an action and a conjunct. `HolderMoves`
and `BridgeMoves` show that a step of the specification makes, with each stream, one
of nine moves (nothing, put, put by a woken waiter, wait, close, wait to close,
drop the marker, take, finish), or lists a new one. `MovedHeld` and `MovedPassed`
say what a move does to the items a stream holds; the four conjuncts are then
preserved by moves (`StraightKept`, `ForkedKept`, `FiledKept`, `LivesKept`). The
proofs rest on `StreamAssumption` and `BridgeAssumption`: queues hold at least one
item, the streams of branches at least two.

`AutoscalerProofs` proves about `Autoscaler`, for all bounds, cooldowns, numbers
of windows, loads and intervals:

* `ScalerTypeCorrect`: the replicas stay between the bounds and the counters in
  range.
* `ScalingIsEarned`: changes are a cooldown apart, and workers are taken away only
  after `scale_down_windows` low observations in a row.

The second speaks of a history the code does not keep, and needs an invariant:
`ScalerInv` ties the code's counters to it: the time since the last scaling is
the time since the replicas changed, and the windows counted are the latest
observations, every one of them low for the replicas there are
(`LatestAreLow` carries that over one more observation). It also says that every
change so far came after a cooldown. The proofs rest on `ScalerAssumption` only:
the parameters are natural numbers, and the minimum is positive and not above the
maximum, which is what the constructor of `SpeakerAutoscaler` checks of the bounds.

`KVCacheProofs` proves about `KVCache`, for any sessions, branches, inputs, block
size and bounds: `CacheTypes`, `CountsAreReferences`, `ReferencesTile` and the
refinement `CacheIsTokenStore`. None of the first three is inductive alone: a block is released
when its count comes to zero, which is right only if the counts are exact; it is
rewritten in place when its count is one or its reference is a branch's own, which
spares the other lists only if the counts are exact and private blocks are private;
and a rollback finds its cut by the offsets. `CacheInv` (`CacheInvHolds`) is all of
them together, over one table of lists that holds the sessions and the branches:

* `PoolOK`, the blocks; `Counted`, the count of a block is the number of its slots,
  a slot being a place in a list that refers to it; `Laid`, every list tiles; `Sole`,
  a reference of a branch that is not marked shared is the only one to its block;
  `FirmFirst`, the committed references of a session come first.

Every action but `ForkBranch` replaces one list: its first m references keep their
blocks, the others are counted off, and what follows refers to new blocks
(`Replaces`). `KVCacheLemmas` shows that this alone preserves `Counted`, `Laid` and
`Sole`: the slots of a block change by the removal of a known set (`ReplacedSlots`,
`LostSlots`), so its count does; a block that is written to has one slot and so is in
no other list (`OneSlot`). `KVCacheProofs` then shows of each path of each operation
that it is such a replacement (`StepReplaces`, and `AddsBlocks`, `GrowsInPlace`,
`GrowsByCopy`, `Truncates`, `CutsByCopy`, `KeepsPrefix`, `RelabelReplaces` for the
shapes it takes), where a rollback cuts (`CutPoint`), and that `ForkBranch` adds
slots where it adds to the counts (`ForkedSlots`). `CommittedArePrefix` is why a fork
without the tail copies a prefix.

`CacheIsTokenStore` says that `KVCache` implements `TokenStore`. What a list reads is
its blocks' texts one after another (`Reads`), flattened by a recursive function;
`RunsExist` and `RunsAgree` unroll it, by the same induction over the numbers as in
`SpeakerProofs`, and give `FlattenConcat`, `FlattenChunks` (cutting tokens into blocks
loses none) and `FlattenCut` (where a prefix of the whole ends inside one text). On
the invariant's steps the argument adds two facts. The list that is replaced keeps its
first m texts and has known ones behind them (`Carries`), whichever path the operation
takes: `ReadsAppended`, `ReadsFilled`, `ReadsCut` and `ReadsKept` say what it reads
then. Every other list reads what it read (`OthersUntouched`, `UntouchedReads`),
because a block that is rewritten or freed has no slot in it: this is where isolation
comes from the exact counts. The committed end stays through appends and rollbacks
since no committed reference is behind the cut (`FirmKept`, `FirmBelow`).
`NextImplements` puts the actions together. The proofs rest on `CacheAssumption`: the block
size is positive, inputs are not empty, and the block ids that may exist at once are
finitely many.

`SpeakerProofs` proves about `SpeakerService`, for any sessions, voices and chunks,
any batch size, wait and limit, and any lists of workers: the type invariant
(`SpeakerTypeCorrect`), the five safety invariants (`CountsExact`,
`ChunksAnsweredOnce`, `ExportsSurvive`, `IdentityContinues`, `VoicesMixedByIdOnly`)
and the action property of the batcher (`MostUrgentLeave`). It has two halves.

The first says what the operators of the batcher and the store compute, which takes
induction: over the numbers for a recursive function, over finite sets for a fold.
The library's induction theorems take an operator as a parameter, which the provers
cannot instantiate. `NoLeast` and `SmallestSet` avoid the operator: the values a fact
fails for are a set, a non-empty set of numbers has a least member (`LeastNat`, from
`WFMin`), and the step leads from it to a smaller one. `Recursion` and
`SetRecursion` then give the functions that a LET or a fold chooses. On these rest:

* the backlog: a sum does not depend on the order it is taken in (`LoadWithout`), and
  is no larger over fewer chunks (`LoadMonotonic`);
* fair selection: in a finite ordered set the number of smaller elements is a rank
  that every position has exactly once (`Ranks`), so that the batch of `FairSelect`
  is the first `MaxBatch` candidates by turn, without a repetition (`FairSelection`,
  `SelectedFacts`), and holds the most urgent chunk of every session when these fit
  (`EverySessionHasATurn`);
* the loop over a bucket: after k batches as many chunks are gone as k full batches
  hold, so that every turn finds some (`RemainingMany`, `BatchCountFacts`), the batches
  are disjoint (`BatchesDrain`), and what has left is more urgent than what stays
  (`FlushTakesUrgent`); the three buckets together are `RipeTakes`;
* the store after a batch: a fold over its hearings, unrolled into a history
  (`HistoryExists`), knows what it knew before and what was heard, and nothing else
  (`AfterHearingLearns`), however far the batch got.

The second half is the inductive invariant `SpeakerInv` (`SpeakerInvariant`). The
properties alone are not inductive. `IdentityContinuity` speaks of what was returned,
but a segment is compared with speakers that are still to be numbered: the invariant
says instead that every answer, returned or not, names a profile of its voice in the
store (`Names`), and that no two profiles of a session have one voice (`Distinct`).
`MixedByIdOnly` must also hold of the exports a restore brings back (`Sourced`), and
needs that a batch in flight is of one bucket (`OneBucket`). A restore keeps the
answers of a session it does not count as forgotten because `ExportedSurvives` makes
the store and an export with as many speakers agree on all of them (`RestoreFits`).
The proofs rest on `ChunkAssumption` (chunks are typed and sessions ordered),
`BatchingAssumption` (limits are positive) and `ServiceAssumption` (the service has a
worker).

Only model-checked: all liveness (`TasksAreDecided`, `PublishedArrives`,
`FollowsDemand`, `EverythingLeaves`), which needs fairness and ENABLED.

## 5. Not modelled

* HTTP routing, JSON, metrics other than the backlog, the demo, the benchmarks: no
  state that the properties are about.
* VAD, embeddings and alignment: floating-point functions without state. What they
  return is an input of the speaker modules. Whether real embeddings of one voice
  stay on one side of the threshold while its centroid drifts is outside a model
  that has no numbers for it.
* `client_epoch` and `seq_no`: `docs/architecture.md` says they make replay
  idempotent; the code carries and never compares them, and revisions alone do
  (`CommitsOnce`). A client that restarts and counts its revisions from 0 again is
  taken for a repetition.
* The order between a branch's fork request and the updates of its source: they
  travel in different queues, and only the engine could compare the versions. The
  same holds of two streams of one id. `LivesAreSeparate` says that each update
  is in the stream of the life it was published in, but after open, update 1, close,
  open, update 2 the engine may read 2 from the second stream before 1 from the first.
* The vLLM fork under `third_party`: not in the repository.

## 6. Plan

Done: all modules of the plan, the proofs of every safety and action property a run
checks, and both refinements as theorems. Open: the not modelled parts of section 5.
