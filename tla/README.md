# causalab: a verification project

TLA+ models of causalab's core logic, TLC runs that check them on small
instances, and proofs of the results that matter most for every instance.  All
paths below are relative to the repository's root.

## What the system is

causalab runs causal-abstraction experiments.  An experiment is a *protocol
document*; a *workflow document* schedules several of them, with scripts,
decisions and gates, over one run tree that later runs resume.

| component | where | state it keeps | operations | made correct by |
|---|---|---|---|---|
| run tree | `causalab/workflow/manifest.py`, `runner.py` | `<step>/`, `.attempts/<step>/<n>`, `<n>.previous`, `<n>.superseded`, each with a record | attempt, verify, publish, restore, retain, prune | a published unit is complete, unique, never lost |
| workflow runner | `workflow/runner.py`, `derived.py` | `workflow.json`, memory of the run, the skips | walk the schedule: skip, reuse, attempt; narrate; write the manifest | the manifest is true of the tree and the stream through any stop |
| event stream | `io/events.py` | `events.jsonl`, the counter | open, emit, read back, `terminal` | gap-free, never appended to when unreadable |
| schedule words | `workflow/conditional.py`, `manifest.py` | none | `fold_skips`, `skipped_via`, `classify_unreached` | one word per step, agreeing with the graph |
| decisions, conditionals, receipts | `workflow/conditional.py` | `decision.json`, verdicts | decide, evaluate, gate, `check_receipt`, `evidence_holds` | nothing stands on evidence that moved |
| fan-out, nested workflows | `workflow/fan_out.py`, `nested.py` | shards, joins, sub-roots | expand, join, bind to children | a join stands on its children as they are |
| behavioral steps, control ledger | `workflow/behavioral.py`, `reduction.py`, `runner.py` | counts, control statuses | score, decide, certify | statuses of a control reach its dependents |
| document loader | `workflow/document.py`, `pins.py` | none | parse, static rules, canonical digests | identity covers what the run depends on |
| protocol language | `causalab/protocol/` | none | validate, compile, plan, sweep | each point planned once, splits disjoint |
| engine-neutral execution | `causalab/neural/shared/` | caches | featurize, intervene, compile | a cached value is the value |
| pytorch hooks engine | `neural/engines/pytorch_hooks/` | captured graphs, buffers | train, evaluate, capture, replay | a replay reads what was staged for it |
| nnsight engine | `neural/engines/nnsight_tracing/` | none | trace | |
| fastersafetensors read path | `crates/fst-core/src/read/` | staging ring, work queue, first failure | acquire, read, copy, release, cancel | every piece lands once; no buffer reused under a copy; nobody waits for ever |
| fastersafetensors write path | `crates/fst-core/src/write/`, `crates/fst-cuda/src/cudart.rs` | drain ring, pool of pinned buffers, temporary file | stream, drain, finish, commit, undo | a file's blocks are its own; the old object or the new one |
| fastersafetensors planning and format | `crates/fst-core/src/plan.rs`, `select.rs`, `format/` | none | coalesce, select, split | pieces cover what was asked once |
| distributed load | `causalab/io/fastersafetensors/_distributed.py` | chunks in flight | plan, read ahead, check, exchange, broadcast | every rank enters the same collectives; each tensor yielded once, after its bytes |
| causal models, tasks, analysis, plots, scripts | `causalab/causal`, `tasks`, `analysis`, `io/plots` | none | pure computation | |

**How they interact.**  `run_workflow` walks the loader's schedule.  For each
step it restores the run tree, appends to the stream, and then skips, reuses or
attempts it: an attempt calls an engine or a script, whose outputs land in the
run tree by a rename.  A conditional's record folds skips into the steps after
it.  In the `finally` the runner reads its own lines back from the stream and
writes `workflow.json` from them.  A later run opens the same tree and stream.

Below it, `io/fastersafetensors` loads and saves tensors.  A load over a process
group plans each request alike on every rank, has worker threads read chunks
ahead of need, and delivers them in rounds of collectives.  Each chunk is one
`execute` of the Rust core: file workers and readers that share a queue, a ring
of pinned buffers and one copy stream.  A write drains device memory through a
ring of its own; rings of all calls take their buffers from one pool and their
copies go through one stream of the process-wide runtime.

**Hard behaviours.**  A kill or an interrupt between any two file-system
operations; a stream, a manifest and a tree that are written one after the
other; reuse of units whose document, inputs or evidence have moved; skips that
travel through the graph twice, once in the run and once for the steps it never
reached; threads of a read sharing a ring of buffers, a flag and a condition
variable; copies in flight into buffers that change hands; ranks that fail
alone between two collectives; a loss of power between a rename and the
synchronization of its directory.  `PROJECT.json`
lists each hazard at its line with the properties that would catch it.

## Modules

| module | models | status |
|---|---|---|
| `PublicationStore` | what a run tree promises: per step at most one live unit, the past ones kept | abstract |
| `RunTree` | the tree at the granularity of its renames and writes | checked, proved |
| `EventLog` | `events.jsonl` and the opening that appends to it | used by the runner |
| `Schedule` | the words and skips of a graph; constants only | used below |
| `ScheduleWalk` | the walks of `Schedule` against definitions over the whole graph, on every graph of `N` steps | checked, proved |
| `WorkflowRunner` | runs over one tree: loop, narration, verdicts, joins, reuse, manifest, stops, edits | checked, safety proved |
| `ReadJob` | what `execute` promises its caller | abstract |
| `StagingRing` | the ring of pinned buffers, its mutex and condition variable, and the copy stream | used by the pool |
| `ReadPool` | `execute`, its workers and readers over that ring | checked, proved |
| `ObjectStore` | what writers and readers of one name are promised, through kills and losses of power | abstract |
| `CopyStream`, `ObjectFile` | the runtime's copies and pool of buffers; the file operations and what they leave on stable storage | used by the writer |
| `WritePath` | `write_object` on several threads | checked, proved |
| `DistributedLoad` | `stream_files` over a process group | checked, safety proved |
| `RunTreeProofs`, `ScheduleProofs`, `ScheduleWalkProofs`, `WorkflowRunnerProofs`, `ReadPoolProofs`, `WritePathProofs`, `DistributedLoadProofs` | theorems | proved |
| `FiniteWalks` | lemmas on recursive functions over an interval and on sums over finite sets, used by `ScheduleProofs` and `DistributedLoadProofs` | proved |
| `MCRunTree`, `MCFanOut`, `MCGating`, `MCReceipts`, `MCReadPool`, `MCDistributedLoad`, `MCWritePath` | instances | |

`WorkflowRunner` extends `Schedule` and `EventLog` and uses `PublicationStore`
for its tree; `RunTree` implements `PublicationStore` (`ImplementsStore`,
proved), so the runner needs none of the tree's detail.  `ReadPool` extends
`StagingRing` and implements `ReadJob`; `WritePath` extends `CopyStream` and
`ObjectFile` and implements `ObjectStore`; `DistributedLoad` takes a chunk's read
to be a job that ends well or not, which is what `ReadJob` promises.

### RunTree

A unit is a record in `units[step]`: where it is (`at`: `unmade`, `attempt`,
`published`, `previous`, `superseded`, `pruned`), how its outputs and its record
stand, its number and the attempt that displaced it.  `turn` and `phase` follow one step's
turn through `_attempt_step`, `publish_attempt`, `restore_displaced` and
`retain_superseded`, one action per rename or write, named for what it does:
`Displace` and `Publish` are the two renames, `Retain`, `RetainTruncate` and
`RetainMark` the move and the two halves of the record's rewrite.  `AttemptFails`
is an exception inside the attempt; `Abandon` is a kill, or an exception anywhere
else, and leaves the disk as it is.

### WorkflowRunner

`pc` says where the run is between two statements that matter; `Step` is the
step whose turn it is.

| code (`runner.py` unless named) | actions and operators |
|---|---|
| opening, 767-803 | `StartRun` (guard: the stream reads back) |
| turn begins, 831-837 | `BeginStep` |
| skip, 838-862 | `TellSkip`, `RetireSkippedUnit` |
| reuse, 863-885 and 1397-1502 | `ReuseStep`, `TellReuse`, `DoNotReuse`, `Reusable` |
| attempt and publish, 886-921 | `PublishStep`, `RefuseAttempt` (a receipt or an input is missing) |
| verdicts, decisions, joins: `conditional.py`, `behavioral.py`, `fan_out.py` | `Verdict`, `Passes`, `Outcome`, `Gated`, `WithChildren`, `Rows`, `Recorded`, `Results`, `InputsThere` |
| evidence: `conditional.py:886`, `fan_out.py:1083` | `Evidence`, `Sources`, `Read`, `EvidenceIdentity`, `CurrentEvidence`, `EvidenceHolds`, `ReceiptMet` |
| memory, then the two lines, 939-953 | `Remember`, `TellCommitted`, `TellCompleted` |
| failed attempt, 922-938 | `AttemptRaises`, `TellFailed` |
| `finally`, 974-1024 | `LoopEnds`, `WithholdManifest`, `WriteTemporary`, `RenameManifest`, `EndRun` |
| any statement | `LoopRaises`, `Interrupt`, `TellFails`, `ManifestFails`, `Kill` |
| between runs | `Edit` (a step, with its fan-out children, has another identity), `Damage` (a file no longer digests), `FreshStream` (the sidecar moved aside, as the refusal asks) |

The data is what the properties tell apart.  A measured value is one of the
`Values` of its step; a decision's rule is the set of values that pass; what a
step publishes is a set of rows, each a fan-out child and its value; an identity
is a version number (document entry, script and package together), a digest is
the value it digests, and a damaged file is a flag.  A step's evidence is a
function from the sources it read to their data and, where the code records it,
their identity.  A join reads the children its kind admits: all, the ones a
joined verdict chose, or those that were not skipped.  Retention of a displaced
unit happens inside `PublishStep`, because in the store it has no effect on
what is live; `RunTree` has its interleavings.

### EventLog, Schedule, ScheduleWalk

A line keeps its number, its event, the step and the word its payload carries;
`run` stands for its time stamp and is read by no action.  A failed append spends
the number and may leave a cut line, as `_write` does.  `Schedule` writes the
walks as recursive functions over the schedule's positions.  `ScheduleWalk`
instantiates it with variable graphs and a selective join, and compares it with
least sets quantified over all sets of steps.

### StagingRing, ReadPool

A thread is a worker and a lane: lane 1 is the file worker, which is also the
first of the readers it spawns.  `pc[t]` names what the thread does next between
two looks at what the others share, and a step ends wherever another thread
could see the difference: at each lock and unlock, before and after each wait on
a fence, between the store of an error, the raising of the flag and the
notification (`StoreError`, `RaiseFlag`, `WakeAll`).  `free`, `dirty` and `parked`
are the ring's lists, `lock` and `waiting` its mutex and condition variable,
`stream` the copies in the order they were enqueued, of which a prefix has
`done`.

| code (`read/`) | actions |
|---|---|
| `execute`, `mod.rs:405` | `Begin`, `BeginFails`, `WorkersEnd`, `Return`, `SyncFails` |
| `file_worker`, `pool.rs:463` | `LookFirst`, `PopFile`, `OpenFirst`, `OpenFails`, `Unopened`, `RunReaders`, `JoinReaders` |
| `piece_worker`, `read_piece`, `pool.rs:490` | `PopPiece`, `ChooseRoute`, `DirectRead`, `DirectReadFails` (`FallBack`, `DisableDirect`), `UseReader`, `HostRead`, `EndPiece` |
| `stage_piece`, `pool.rs:629` | `UseRing`, `AllocFails`, `Fill`, `EnqueueCopies`, `RecordFence`, `ReleaseDirty`, `ReleaseClean`, `ReleaseParked`, `Notify` and their failures |
| `Ring::acquire`, `staging.rs:148` | `LookAtFlag`, `AcquireFree`, `AcquireDirty`, `AcquireWaits`, `FencePasses`, `FenceFails`, `Park` |

A job chooses its transport and what each piece is (host memory, device memory,
or device memory with placements, which never goes through cuFile).  Counters
and the report are kept as the `route` by which each piece landed and as `told`.
Left out: spurious wake-ups of the condition variable (they could only hide the
lost one), scratch buffers, and `PieceExceedsStaging` and `CopierRequired`,
which `validate` makes unreachable.  A `synchronize` that fails means the device
is lost and says nothing of what landed.

### CopyStream, ObjectFile, WritePath

`pc[j]` follows write `j` from `create` to its answer; `part`, `written`,
`enqueued` and `synced` are the locals of `Ring::drain`, `slots[j]` the buffers of
its ring.

| code (`write/`, `storage/posix.rs`, `cudart.rs`) | actions |
|---|---|
| `write_object`, `mod.rs:318` | `BeginWrite`, `Create`, `Return`, `Undo` |
| `stream`, `mod.rs:385` | `WriteHeader`, `WriteHostPart`, `SkipEmptyPart` |
| `Ring::drain`, `staging.rs:119` | `EnqueueChunk` (with `Ring::slot`'s allocation), `Synchronize`, `WriteChunk` |
| `finish`, `commit`, `discard` | `SyncWritten`, `SyncItsDirectory`, `Rename`, `SyncName`, `Discard` |
| any of them refused | `CreateFails`, `EnqueueFails`, `SynchronizeFails`, `WriteFails`, `FinishFails`, `RenameFails`, `DiscardFails` |
| outside | `Lands` (a copy is made, in order), `Kill`, `PowerLoss` |

`content[f]` are the blocks written to file `f`, `flushed` the files whose bytes
are on stable storage, `linked` the file under the final name and `durable` the
bindings a loss of power may leave.  `PowerLoss` keeps any binding since the
directory was last synchronized and tears files that were not.  `Alone` states
the callers' part: nobody writes in place beside another writer of the name.  A
write may be atomic or in place, durable or not.  Checks of the arguments come
before anything is created and are left out, as is the partial chunk of a
refused write (the name is removed, or shows a partial object, either way).

### DistributedLoad

A rank has a streaming thread (`pc[r]`, the request, chunk and item it is at) and
read workers (`job[r][k]`: queued, running, landed or broken, then read or lost).
`AssignOwners`, `AssignChunks`, `BlockRows` and `Delivery` are the code's plan,
computed from the sizes of each request.  `Enter` appends to `entered[r]` the
collective with its tensors and its error flag; a blocking collective ends when
every rank has entered its n-th (`Met`), and the outcome of a check is whether
any of them reported an error.

| code (`_distributed.py`) | actions |
|---|---|
| `_prepare`, 671 | `Prepare`, `Agree` |
| `_Reads`, 911-990 | `Pump`, `PumpRecording`, `ReadEnds`, `Finished`, `Take`, `Release` |
| `stream_files`, 1176-1215 | `Submit`, `Behind`, `Onward`, `NextRequest`, `Close` |
| `_stream`, 998-1150 | `ReportUnfit`, `ReportRead`, `Checked`, `DeliverOwn`, `EnterExchange`, `ReadPiece`, `PiecesChecked`, `LeaveExchange`, `MakeRoom`, `IssueBroadcast`, `Flush`, `Drain`, `StreamEnds` |
| `_Packer`, 241-276 | `Pack`, `Overflows`, `EnterPacket`, `PacketLanded` |

A broadcast has landed once its owner entered it, the other collectives once
all ranks did; that is torch.distributed's part and external.  The
load asks for at least one request and each request for at least one tensor: a
request of none makes no reads, enters only the agreement of `_prepare` and yields
nothing.  Left out: a consumer that stops early, the check for unseen shards,
`load_files` (the same path, collected) and the limit on the number of
broadcasts in flight, of which the instance reaches only the limit in bytes.

## Runs

| run | shows | bounds |
|---|---|---|
| `run_tree` | published units are complete, unique and kept; pruning takes the oldest; the store is implemented | one step (steps share nothing in the tree), 4 attempts, 3 retained: one attempt more than is kept, so pruning and two supersessions happen |
| `schedule_walk` | skips are the least closed set; words of a stopped run agree with it | all graphs of 4 steps with at most one selective join: a gate, a child, its join and a dependent |
| `fan_out` | words, verdicts, joins, evidence, manifest and tree agree | two children measured, joined, gated one by one, their verdicts joined, the selected ones trained and joined, and a report: 10 steps, 2 runs, 1 fault, 1 edit or damaged file |
| `receipts` | reuse never keeps a flipped receipt, a decision over other values or an old document; some later run ends completed or refused | 3 steps, 3 runs, 1 fault, 1 edit or damaged file |
| `read_pool` | buffers neither lent twice nor lost, own bytes, the first failure reported, the promise of `ReadJob`, the call returns | 2 files of 2 and 1 pieces, 2 workers of 2 lanes, 1 buffer, 1 fault of any kind, each transport |
| `write_path` | blocks of a file are its own, buffers apart, no name left behind, the promise of `ObjectStore` | 2 writes of a device part of 3 chunks, a host part and a device part, ring of 2, 2 faults, kills or losses of power |
| `distributed_load` | same collectives in the same order, nobody left waiting, each tensor once and after its bytes, read-ahead in its budget, every load ends | 2 ranks, 3 requests that meet every delivery, a budget that falls, 2 failures anywhere |
| `retained_unmarked`, `stale_verdict`, `burned_number`, `ring_wakeup`, `released_buffers` | one disagreement each, below | `MCGating`: 6 steps, 2 runs; else as above |

Why the bounds are enough for the cases meant.  In `fan_out` the edit falls
between two runs, so every step is seen fresh, reused, made again, skipped after
it was published and published after it was skipped; `receipts` adds a third run
on a smaller workflow.  In `read_pool` three readers compete for one buffer while
it is free, behind its fence or parked, and a second file starts while the first
still copies; two buffers are out of TLC's reach, and the theorems hold for any
number of buffers, readers, files and faults.  In `write_path` the ring of 2 under a
part of 3 chunks has every chunk's slot come round again with a copy looking
ahead, and the buffers of a finished call are taken by another; the theorems
again have no bound.  In `distributed_load` the three requests have a
packed, a windowed, an exchanged, a gathered and a direct tensor among them, and
a request is submitted while the one before it streams.

The runs that say `CHECK_DEADLOCK FALSE` stop because the call has returned, the
load ended or the bound on runs is spent.  `MaxRuns`, `MaxFaults`, `MaxEdits`,
`MaxAttempts` and `N` are the bounds; no other counter grows.  `write_path` uses
the symmetry of its two writes and its buffers; it checks no liveness.

**Fairness.**

* `FairRunnerSpec` (`receipts`): `WF(RunnerStep)`, a process that is neither
  killed nor interrupted executes its next statement; `WF(StartRun)` and
  `WF(FreshStream)`, somebody starts the workflow again and, when it is refused
  for its stream, does what the refusal says.  `RecoversEventually` is about
  what is left on disk, so assuming the restart is the point of it.  Faults and
  edits carry no fairness.
* `FairPoolSpec` (`read_pool`, `ring_wakeup`): `WF(Progress)`, some thread, the
  device or the caller goes on while any can.  Nothing in a job repeats, each
  step uses up a file, a piece or a point of a finite program, so which of them
  goes on does not matter and fairness per thread would be no stronger.
* `FairLoadSpec` (`distributed_load`): `WF(LoadNext)`, for the same reason.

## What the code and its documents disagree on

Each has a run whose trace shows it.

* `retained_unmarked`: killed inside `retain_superseded`, after the rename and
  before the record is rewritten, a retained unit says `accepted` (or its
  record is cut) and no later recovery repairs it.
* `stale_verdict`: editing a decision's rule between two runs re-makes the
  decision with another outcome and the same `evidence_identity`, and
  `--resume` reuses the conditional's old verdict.
* `burned_number`: a failed append spends its number; the terminal line then
  leaves a hole and every later run refuses the stream.
* `ring_wakeup`: `wake_all` and the raising of the flag do not take the ring's
  mutex, so a waiter that has looked at the flag and not yet slept misses both.
  With another buffer in circulation its release wakes the waiter again; when the
  last one was parked, nothing does and `execute` does not return.
  `ReturnsUnlessParked` (in `read_pool`) is what does hold.
* `released_buffers`: `Ring::drain` returns an error of storage without
  synchronizing, and the ring it drops gives its buffers to the process-wide
  pool while copies it looked ahead for are still to be made into them.

Noticed on the way and not kept as runs:

* attempt numbers are reused after a publish, so `superseded_by.attempt` does
  not name one attempt (`manifest.py:167` calls the counter unambiguous);
* the record says `accepted` before the rename that publishes it
  (`runner.py:1358`), so a killed attempt may keep a record that says so;
* an interrupt between the publish and its return leaves `failed` said of a
  step with a new published unit (`docs/workflow_protocol.md:2342`: nothing was
  published), and one between the return of `_attempt_step` and the assignment
  that follows it leaves `pending`; neither manifest has a terminal line, which
  is why `ManifestIsTrue` speaks of manifests that have one;
* a run that raises between narrating a skip and retiring the unit
  (`runner.py:846`), or before an unreached skip's turn, ends with `skipped` said
  of a step whose directory still stands (`docs/workflow_protocol.md:2345`);
* a run interrupted before its first line writes a manifest and leaves the
  earlier run's terminal line last, so `terminal()` reads True;
* a deferred step's recorded identity (`runner.py:1621`) is not made the way
  `_step_identity` (`runner.py:1505`) makes the one it is later compared with;
* `read/mod.rs:57` says no new piece starts after a failure is recorded; the flag
  is raised after the error is stored, and a piece may start between the two;
* `read/mod.rs:39` says a slot is free again after a synchronize; `staging.rs`
  waits for the slot's own fence, which is enough;
* a durable atomic write whose directory cannot be synchronized after the
  rename answers an error though the new object has landed; `ObjectStore` allows
  it, for the error says nothing of the old object.

## What is proved

Every theorem holds for every value of the constants the named assumptions of
its module admit.

### RunTreeProofs

* `TreeTypeCorrect`: `TreeSpec => []TreeTypeOK`
* `PublishedIsComplete`: `TreeSpec => []CompleteOrAbsent`
* `PublishedIsUnique`: `TreeSpec => []OnePerPlace`
* `UnitsPreserved`: `TreeSpec => NoStepLosesAUnit`
* `PruningTakesTheOldest`: `TreeSpec => []PrunedAreOldest`
* `RetiredNamesDistinct`: `TreeSpec => []SupersededNamesDistinct`
* `TreeImplementsStore`: `TreeSpec => ImplementsStore`

Neither `CompleteOrAbsent` nor `OnePerPlace` is inductive: that a publish lands a
complete unit depends on what the attempt has been through, and that a rename
does not collide depends on recovery having run.  `TreeInv` adds `SubjectInv` (the
attempt in flight is where its phase says and has passed the checks its phase
follows) and `RecoveredInv` (from recovery to the first rename nothing is moved
aside; what was published is there when its predecessor is retained).  Each
action changes `units` in at most one place, so the proof goes through one lemma
per shape of change and one step per action.  The refinement maps the live unit
to the step directory or, while a publish is between its renames, to the unit
moved aside; only `Displace`/`Publish` and retirement of a skipped unit are steps
of the store, everything else stutters.

`StepMoves` says what a step may do to one unit and with which number
(`IsNewest`, `IsOldest`, `IsUnused`).  From it `NumbersInv`: among the attempts of
a step the directory numbers go in the order the attempts were made
(`AttemptsOrdered`), which is not so of all units, as numbers start again once the
attempts are gone; and retained units have different numbers (`NamesDistinct`).

### ScheduleProofs and ScheduleWalkProofs

* `SkipsStayLeast`: `WalkSpec => []SkipsAreLeast`
* `BlockedBelowFailures`: `WalkSpec => []BlockedIsBelowFailure`
* `ManifestSkipsAgree`: `WalkSpec => []SkipsAgree`

The walks of `Schedule` are recursive functions over the order, so what they
return is shown by induction on how far they have come.  The library's induction
theorems cannot be instantiated; `LeastNumber` (a set of numbers has a least,
in `FiniteWalks`, from the well-foundedness of inclusion among finite sets) needs no
operator for a parameter, and `UpTo` and `WalkExists` follow from it: induction over an
interval, and that a value for each place, each from the one before, exists.  A
pass gathers whom the gathered reach; when reaching looks back only (`LooksBack`,
which `DepsAssumption` gives), one pass finds the least set closed under it
(`PassIsLeast`, `SkipsIsLeast`, `AllBlockedIsLeast`), and a pass from a least set
with more named is the least set of all that was named (`FoldMore`): folding
verdict by verdict loses nothing.  `ScheduleWalkProofs` takes these over the
graphs of `ScheduleWalk`, and shows the manifest's walk over the steps not
reached to find what the loop had folded, because every step the run reached has
been told apart already.

### WorkflowRunnerProofs

* `RunnerIsTyped`: `RunnerSpec => []RunnerTypeOK`
* `NarrationIsNeverAhead`: `[]NarratedIsPublished`
* `AttemptsAreSettled`: `[]DependenciesSettled`
* `ManifestsAreTrue`: `[]ManifestIsTrue`
* `WordsAlwaysFollow`: `[]WordsFollowDependencies`
* `EvidenceStaysCoherent`: `[]EvidenceCoherent`
* `VerdictsShapeTheTree`: `[]TreeFollowsVerdicts`
* `ReceiptsAlwaysStand`: `[]ReceiptsStand`
* `CompletedRunsAreCurrent`: `[]IdentitiesCurrent`

All are consequences of one invariant, `RunnerInv`, kept by every statement of the
loop, every way it stops and everything that happens between runs.  Its parts:

* types and bounds (`Typed`, `BoundInv`, `UnitsInv`), numbers of runs
  (`NumbersInv`), and that a line that says committed names a unit that is there
  or was (`CommittedInv`);
* `MemoryInv`: what the run remembers of a step is true of the tree (`Honest`) but
  for the one it has just published and, when it was interrupted there, until it
  ends; nothing is remembered of the steps ahead; and what each point of the loop
  knows of its step;
* `SkipsInv`: `skippedBy` is the least set that what the decided conditionals gate
  grows to.  It is stated with the verdicts as published, not as they were folded,
  so that a resumed run that takes some verdicts again and keeps others is covered;
* `TurnsInv`: each step behind the loop is done or skipped, skipped exactly if in
  `skippedBy`, and then has no unit.  A verdict folded later does not reach behind,
  for all it gates depends on the conditional;
* `StandsInv`: a unit behind the loop is of the identity asked for, undamaged, and
  its evidence holds; a step that is published or retired later disturbs none of
  this, since what it reads is among its dependencies (`Sources`, receipts);
* `MadeInv`: a unit's rows are what its evidence gives, so that evidence that holds
  makes a join's rows its children's and a verdict the one of the decision;
* `TellingInv`, `SaidInv`, `ReaderInv`: while a run is at a turn the stream does not
  end in a terminal line, and once it does, what the manifest and the tree say to a
  reader is true, also while later runs have not told their first line.  This is why
  the invariant is needed at all: the properties speak of a run that is over, and
  the tree moves on under its manifest as soon as another run starts.

Assumed of the constants: `DepsAssumption` (the order is a schedule; a receipt's
step is a dependency of the step that requires it, as `dependency_edges` of
`conditional.py:454` makes it), and `ExpansionAssumption`, what `load_workflow`
makes of a fan-out and of a conditional: children are of one step, of its kind and
have none; decisions are not fanned out; a fanned-out verdict reads the child its
own is for (`fan_out.py:315`, `document.py:2300`); what a conditional gates depends
on it (`conditional.py:454`).  TLC evaluates both on the instances of every run.

### ReadPoolProofs

* `PoolTyped`: `PoolSpec => []PoolTypeOK`
* `BuffersApart`, `BuffersKept`: `[]SlotsApart`, `[]SlotsKept`
* `BytesAreOwn`: `[]OwnBytes`
* `SpoiledLeftAlone`: `[]SpoiledNotRead`
* `FallbackOnce`: `[]FallbackToldOnce`
* `ReaderKeepsPromise`: `PoolSpec => Promise`, the refinement of `ReadJob`
* `FallbacksAreTold`: `[]FallbacksTold`

Built in layers, each an invariant proved under the ones before it.  `TypeInv`:
the types, and what a thread has at each point (a file, a piece, a buffer, an
error), that the condition variable is signalled by the thread that changed a
list, and that no thread has left before the job started.  `RingInv`: before the
ring exists nobody has a buffer, and buffers are apart and kept; the hard case is
`acquire`, which takes a dirty buffer out of its list and waits for its fence
without the mutex.  `BytesInv`: a buffer that copies still read is dirty behind a
fence at or after them, or held by the thread that enqueued them, or parked; so a
thread that fills a buffer has no copy under it.  `SpoiledInv`: a buffer is let go
by a failed piece after the flag is up, and a reader fills one only after it saw
the flag down.  `ToldInv`: a fallback is recorded by the one who took the file out
of `direct`.

For `ReaderKeepsPromise` the mapping is the identity on `dest` and `result`: what has to be shown is that a
piece lands once and that an `ok` leaves none out.  `OnceInv`: a piece is in a
queue, in one thread's hands, or in the stream, and has not landed while it is in
one, or a copy of it is still to be made.  `ScopeInv`: only a worker starts files,
its readers rest while it does, and all have ended before the last synchronize, so
nothing lands after the answer.  `TroubleInv`: whatever fails has recorded an error
or a thread is on its way to do so, at every point in between, and the flag is
never up without one; while nothing is wrong (`Calm`) the ways a piece is dropped
are closed.  `KeptInv`: until something is wrong, a file with pieces left is
queued or run, and a piece is in one of its places or has landed; so at the end of
a job without an error all have (`AllRouted`).  `DueInv`: a whole device piece that
was turned away from cuFile is in hand only after its file, or the job, was named.
These use `PlanAssumption`: the files of the plan are queued, and each piece is
cut from one place of one file.

### WritePathProofs

* `WriteTypeCorrect`: `WriteSpec => []WriteTypeOK`
* `BuffersStayApart`: `[]BuffersApart`
* `BlocksAreOwn`: `[]OwnBlocks`
* `NoNameLeftBehind`: `[]NothingLeftBehind`
* `WriteImplementsStore`: `WriteSpec => ObjectPromise`

`RingInv` holds the types, the order of a drain's counters (`Counted`), how many
buffers a ring has by then (`Allocated`), that no copy is issued for a write that
has not started, and that buffers are apart; the steps of the program fall into
seven kinds by what they do to rings and stream, and the lemmas are about those.
`ChunksKept` is the heart of it: for every chunk that is enqueued and unwritten,
the last copy in flight into its slot carries it or, when there is none, the
buffer holds it; copies left behind by a ring that was dropped are made before
any issued later, which is why they cannot spoil another call.  `FileInv` says
where in its file each block goes, so that a file's blocks are its write's own
and in order.  `Named` follows the temporary name.

The mapping reads an object off each file the final name was bound to: nothing,
the old object, the whole object of a write, or a part.  `StoreInv` is what a
reader's view needs beyond `WriteInv`: only a write's own file holds its whole
object (`Owned`), the old object is flushed (`OldKept`), no file has the name
twice (`NamesOnce`), and for each write, that an atomic one has the name only
after its rename (`NotNamed`), that what is past its parts is whole (`WholeFile`),
that one in place has the current file open (`InPlace`), that one about to answer
ok has the name, on stable storage if it is durable (`Landing`), and that a
durable object is flushed before it can be found (`Flushed`).  Then `Rename` is
`Land`, the last block of a write in place is `Fill`, both directory fsyncs are
`Settle`, opening in place is `Overwrite`, the answers, `Kill` and `PowerLoss` are
themselves, and the rest are stutters; what a loss of power tears is not
`Stable`, by `Flushed` (`TornUnstable`).

### DistributedLoadProofs

* `RanksEnterTheSame`: `LoadSpec => []CollectivesAgree`
* `NoRankIsLeft`: `LoadSpec => []NoneLeftWaiting`
* `YieldsWhatArrived`: `LoadSpec => []YieldedHere`
* `TensorsComeOnce`: `LoadSpec => []YieldedOnce`
* `ReadAheadStaysBounded`: `LoadSpec => ReadAheadBounded`, an action property

Ranks run at their own pace, so no invariant relates two threads at one instant.
What is related is where they have been: the *stage* of a rank is the point of its
thread, its position in the plan, its packer and the collectives it has entered
with the errors blanked, and a stage has one `Successor`.  `StageMoves` shows that
a step of a rank keeps its stage, takes it to the successor, or raises; reads,
pumps and failures are not in it, which is the reason the collectives cannot
depend on them.  So there is one trail of stages that all ranks walk (`OneTrail`),
and two logs agree as far as both go.  For errors: a rank that waits in a report has
entered it last (`AtReport`), a rank has gone on past a report only when nobody
reported an error in it (`PassedAreClean`), and the last entry of a rank that raised
is a report in which some rank told an error (`RaisedAtError`): nobody goes on past
it.  The proof uses `LoadAssumption`: requests, their sizes and the limits are
what the code accepts.

What a rank has packed is broadcast by one owner (`PackSound`); each broadcast in its
window is at the place in its log that the window remembers (`FlightSound`); while
it waits in a packet, an exchange or a gather, that is its last entry (`AtPacket`,
`AtJoin`); and packer and window are empty when the request changes (`Emptied`).  So
what a rank is about to yield is told by its own log, and since logs agree
(`EnteredByBoth`) by the owner's, or by all, once they are as far.

That no tensor is left out or yielded twice is about the plan first:
`PlanArranges`, each item of a request is in one place of one round, by induction
along the recursive functions that make the plan (`Keeps` for the items of a
sequence, `Groups` for its cut into chunks, with the lemmas of `FiniteWalks`).  So the
tensors before a position of a rank are a set that grows by one at each item and is
all of them at the end (`PassedAt`, `PassedItem`, `PassedAll`).  `OnceInv` then says
that what a rank has passed is delivered, packed or in flight, in exactly one of
these and once (`Whole`), and that a rank streams the request behind the one it
prepares, each to its end before the next (`Placed`).  Packer and window are empty
when a rank ends, which leaves the delivered.

For read-ahead the property speaks of what is here, `HeldBytes`, a sum over the
chunks submitted and not handed on, and the code of a counter, `resident`, that
`pump` raises and `release` lowers.  `AheadInv` says they are equal until the rank
closes (`Counted`), and what makes it inductive: the queue holds each chunk that is
queued and still to come, once (`Lined`), so that a pump adds what was not counted;
the chunk a rank streams is submitted, or the rank is about to report an error for it
(`InHand`), so that `release` subtracts what was counted; no round of a request is
left when the next begins (`NoneLeft`); and a rank that has left its executor has no
job whose callback could still pump (`Idle`).  `PumpDoes` gives what a pump submits,
`PumpKept` and `CountedPumps` that it keeps the count and that its last chunk fits or is
alone; `Quietly` covers the steps that submit nothing.  A sum over a set is a choice
of a recursive function on its subsets; `SumIs`, `SumAdd` and `SumSame` in `FiniteWalks`
are what a proof can use of it.  A rank that closes is outside the count: its pool
refuses every submission, and the property asks nothing where nothing is submitted.

**Only model-checked:** liveness (`RecoversEventually`, `ReturnsUnlessParked`, `AllEnd`),
which needs fairness and `ENABLED` and is out of the prover's reach.  Every safety
invariant and action property of a passing run is a theorem.

## Not modelled, and why

* Documents, protocol language, planning, formats: parsing, static rules,
  digests, coalescing and selection are functions of their input with no state;
  the models take their results as constants.
* Engines and numerical work: their results are the values a step may measure.
  The cohort of captured CUDA graphs (`graph_cohort.py`) and the normalized cache
  have state and hazards and are listed as such; no property covers them yet.
* Inside the workflow layer: nested sub-roots, the control ledger, deferred
  steps, the placement of table rows by point in a join and its refusals, the
  expansion of a fan-out at load, the sink adapter's extra warning line,
  concurrent runs over one tree (the runner is documented as its only writer).
* A script step's reuse depends on its own identity and not on the bytes of its
  inputs; the documents promise no more, so this is a hazard with no property.
* In the distributed load, an allocation that fails on one rank between a report
  and the collective that follows it raises on that rank alone; the code checks
  memory ahead to avoid it and has no answer to it, so it is a hazard only.
* Storage: the in-memory and fault-injecting stores are for tests.  The
  single-process reader and writer in Python are glue over the Rust core.
* The CLI, plots, viewers, tasks, benchmarks and scripts keep no state.

## What is left

1. The control ledger (`runner.py:1248`): statuses through certify, failure and
   resume; nested sub-roots with their flattening.
2. The caches and the cohort: two builders of one key, eviction, replay order.
3. Algorithms against references: coalescing of reads, sweep expansion, fit
   splits.
