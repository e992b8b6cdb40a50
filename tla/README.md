# A TLA+ model of the nmbrs execution core

nmbrs is a load generator: it reads a workload, walks its tree of phases and
runs each phase as an *activity*, in which a pool of async fibers takes ordinals
from a shared cursor, binds ops to them and sends the ops through an adapter to
the system under test. Around the fibers run a rate limiter, an adaptive
throttle, daemon ops, stop conditions, operators who change controls while the
phase runs, and a shutdown ladder. Above them a walker runs the scenario's tree
of phases, a log records what each phase did so that a later invocation can
resume, and a pool shares adapters between phases. This directory models that
core: the part of the code where tasks interleave and where a crash leaves
something behind. Paths below are relative to
`src/crates/`; `runtime` stands for `nmbrs-runtime/src`.

## Inventory

| Component | State | Operations | Interacts through | Hard because of |
|---|---|---|---|---|
| Phase activity (`runtime/activity.rs`, `child_source.rs`) | cursor, per-fiber stanza, op counters, stop flags, stop reason | fiber loop, op dispatch, wait loop, drain, result | cursor, counters, flags, both pools | interleaving of fibers, stops, resizes and the wait loop |
| Daemon pool (`runtime/daemon_pool.rs`) | slots, live counts | try_spawn, shutdown | fibers spawn, the activity shuts down | timeouts racing late returns, caps |
| Fiber pool (`runtime/fiber_pool.rs`) | vector of handles and exit flags | spawn_initial, resize, reap | applier of the concurrency control, wait loop | count and change under two lock acquisitions, start-up races |
| Dynamic controls (`nmbrs-metrics/src/controls.rs`) | committed value and revision, appliers, gauge | set, register_applier | appliers, gauge readers | partial failure, dropped futures, late registration |
| Throttle governor (`runtime/throttle.rs`) | congestion point, clean streak | tick, spawned writes | gauge, concurrency control | decisions from a stale gauge, truncation, reordered writes |
| Rate limiter (`nmbrs-rate/src`) | semaphore, waiting pool, refill configuration | acquire, refill, reconfigure, stop | every fiber; a control's applier | read-then-add refills, units, saturation |
| Shutdown ladder (`runtime/session_signals.rs`) | level | escalate | flags polled by fibers | cancel against ops that never return |
| Stop conditions (`runtime/stop_conditions.rs`) | last sample | evaluate | op counters, stop flags | two counters read at two moments |
| Phase executor, workload shell, interval layer (`runtime/executor.rs`, `workload_shell.rs`, `wrappers/interval.rs`) | a task per node, permits, outcome counts, the walk's stop | dispatch, join, fold, gate, loop, repeat, evaluate | activities, checkpoint, stop flags, exit code | permits freed before results, concurrent evaluations, daemons beside the foreground |
| Checkpoint log (`runtime/checkpoint/`) | append-only file, mirror of it in memory, lock, resume plan | declare, hash, start, complete, fail; read, plan | executor, runner | crash between records, torn tail, read before lock |
| Resource pool (`runtime/resource_pool.rs`) | entries with live and predicted uses, slot, poisoning | attach, initialise, detach, drain | phases, adapters, session end | state checked before an await and used after it, closes that end late |
| Metrics cadence (`nmbrs-metrics`) | windows of snapshots | tick, fold, query | instruments, governor | counters sampled while written |
| Scopes, kernels, wrappers | expression graphs | pull, commit | fibers | mostly data |
| Optimizers, MetricsQL, workload parser, adapters, TUI, web, CLI | | | | data transformation or I/O |

What makes each correct: an activity hands out every ordinal once, counts every
op, and ends; the daemon pool leaves nothing running that a clean result hides;
the fiber pool has as many fibers as its control says; a control's committed
value is what its consumers run with; the governor's offer stays within its
bounds and recovers; the limiter spends exactly the time that passed; a walk
fails exactly if something in it failed, halts when it should and leaves no task
behind; a resumed session skips only what is done; a pooled resource is open
while it is held and closed once. The
hazards behind those statements are listed with their lines in `PROJECT.json`.

## Modules

### `Activity`

One run of `run_with_adapters`. `FiberStep` is `executor_task`: `Reserve` is
`CursorSource::poll_next` (one `fetch_add` of a stanza), `NextOp` is
`StanzaRuns::next` (an op may take several rows, `RowOffset`), `Dispatch` to
`CountResult` follow one op through permit, dispenser and the four counters,
which are separate steps because the wait loop reads them in between. The check
of the stop flags between ops and the check of `fiber_stop`, which is made only
between stanzas, are separate guards. `MainStep` is the wait loop: it reads the
failures, then the cycles, evaluates the stop condition, and drains; then
`DaemonPool::shutdown` signals and awaits daemons one at a time under a grace
timer. `DaemonStarts` to `DaemonPanics` are `daemon_dispatch`. `Escalate`,
`WalkStop` and `DaemonStop` are stops from outside. Op outcomes, panics and
whether an error's policy stops the phase are inputs. The counters of a daemon's
op are one step (`DaemonReturns`): they come in the order of a fiber's, so that
what the wait loop can see between them it also sees between a fiber's. `covered` (how many ops
an ordinal was handed to) and `dskip` are history variables.

Left out of the activity: windowed dispatch inside a stanza, the phase-poll
loop, retries (inside the opaque dispenser), the metrics the counters feed.
Scale-ups appear as a new fiber that runs before it is recorded (`SpawnFiber`,
`PushFiber`), scale-downs as a raised flag; `FiberPool` models how they come
about.

### `FiberPool`

The pool behind its concurrency control: `resize` counts under one acquisition
of the pool's mutex and changes under others; the control's write lock
serialises writers; the phase registers the applier, builds the governor (whose
opening write runs in its own task) and only then seeds the pool.

### `DynamicControl`

`Control::set`: queue on the async mutex, pin and validator, fan-out to the
appliers registered at that moment, and, only if all acknowledged, a revision
(`TakeRev`), the commit, the gauge, each a step of its own because other controls
take revisions and readers sample in between. Appliers may fail or time out
having taken the value or not, callers may drop the future while it waits or fans
out, appliers may register in the middle. Nothing is rolled back: the history
variable `left` holds, for each applier, the values that writes failed or dropped
since its last commit may have left it with; `previous` is the value committed
before, `others` the revisions other controls took.

### `Throttle`

One `Tick` per window with traffic; writes are spawned tasks that land in any
order (`WriteLands`), truncated to whole fibers by the control. Targets are in
hundredths of a fiber, in which the code's products are exact.

### `RateLimiter`

The limiter's refill task at the grain at which other tasks can come between:
swap the clock, read the room, add permits, keep the overflow, read again,
recover a burst. The semaphore is tokio's and is modelled from its use: an
acquire takes what there is and queues for the rest, `add_permits` serves the
queue in order. `queue` holds, for each waiter, the permits still to come until
it is served. A rate is what `RateSpec` makes of it (tick length, cost of an op,
burst ceiling); the elapsed time is truncated to ticks and clamped to a u32
(`TickMax`). A change of unit keeps the permits as a count; `balance`, the
history variable that follows time credited and not spent, takes them at their
new worth then. `reconfigure` refuses rates at or below zero and bursts below 1,
so `Rates` holds only others.

### `Walk`

The walk of a scenario tree given by `Kind`, `Kids` and `Limit`. `BodyStep` is
`run_scenario_body`: daemons are spawned first and off the budget, foreground
children in order as permits allow, the foreground is drained, `daemon_stop` is
raised, the daemons are joined. A task *returns* (its permit is free) one step
before it is *joinable*, which is the window the dispatch loop has to live with; a
panic, which drops the permit as it unwinds, is no different.
`SweepStep` is `dispatch_comprehension` with its `continue_if` gate, evaluated
before the permit; a gate that cannot be evaluated returns over the running
iterations, whose tasks are then `Dropped`. `LoopStep` is `run_do_loop`, which
runs its body in its own task and reads no stop. The phase actions are `run_phase`
under the interval layer: a resume skip, an early failure (recorded once per
scene node), start, the trip of the phase's own stop condition at one of its
scopes, the end, the count of the outcome, and only then its evaluation by the
`WorkloadShell` (`Trip`). What happens inside a phase is `Activity`; here it
starts, may trip, and ends (that an optimizer's settled servo outranks a stop is
left out with the optimizers). `exit` is the code the process ends with. `why` is a
history variable that says whether units failed in ways the shell has recorded.

### `Checkpoint`

One session directory over several invocations. The file is what matters of it
to `read`: the document its complete lines fold to (`disk`), its first line
(`head`) and whether its last line is unterminated (`torn`). An append lands,
lands on a torn line (and is lost with it), or is refused whole or part way. An
invocation reads the log, takes the lock (or panics), writes its `session_start`,
declares the phases, and takes each phase through hash, start and end;
`classify` is the resume plan. `Crash` ends the process anywhere, in the middle of
an append too. `last` (what a phase's ops did last) is the truth the log is
compared with; `unsure`, `hurt` and `stale` say which records are known to be
missing, and are what the exceptions of the properties are stated with.

### `ResourcePool` and `SharedHandle`

The pool for one key, each atomic operation and each lock a step. Phases attach
(find or make the entry, read the slot, build across an await, count themselves
live, take a predicted use) and drop their guard (give up the count, read the
prediction, take the resource, spawn its close); the drain takes what is left at
the session's end. Counts wrap at `Wrap`, as a `usize` does. `SharedHandle` is the
abstract specification: a resource is opened, held, never closed under a holder,
never handed out once its close has begun, closed once. `HandleSpec` states that
the pool implements it, with the phases that were counted in time as the
holders. `exposed` marks the others: a phase that found the resource in the slot
and was counted after a detach had seen nobody left. (That detach may still keep
the resource, when it goes on to find predicted uses; it reads them later, and they
may change until it does, so the mark is made when the phase is counted and is
sometimes made of a phase that comes to no harm.) For them the sentence in
the code, "Holding the guard keeps the resource alive", does not hold, nor does
the argument at the entry that an outer mutex serialises the two.

`MCActivity`, `MCFiberPool`, `MCThrottle`, `MCRateLimiter`, `MCWalk`,
`MCCheckpoint` and `MCResourcePool` define the constants and symmetries of the runs. The modules whose
names end in `Proofs` hold the theorems.

## Runs

| Run | Checks | Shows |
|---|---|---|
| `activity_cycles` | CoverOnce, CoverAll, ErrorRateAtMostOne, InitialFibersDrained | two fibers and a scale-up over four ordinals in stanzas of a two-row and a one-row op, so the last stanza is short |
| `activity_ends` | CleanResultIsClean, OpsAccountedFor, CancelDrains, Terminates | a fiber whose two stanzas each start a daemon under a cap of one (races between fibers are `activity_cycles`'), session and walk stops, an aborting stop condition |
| `control_writes` | AppliedUnlessReported, CommitMeansLive, GaugeFollows, RevsIncrease, SetReturns | two writers, two consumers, valid and invalid values, drops at every await (the pin of a final control is left to the proofs) |
| `throttle_windows` | OfferWithinBounds, StreakIsEvidence, ClearedOnSustainedEvidence, SlowStartReachesCeiling, ReclimbsSafeZone | every sequence of calm, dead-band, marginal and total-failure windows, two writes under way, an operator above the ceiling |
| `throttle_recovers` | RecoversToCeiling, violated | see Findings |
| `pool_resize` | TypeOK, PoolFollowsWrites, OldestStays | two operators and the governor resize a pool being seeded, reaped and losing fibers |
| `rate_limits` | Conserved, BurstBounded, AcquireServed | two fine-grained rates and a coarse one, a refill task behind by more than a u32 of ticks, two waiters |
| `walk_tree` | TypeOK, FailureSurfaces, SerialCascade, FailureHalts, NothingStranded, TasksAreNested, Terminates | a daemon, a gated sweep of two phases at once with a loop over a repeated phase after it, which a halted gate does not stop; every kind of failure and stop |
| `walk_stop` | StoppedIsClean, violated | see Findings |
| `checkpoint_resume` | TypeOK, CompletedIsTrue, SkipIsSound, RerunHasReason, MirrorIsFold, LogSurvives | three invocations, a swept and a repeating phase, an edited workload, crashes anywhere, one refused append |
| `checkpoint_window` | SkippedPhasesCompleted, violated | see Findings |
| `resource_pool` | TypeOK, HandleSpec, CloseIsCalled | two phases, five attaches, predictions from none to all, overlapping and failing initialisations, late closes, the drain |

The type invariants of all eight modules are proved (`TypeCorrect`); those of
`FiberPool`, `Walk`, `Checkpoint` and `ResourcePool` are checked by the runs as well.

**Bounds.** They are the smallest at which the interesting case happens: two
fibers to race and a third to arrive late; an extent that is not a multiple of
the stanza; a cap of one so that the second daemon is refused; a throttle
ceiling high enough for several climbing steps, both above and below the safe
zone; a limiter whose clock can pass `TickMax` (clamping) and whose pool can pass
`MaxActive` (burst); a tree in which every kind of node has a sibling after it, with
two passes of the loop so that a scene node is used again; three invocations, so
that what a second one left behind is read by a third; five attaches, so that the
prediction can be too low, right, too high and, with two phases at the last use,
wrapped. `MaxRev`, `MaxFibers`, `MaxPending`, `MaxSince`,
`MaxBacklog`, `MaxWaiters`, `MaxRuns`, `MaxBoots`, `MaxFaults` and `MaxAttaches` bound
counters and queues in guards; the theorems hold for all values of those they
meet. Deadlock is checked of the walk and of the resource pool, whose end is a
state of its own, and not elsewhere: a phase that has ended, a control that is no
longer written, a stopped limiter and a directory nobody resumes are legitimate
ends.

**What the passing properties leave out.** `CleanResultIsClean` is checked of
phases without scale-ups: `FiberPool::spawn_one` starts a fiber before it records
it, so one added as the phase drains may start a daemon that nobody signals.
`OpsAccountedFor` is the equation that does hold, with the cancelled and skipped
daemon ops in it, where the comments state one without (finding 4); its part about
ops in flight is an inequality because a daemon op is counted as started twice and
finished once. `AppliedUnlessReported` lets a consumer keep the value of a write
that failed or was dropped, which the documents deny (finding 5), and what it was
configured with if it registered after the last commit. `GaugeFollows` lets the gauge
show the previous value between a commit and its publication, which a comment denies
(finding 6). `PoolFollowsWrites` begins with a write on the
started phase: before it, the governor's opening write and `spawn_initial` may
both have filled the pool. `SkipIsSound`, `RerunHasReason` and `MirrorIsFold` except
phases of which the log misses a record, and an invocation that read the log
before another had done with it. `HandleSpec` excepts phases counted
too late, `CloseIsCalled` resources overwritten by a second
initialisation and entries whose prediction wrapped. `SerialCascade` excepts walks in
which a unit failed that no shell has recorded (a panic, a gate or a loop condition
that cannot be evaluated, the early failure of a repeated phase): its permit is free
before the failure can be seen. `TasksAreNested` excepts the children of a sweep whose
gate could not be evaluated, and nothing else (`GaveUp`). A gate that halts the whole
workload (`GatedWorkload`) is in the theorems only. Each exception is a behaviour of the code that TLC produces
when the exception is removed.

**Fairness.** The runtime polls every ready task, so each fiber, each writer,
the wait loop and the refill task are weakly fair. Timers fire, so a grace
window expires (part of `MainStep`), an applier that does not answer is timed
out (part of `SetStep`), and time passes (`Elapse`). An op need not return:
`CancelDrains` does without, `Terminates` assumes it (`OpsReturn`). A rate permit
is granted in the end, which is what `AcquireServed` shows. Windows keep coming as
long as fibers run, and the oldest spawned write lands. The walk's tasks get on,
which the one weak fairness condition over all of them says (they are finitely
many steps, so that none is passed over for ever), and a phase ends, which is
`Activity`'s `Terminates`; the activity of a daemon only once it is told to stop.
A phase that has begun to attach goes through with it and drops its guard in the
end, and the session ends; nothing makes a spawned close end before the process
does. The checkpoint has no fairness: its properties are safety. Nothing is
assumed of operators, panics, stops or dropped calls.

## Proofs

Every invariant and every action property of a passing run is a theorem, for
every value of the constants under the named assumptions, and so is the
refinement. Each rests on an inductive invariant; what follows says which and
why the property alone is not enough.

- `ActivityProofs`. The type invariant needs that the drain awaits only while a
  slot is left (`AwaitOK`). `CoverOnceHolds` needs more than the counts:
  reservations of different fibers are disjoint, lie below the cursor, and contain
  no ordinal already handed out (`Exclusive`). `CoverAllHolds` adds the converse:
  below the cursor every ordinal is handed out or held (`Accounted`, until a stop
  is raised), a fiber's rows stay within its stanza (`Spans`), a fiber that left
  unasked has seen the cursor at its end (`Dismissed`), and there is always one
  that was not asked (`Manned`). `ErrorRateIsARate` and `OpsAreAccountedFor` count the
  fibers and daemons between two counters by the cardinality of sets (`Rates`,
  `Started`, `Tallied`); each step moves one task from one set to another.
  `InitialFibersDrain` needs that the first fibers were recorded before the wait
  loop began. `CleanUnlessLate` follows every daemon from its slot to the exits
  (`Located`, `Emptied`, `Reported`). It is about the runs in which no fiber is left
  behind the wait loop (`NoneLeft`); that hypothesis is the hazard at
  `runtime/fiber_pool.rs:135` and cannot be dropped. `CleanWithoutScaleUp` shows it
  is met by every phase that keeps the fibers it starts with.
- `FiberPoolProofs`: `TypeCorrect`, `PoolFollows`, `OldestIsKept`. `Serial` says that one
  writer at a time is in the control, `Resizing` what the count it read is worth
  when it acts on it, `Flagged` that a fiber leaves unasked only by a loss. The
  lemmas are about the newest n of a set of positions, which a scale-down flags.
- `ControlProofs`: `TypeCorrect`, `ConfirmedApply`, `CommittedIsLive`, `GaugeNeverAhead`,
  `RevsStrictlyIncrease`. The invariant says who may be where in `set`
  (`Exclusion`), what is idle without a holder (`Quiet`), which consumers run
  with which value during a fan-out and what explains it (`Reached`, `Explained`),
  how value and gauge relate (`Ordered`), and that a revision in hand is above the
  committed one and nobody else's (`Numbered`).
- `ThrottleProofs`: `TypeCorrect`, `Contained`, `StreakSound`, `MemorySound`. The
  offer is contained because every write under way is (`TargetsOK`), also after
  truncation; the streak is sound because a new congestion point resets it.
- `RateProofs`: `TypeCorrect`, `TimeConserved`, `BurstIsBounded`. The burst
  is bounded because the room a refill has read can only grow until it is used
  (`RoomOK`); conservation needs the types, and
  that a burst takes no more than the waiting pool holds (`BurstFact`).
- `WalkProofs`: `TypeCorrect`, `FailuresSurface`, `CascadeIsSerial`, `FailuresHalt`,
  `TasksNest`, `NothingIsStranded`, for any tree. The invariant is local: it relates
  a node to its children (below a quiet node all is at rest, `Calm`; what a running
  node has yet to start is off, `Ahead`; what is over has joined, unless it is a sweep
  whose gate failed, `Nested`, and been through its children, `Visited`). Two parts are not. `Halting`: while a counted
  failure has not stopped the walk, some phase is still to evaluate, which is why
  two phases that count before either evaluates do not lose the stop. `Carried`:
  once a unit has failed, some node holds a failure and all its ancestors still
  run; each step that ends a node hands the failure on to it or shows that another
  one has it, so that at the end the root has it. Every action is first shown to
  be of one of four shapes (a node starts children, moves on, ends, is joined or
  dropped), and the invariant is kept by each shape (`Launched`, `Moved`,
  `Finished`, `PutDown`).
- `CheckpointProofs`: `TypeCorrect`, `LogIsTrue`, `SkipsAreSound`, `RerunsHaveReason`,
  `MirrorIsTrue`, `LogIsSafe`, for any number of phases, invocations, crashes and
  refused appends. An event concerns one phase, so the invariant is one statement
  per phase: where it may be (`Progress`), what the log says of it (`Logged`), and,
  until it is hashed, that the plan made when the log was read is the one the log
  still calls for (`Planned`), without which a skip late in the invocation would
  not be known to be sound. A frame lemma covers the other phases.
- `ResourcePoolProofs`: `TypeCorrect`, and `PoolIsSharedHandle`, that the pool implements
  `SharedHandle`, for any number of phases and attaches. It needs that the live
  count is the number of holders (`Counted`, by cardinality), that a resource is in
  one place (`Placed`), and that nobody is about to close the slot of a phase
  counted in time (`Held`). Each step of the pool maps to one step of the abstract
  specification or to none.

**Assumptions.** `FibersAssumption`, `DaemonAssumption` and `ResourcePool`'s
`PoolAssumption` say that the sets of fibers, daemons and phases are finite, as
tasks of one process are; they are what makes the cardinalities numbers.
`TreeAssumption` says that the nodes of a walk form a tree: each is owned by one
parent's list, a phase has no children, and no set of nodes has all its parents in
itself, which is how a scenario's nested vectors are built. The other
assumptions give constants their types and the bounds the code checks when it
reads the workload. TLC evaluates all of them on the runs' instances.

**What the proofs changed.** `apply_entry` of `Checkpoint` was a `CASE` with
guards that overlap, which leaves its value open where TLC takes the first; the
guards are now exclusive, as the code's `match` is. `Walk` speaks of the positions left to
dispatch (`Left`) and of ancestors as the smallest set closed under parents
(`Above`) where it had recursive functions; `FiberPool` states `reap_finished` by
the order it keeps; `ResourcePool` opens the first free resource. These change how a
step is written and no behaviour.

**Model-checked only:** what holds under fairness (`CancelDrains`, `Terminates` of
the activity and of the walk, `SetReturns`, the climbs of the throttle,
`AcquireServed`, `CloseIsCalled`), which is out of the prover's reach, and the
three violations, which are counterexamples.

## Findings

1. *Throttle recovery* (`throttle_recovers`): a fractional reclimb target is
   truncated back to the current offer, and the offer stays there for ever.
   `ReclimbsSafeZone` is what does hold, from a floor of two fibers up.
2. *Skip of a phase that never ran* (`checkpoint_window`): the new hash of a phase
   is recorded before its start, on an entry that still says completed. A process
   that dies in between, while it purges the old samples, makes the next
   invocation skip the phase at a version that never ran.
3. *A graceful stop that exits with 2* (`walk_stop`): a phase's stop condition that
   acts on the scenario stops the walk behind the workload shell's back, and the
   run, in which nothing failed, is reported as having stranded its tail.

Three more are statements of the repository that the code does not keep. Each is
reported with the passing property that says what the code keeps instead; the
statement itself is that property without its exception, and TLC refutes it on the
same instance.

4. *The equation of the op counters* (`activity_ends`, `OpsAccountedFor`):
   `cycles_total == result_total + skips_total`, stated at `runtime/activity.rs:224`,
   4553 and 4709, is off by one for every daemon op that was cancelled (counted as a
   cycle only) and, the other way, for every one that was skipped (counted as a
   result and as a skip). A phase with one skipped daemon op ends with one result
   too many.
5. *All or nothing* (`control_writes`, `AppliedUnlessReported`):
   `docs/SRD/23_dynamic_controls.md:155` calls `set` all-or-nothing, and line 244 says
   that "no visible state changed" when it returns an error. Only the committed value
   is kept: the consumers that took the new value keep it
   (`nmbrs-metrics/src/controls.rs:428-433`), until the next write that commits.
6. *The gauge beside the commit* (`control_writes`, `GaugeFollows`): the comment at
   `nmbrs-metrics/src/controls.rs:448-451` says that a concurrent sampler "always sees
   a value at least as new as the committed". The gauge is written after the commit,
   so between the two it shows the value before; it is never newer, as the comment
   also says.

Met on the way, without a property of their own: the other exceptions listed above; in
`TimeUnit::Seconds` a tick is longer than the refill interval, so a rate at or
below 10^-6 ops/s never refills (`RateAssumption` leaves the unit out); a do-loop
whose condition does not change spins once the walk has halted; an interval
without a repeat count, and a daemon with an interval, go on after the walk has
halted.

## Plan

1. The control that `FiberPool` writes through is `DynamicControl` with one applier:
   state the refinement and prove it, so that what is proved of a control holds of
   the pool's.
2. `PhasePoll`: the rewind of the shared cursor in a polling phase with the
   concurrency control live; the windowed dispatch inside a stanza.
3. A composition of `Activity` with `RateLimiter`, where the permit wait is the
   one await of a fiber no stop can interrupt.
4. The rest of the shutdown ladder: the signal handler and the watchdogs.

## Not modelled

`polydat` kernels and scopes (an external library evaluating expressions; an op's
outcome is an input), adapters and drivers (I/O), the optimizers (floating-point
search), MetricsQL, reporters and the workload parser (sequential data
transformation), TUI, web and CLI (presentation; their effect on a run is a
write of a dynamic control, which is modelled). Of the executor: the compilation
of a phase and its scopes, dry runs and the `phases=` filter (which prune the tree
before the walk), refine (a second planner over the metrics database) and the
optimizer's sweeps, whose steps depend on measured values. Of the checkpoint:
scope events and op counts, which nothing reads back, and loss of power, as
against the death of the process. Of the pool: sibling generations, which no
production code makes.
