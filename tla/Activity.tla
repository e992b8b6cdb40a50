------------------------------ MODULE Activity ------------------------------
(***************************************************************************)
(* One activity (the run of one phase): the fibers of its cycle pool, the  *)
(* shared cursor they reserve ordinals from, the op-outcome counters they  *)
(* feed, the daemon ops they start, and the activity's own task, which     *)
(* samples the counters, waits for the fibers, drains the daemons and      *)
(* returns whether the phase stopped abnormally.                           *)
(*                                                                         *)
(* Source: nmbrs-runtime/src/activity.rs (run_with_adapters, executor_task,*)
(* daemon_dispatch), child_source.rs (CursorSource, StanzaRuns),           *)
(* daemon_pool.rs (try_spawn, shutdown).  An op is opaque: it returns ok,  *)
(* an error or a skip, and any of its effects on the stop flag happen when *)
(* it returns.  Resizing the pool is seen here as its two effects, a new   *)
(* fiber and a raised fiber_stop; FiberPool models how they come about.    *)
(***************************************************************************)
EXTENDS Integers, Sequences, FiniteSets

CONSTANTS
    Fibers,         \* identities of every fiber the pool may ever spawn
    InitialFibers,  \* the fibers spawn_initial starts
    Extent,         \* number of ordinals the phase's cursor yields
    Positions,      \* stanza length: positions are 1..Positions
    RowOffset,      \* RowOffset[p]: rows taken by the positions before p
    DaemonPositions,\* the stanza positions whose template declares daemon:
    Daemons,        \* identities of the daemon fibers
    DaemonCap,      \* the daemon op's max-fibers cap
    MinCycles,      \* cycles the error-rate condition waits for
    StopScope,      \* where a tripped condition lands: phase | scenario | workload
    StopAborts,     \* whether its action is abort, which cancels ops at once
    ExternalStops   \* which stops from outside this activity may happen

ASSUME FibersAssumption ==
    IsFiniteSet(Fibers) /\ InitialFibers \in SUBSET Fibers /\ InitialFibers # {}
ASSUME CursorAssumption ==
    /\ Extent \in Nat
    /\ Positions \in Nat \ {0}
    /\ RowOffset \in [1..(Positions + 1) -> Nat]
    /\ RowOffset[1] = 0
    /\ \A p \in 1..Positions : RowOffset[p] < RowOffset[p + 1]
ASSUME DaemonAssumption ==
    /\ IsFiniteSet(Daemons)
    /\ DaemonPositions \subseteq 1..Positions
    /\ DaemonCap \in Nat
    /\ MinCycles \in Nat
    /\ StopScope \in {"phase", "scenario", "workload"}
    /\ StopAborts \in BOOLEAN
    /\ ExternalStops \subseteq {"session", "walk", "daemon"}

VARIABLES
    cursor,         \* next ordinal the shared source will hand out
    pc,             \* per fiber: where executor_task is
    pos, base, fend,\* per fiber: the StanzaRuns iterator
    outcome,        \* per fiber: what its last op returned
    fiber_stop,     \* fibers told to exit by a scale-down
    unpushed,       \* fibers spawn_one has started but not yet put in the pool
    covered,        \* per ordinal: how many ops were handed it
    cycles_total, result_total, skips_total, result_failure,
    ops_started, ops_finished,
    stop_flag, level, walk_stop, daemon_stop,
    mpc,            \* where the activity's own task is
    sample,         \* the error and cycle counts it last read
    policy_tripped,
    dpc, dexit, dflag,  \* per daemon: its state, how it ended, its stop flag
    dskip,          \* daemons whose op the if: wrapper skipped
    slots,          \* the daemon pool's slots
    draining,       \* the slots DaemonPool::shutdown has taken
    exits,          \* the daemon exits shutdown has collected
    result          \* what run_with_adapters returned

cursorVars == <<cursor, pos, base, fend, covered>>
fiberVars  == <<pc, outcome, fiber_stop, unpushed>>
countVars  == <<cycles_total, result_total, skips_total, result_failure,
                ops_started, ops_finished>>
stopVars   == <<stop_flag, level, walk_stop, daemon_stop>>
mainVars   == <<mpc, sample, policy_tripped, draining, exits, result>>
daemonVars == <<dpc, dexit, dflag, dskip, slots>>
vars == <<cursorVars, fiberVars, countVars, stopVars, mainVars, daemonVars>>

Ordinals   == 0..(Extent - 1)
FiberState == {"unborn", "boundary", "stanza", "permit", "inflight",
               "returned", "counted", "exited"}
OpOutcome  == {"ok", "err", "skip"}
DaemonState == {"unborn", "spawned", "running", "returned"}
DaemonExit == {"none", "Completed", "Cancelled", "Errored", "Panicked"}
MainState  == {"loop", "sampled", "drain", "await", "report", "done"}

-----------------------------------------------------------------------------
\* Activity::stopped: every reason for a fiber to wind down.
stopped == stop_flag \/ level > 0 \/ walk_stop \/ daemon_stop

\* StopView::abnormal: the reasons that make the phase a failure; a daemon
\* phase told to stop because its foreground finished is not one.
abnormal == stop_flag \/ level > 0 \/ walk_stop

\* DaemonExit::is_phase_error.  (TimedOutIsClean forgets the timeout.)
TimedOutIsClean(e) == e \in {"Errored", "Panicked"}
is_phase_error(e) == e \in {"Errored", "Panicked", "TimedOut"}

\* The daemons counted by DaemonPool.live_counts.
live == {d \in Daemons : dpc[d] \in {"spawned", "running"}}

\* The fibers that were ever started.
spawned == {f \in Fibers : pc[f] # "unborn"}

\* What reap_finished and tracked_count leave: flagged fibers still count, one
\* not yet pushed does not.  (ActiveOnly is active_count's view.)
ActiveOnly == {f \in spawned \ (unpushed \cup fiber_stop) : pc[f] # "exited"}
tracked == {f \in spawned \ unpushed : pc[f] # "exited"}

\* The cut of a range at its end.
MinOf(a, b) == IF a <= b THEN a ELSE b

Init ==
    /\ cursor = 0
    /\ pc = [f \in Fibers |-> IF f \in InitialFibers THEN "boundary" ELSE "unborn"]
    /\ pos = [f \in Fibers |-> 1]
    /\ base = [f \in Fibers |-> 0]
    /\ fend = [f \in Fibers |-> 0]
    /\ outcome = [f \in Fibers |-> "ok"]
    /\ fiber_stop = {} /\ unpushed = {}
    /\ covered = [o \in Ordinals |-> 0]
    /\ cycles_total = 0 /\ result_total = 0 /\ skips_total = 0
    /\ result_failure = 0 /\ ops_started = 0 /\ ops_finished = 0
    /\ stop_flag = FALSE /\ level = 0 /\ walk_stop = FALSE /\ daemon_stop = FALSE
    /\ mpc = "loop"
    /\ sample = [failures |-> 0, cycles |-> 0]
    /\ policy_tripped = FALSE
    /\ dpc = [d \in Daemons |-> "unborn"]
    /\ dexit = [d \in Daemons |-> "none"]
    /\ dflag = {} /\ dskip = {}
    /\ slots = <<>>
    /\ draining = <<>> /\ exits = {}
    /\ result = FALSE

-----------------------------------------------------------------------------
(* The pool's effects on this activity.                                    *)

\* FiberPool::spawn_one from a scale-up starts the fiber's task; the control
\* may be written at any time, also while the activity is already draining.
SpawnFiber(f) ==
    /\ pc[f] = "unborn"
    /\ pc' = [pc EXCEPT ![f] = "boundary"]
    /\ unpushed' = unpushed \cup {f}
    /\ UNCHANGED <<outcome, fiber_stop, cursorVars, countVars, stopVars, mainVars, daemonVars>>

\* ... and then takes the pool's lock to record it; the task runs meanwhile.
PushFiber(f) ==
    /\ f \in unpushed
    /\ unpushed' = unpushed \ {f}
    /\ UNCHANGED <<pc, outcome, fiber_stop, cursorVars, countVars, stopVars, mainVars, daemonVars>>

\* FiberPool::resize to a smaller target: some fiber is flagged, and since
\* the target is at least 1 another fiber of the pool stays unflagged.
FlagFiber(f) ==
    /\ f \in spawned \ (unpushed \cup fiber_stop)
    /\ \E g \in spawned \ (unpushed \cup fiber_stop) : g # f
    /\ fiber_stop' = fiber_stop \cup {f}
    /\ UNCHANGED <<pc, outcome, unpushed, cursorVars, countVars, stopVars, mainVars, daemonVars>>

-----------------------------------------------------------------------------
(* executor_task: the fiber's loop.                                        *)

Goto(f, label) == pc' = [pc EXCEPT ![f] = label]

\* Top of the loop: leave on a stop or a scale-down.
LeaveAtBoundary(f) ==
    /\ pc[f] = "boundary"
    /\ stopped \/ f \in fiber_stop
    /\ Goto(f, "exited")
    /\ UNCHANGED <<outcome, fiber_stop, unpushed, cursorVars, countVars, stopVars, mainVars, daemonVars>>

\* CursorSource::poll_next reserves one stanza of ordinals, short at the end
\* of the cursor.
Reserve(f) ==
    /\ pc[f] = "boundary"
    /\ ~stopped /\ f \notin fiber_stop
    /\ cursor < Extent
    /\ LET upto == MinOf(cursor + RowOffset[Positions + 1], Extent)
       IN  /\ cursor' = upto
           /\ fend' = [fend EXCEPT ![f] = upto]
    /\ base' = [base EXCEPT ![f] = cursor]
    /\ pos' = [pos EXCEPT ![f] = 1]
    /\ Goto(f, "stanza")
    /\ UNCHANGED <<covered, outcome, fiber_stop, unpushed, countVars, stopVars, mainVars, daemonVars>>

\* poll_next finds the source exhausted.
Exhausted(f) ==
    /\ pc[f] = "boundary"
    /\ ~stopped /\ f \notin fiber_stop
    /\ cursor >= Extent
    /\ Goto(f, "exited")
    /\ UNCHANGED <<outcome, fiber_stop, unpushed, cursorVars, countVars, stopVars, mainVars, daemonVars>>

\* The check between two ops of a stanza: it does not look at fiber_stop,
\* because the ordinals of the stanza are reserved.  (BrokenByFlag does.)
BrokenByFlag(f) == stopped \/ f \in fiber_stop
StanzaBroken(f) == stopped

\* StanzaRuns::next has nothing left, or the stop check breaks the stanza and
\* drops what is left of the reservation.
EndStanza(f) ==
    /\ pc[f] = "stanza"
    /\ StanzaBroken(f) \/ pos[f] > Positions \/ base[f] >= fend[f]
    /\ Goto(f, "boundary")
    /\ base' = [base EXCEPT ![f] = fend[f]]
    /\ UNCHANGED <<cursor, pos, fend, covered, outcome, fiber_stop, unpushed, countVars,
                   stopVars, mainVars, daemonVars>>

\* The rows of the position the iterator stands at, cut at the reserved end.
SubEnd(f) == MinOf(base[f] + (RowOffset[pos[f] + 1] - RowOffset[pos[f]]), fend[f])

\* The iterator moves to the end of the sub-run it yields.  (AdvanceByOne
\* moves by one ordinal, as before ops could take several.)
AdvanceByOne(f) == base' = [base EXCEPT ![f] = @ + 1]
AdvanceRun(f) == base' = [base EXCEPT ![f] = SubEnd(f)]

\* StanzaRuns::next yields the next sub-run; the fiber counts the op as
\* started and waits for its rate permit.
NextOp(f) ==
    /\ pc[f] = "stanza"
    /\ ~StanzaBroken(f) /\ pos[f] <= Positions /\ base[f] < fend[f]
    /\ covered' = [o \in Ordinals |->
                      IF o \in base[f]..(SubEnd(f) - 1) THEN covered[o] + 1 ELSE covered[o]]
    /\ AdvanceRun(f)
    /\ pos' = [pos EXCEPT ![f] = @ + 1]
    /\ ops_started' = ops_started + 1
    /\ Goto(f, "permit")
    /\ UNCHANGED <<cursor, fend, outcome, fiber_stop, unpushed, cycles_total, result_total, skips_total,
                   result_failure, ops_finished, stopVars, mainVars, daemonVars>>

\* The position the op in hand was yielded for.
OpPosition(f) == pos[f] - 1

\* rate_limiter.acquire returns and an ordinary op goes to its dispenser.
\* Neither the permit wait nor this step looks at the stop flags.
Dispatch(f) ==
    /\ pc[f] = "permit"
    /\ OpPosition(f) \notin DaemonPositions
    /\ Goto(f, "inflight")
    /\ UNCHANGED <<outcome, fiber_stop, unpushed, cursorVars, countVars, stopVars, mainVars, daemonVars>>

\* The dispenser stack returns; on an error its error policy may stop the phase.
OpReturns(f) ==
    /\ pc[f] = "inflight"
    /\ \E r \in OpOutcome, stops \in BOOLEAN :
          /\ stops => r = "err"
          /\ outcome' = [outcome EXCEPT ![f] = r]
          /\ stop_flag' = (stop_flag \/ stops)
          /\ skips_total' = IF r = "skip" THEN skips_total + 1 ELSE skips_total
    /\ Goto(f, "returned")
    /\ UNCHANGED <<fiber_stop, unpushed, cursorVars, cycles_total, result_total, result_failure, ops_started,
                   ops_finished, level, walk_stop, daemon_stop, mainVars, daemonVars>>

\* ops_cancelled: the ladder reached its cancel rung.  (NeverCancelled waits
\* for a rung beyond it.)
NeverCancelled == level > 2
ops_cancelled == level >= 2

\* ops_cancelled wins the select: the op's future is dropped and a
\* non-retryable error stands for its outcome.
CancelOp(f) ==
    /\ pc[f] = "inflight"
    /\ ops_cancelled
    /\ outcome' = [outcome EXCEPT ![f] = "err"]
    /\ Goto(f, "returned")
    /\ UNCHANGED <<fiber_stop, unpushed, cursorVars, countVars, stopVars, mainVars, daemonVars>>

\* cycles_total.inc, before any result counter.
CountCycle(f) ==
    /\ pc[f] = "returned"
    /\ cycles_total' = cycles_total + 1
    /\ Goto(f, "counted")
    /\ UNCHANGED <<outcome, fiber_stop, unpushed, cursorVars, result_total, skips_total, result_failure,
                   ops_started, ops_finished, stopVars, mainVars, daemonVars>>

\* A skipped op is no result.  (SkipsAreResults counts it as one.)
SkipsAreResults(f) == TRUE
IsResult(f) == outcome[f] # "skip"

\* The result counters and ops_finished; committing the write-throughs of a
\* successful op may find a type mismatch, which stops the phase.
CountResult(f) ==
    /\ pc[f] = "counted"
    /\ result_total' = IF IsResult(f) THEN result_total + 1 ELSE result_total
    /\ result_failure' = IF outcome[f] = "err" THEN result_failure + 1 ELSE result_failure
    /\ ops_finished' = ops_finished + 1
    /\ \E mismatch \in BOOLEAN :
          /\ mismatch => outcome[f] = "ok"
          /\ stop_flag' = (stop_flag \/ mismatch)
    /\ Goto(f, "stanza")
    /\ UNCHANGED <<outcome, fiber_stop, unpushed, cursorVars, cycles_total, skips_total, ops_started,
                   level, walk_stop, daemon_stop, mainVars, daemonVars>>

\* A panic while the op is being prepared (render, pulls): the spawner catches
\* it and stops the phase; the fiber is gone with the rest of its reservation.
PanicFiber(f) ==
    /\ pc[f] = "permit"
    /\ stop_flag' = TRUE
    /\ base' = [base EXCEPT ![f] = fend[f]]
    /\ Goto(f, "exited")
    /\ UNCHANGED <<cursor, pos, fend, covered, outcome, fiber_stop, unpushed, countVars, level, walk_stop,
                   daemon_stop, mainVars, daemonVars>>

\* The same for a panic in the outputs pulled after a success was counted.
PanicInOutputs(f) ==
    /\ pc[f] = "counted"
    /\ outcome[f] = "ok"
    /\ result_total' = result_total + 1
    /\ stop_flag' = TRUE
    /\ base' = [base EXCEPT ![f] = fend[f]]
    /\ Goto(f, "exited")
    /\ UNCHANGED <<cursor, pos, fend, covered, outcome, fiber_stop, unpushed, cycles_total, skips_total,
                   result_failure, ops_started, ops_finished, level, walk_stop, daemon_stop,
                   mainVars, daemonVars>>

-----------------------------------------------------------------------------
(* Daemon ops.                                                             *)

\* DaemonPool::try_spawn under the cap: the daemon runs on its own and the
\* fiber goes on with the stanza.  Daemons have no identity before they are
\* spawned, so one choice stands for all.
SpawnDaemon(f, d) ==
    /\ pc[f] = "permit"
    /\ OpPosition(f) \in DaemonPositions
    /\ Cardinality(live) < DaemonCap
    /\ dpc[d] = "unborn" /\ d = CHOOSE e \in Daemons : dpc[e] = "unborn"
    /\ dpc' = [dpc EXCEPT ![d] = "spawned"]
    /\ slots' = Append(slots, d)
    /\ Goto(f, "stanza")
    /\ UNCHANGED <<outcome, fiber_stop, unpushed, cursorVars, countVars, stopVars, mainVars, dexit, dflag,
                   dskip>>

\* try_spawn at the cap: the phase stops and the fiber returns at once.
SpawnDaemonFails(f) ==
    /\ pc[f] = "permit"
    /\ OpPosition(f) \in DaemonPositions
    /\ Cardinality(live) >= DaemonCap
    /\ stop_flag' = TRUE
    /\ base' = [base EXCEPT ![f] = fend[f]]
    /\ Goto(f, "exited")
    /\ UNCHANGED <<cursor, pos, fend, covered, outcome, fiber_stop, unpushed, countVars, level, walk_stop,
                   daemon_stop, mainVars, daemonVars>>

\* daemon_dispatch begins.
DaemonStarts(d) ==
    /\ dpc[d] = "spawned"
    /\ dpc' = [dpc EXCEPT ![d] = "running"]
    /\ ops_started' = ops_started + 1
    /\ UNCHANGED <<cursorVars, fiberVars, cycles_total, result_total, skips_total, result_failure,
                   ops_finished, stopVars, mainVars, dexit, dflag, dskip, slots>>

DaemonEnds(d, e) ==
    /\ dpc' = [dpc EXCEPT ![d] = "returned"]
    /\ dexit' = [dexit EXCEPT ![d] = e]
    /\ UNCHANGED <<cursorVars, fiberVars, ops_started, level, walk_stop, daemon_stop, mainVars,
                   dflag, slots>>

\* The daemon's op returns by itself: an error may stop the phase by policy, a
\* skip was tallied by the if: wrapper and counts as a completion here too.  Its
\* counters are one step: they come in the order of a fiber's, whose gaps the
\* wait loop meets in CountCycle and CountResult.
DaemonReturns(d) ==
    /\ dpc[d] = "running"
    /\ \E r \in OpOutcome, stops \in BOOLEAN :
        /\ stops => r = "err"
        /\ DaemonEnds(d, IF r = "err" THEN "Errored" ELSE "Completed")
        /\ stop_flag' = (stop_flag \/ stops)
        /\ result_failure' = IF r = "err" THEN result_failure + 1 ELSE result_failure
        /\ skips_total' = IF r = "skip" THEN skips_total + 1 ELSE skips_total
        /\ dskip' = IF r = "skip" THEN dskip \cup {d} ELSE dskip
    /\ cycles_total' = cycles_total + 1
    /\ ops_finished' = ops_finished + 1
    /\ result_total' = result_total + 1

\* poll_daemon_stop wins the select: it watches the daemon's own flag and the
\* activity's stop_flag only.
DaemonCancels(d) ==
    /\ dpc[d] = "running"
    /\ d \in dflag \/ stop_flag
    /\ DaemonEnds(d, "Cancelled")
    /\ cycles_total' = cycles_total + 1
    /\ ops_finished' = ops_finished + 1
    /\ UNCHANGED <<stop_flag, result_total, result_failure, skips_total, dskip>>

\* A panic in the daemon body, before or after it counted the op as started,
\* caught by its wrapper.
DaemonPanics(d) ==
    /\ dpc[d] \in {"spawned", "running"}
    /\ DaemonEnds(d, "Panicked")
    /\ stop_flag' = TRUE
    /\ UNCHANGED <<cycles_total, ops_finished, result_total, result_failure, skips_total, dskip>>

-----------------------------------------------------------------------------
(* The activity's own task: the wait loop of run_with_adapters.            *)

\* A tick with fibers still tracked reads result_failure first ...
ReadFailures ==
    /\ mpc = "loop"
    /\ tracked # {}
    /\ ~policy_tripped
    /\ sample' = [sample EXCEPT !.failures = result_failure]
    /\ mpc' = "sampled"
    /\ UNCHANGED <<cursorVars, fiberVars, countVars, stopVars, policy_tripped, draining, exits,
                   result, daemonVars>>

\* The stop condition: the error rate, once enough cycles were seen.
Trips(failures, cycles) == cycles >= MinCycles /\ failures > 0 /\ 2 * failures > cycles

\* The fresh read of cycles_total.  (StaleCycles reuses the previous tick's.)
StaleCycles == sample.cycles
FreshCycles == cycles_total

\* ... and cycles_total after it, then evaluates the stop condition and
\* routes a trip to the scope it is declared at.
EvaluateStop ==
    /\ mpc = "sampled"
    /\ sample' = [sample EXCEPT !.cycles = FreshCycles]
    /\ mpc' = "loop"
    /\ LET trips == Trips(sample.failures, FreshCycles)
       IN  /\ policy_tripped' = trips
           /\ stop_flag' = (stop_flag \/ (trips /\ StopScope = "phase"))
           /\ walk_stop' = (walk_stop \/ (trips /\ StopScope # "phase"))
           /\ level' = IF trips /\ StopAborts THEN 2
                       ELSE IF trips /\ StopScope = "workload" /\ level = 0 THEN 1 ELSE level
    /\ UNCHANGED <<cursorVars, fiberVars, countVars, daemon_stop, draining, exits, result,
                   daemonVars>>

\* No tracked fiber is left: shutdown takes the daemon slots.
AllDrained ==
    /\ mpc = "loop"
    /\ tracked = {}
    /\ mpc' = "drain"
    /\ draining' = slots
    /\ slots' = <<>>
    /\ UNCHANGED <<cursorVars, fiberVars, countVars, stopVars, sample, policy_tripped, exits,
                   result, dpc, dexit, dflag, dskip>>

\* shutdown signals the daemons one after the other, in spawn order.
SignalDaemon ==
    /\ mpc = "drain"
    /\ draining # <<>>
    /\ dflag' = dflag \cup {Head(draining)}
    /\ mpc' = "await"
    /\ UNCHANGED <<cursorVars, fiberVars, countVars, stopVars, sample, policy_tripped, draining,
                   exits, result, dpc, dexit, dskip, slots>>

CollectExit(e) ==
    /\ draining' = Tail(draining)
    /\ exits' = exits \cup {e}
    /\ mpc' = "drain"
    /\ UNCHANGED <<cursorVars, fiberVars, countVars, stopVars, sample, policy_tripped, result,
                   daemonVars>>

\* The join handle resolves within the grace window.
JoinDaemon ==
    /\ mpc = "await"
    /\ dpc[Head(draining)] = "returned"
    /\ CollectExit(dexit[Head(draining)])

\* (NoGrace awaits the daemon without a deadline.)
NoGrace == FALSE

\* The grace window expires: the handle is dropped, the task runs on.
GraceExpires ==
    /\ mpc = "await"
    /\ dpc[Head(draining)] # "returned"
    /\ CollectExit("TimedOut")

\* With every daemon joined or given up, an exit that is an error stops the
\* phase.
ReportExits ==
    /\ mpc = "drain"
    /\ draining = <<>>
    /\ mpc' = "report"
    /\ stop_flag' = (stop_flag \/ \E e \in exits : is_phase_error(e))
    /\ UNCHANGED <<cursorVars, fiberVars, countVars, level, walk_stop, daemon_stop, sample,
                   policy_tripped, draining, exits, result, daemonVars>>

\* run_with_adapters returns StopView::abnormal.
Finish ==
    /\ mpc = "report"
    /\ mpc' = "done"
    /\ result' = abnormal
    /\ UNCHANGED <<cursorVars, fiberVars, countVars, stopVars, sample, policy_tripped, draining,
                   exits, daemonVars>>

-----------------------------------------------------------------------------
(* Stops from outside: the session's shutdown ladder, another phase's      *)
(* scenario-scoped stop condition, the foreground of a daemon phase ending.*)
Escalate ==
    /\ "session" \in ExternalStops
    /\ level < 2
    /\ level' = level + 1
    /\ UNCHANGED <<stop_flag, walk_stop, daemon_stop, cursorVars, fiberVars, countVars, mainVars,
                   daemonVars>>

WalkStop ==
    /\ "walk" \in ExternalStops
    /\ ~walk_stop
    /\ walk_stop' = TRUE
    /\ UNCHANGED <<stop_flag, level, daemon_stop, cursorVars, fiberVars, countVars, mainVars,
                   daemonVars>>

DaemonStop ==
    /\ "daemon" \in ExternalStops
    /\ ~daemon_stop
    /\ daemon_stop' = TRUE
    /\ UNCHANGED <<stop_flag, level, walk_stop, cursorVars, fiberVars, countVars, mainVars,
                   daemonVars>>

-----------------------------------------------------------------------------
FiberStep(f) ==
    \/ LeaveAtBoundary(f) \/ Reserve(f) \/ Exhausted(f) \/ EndStanza(f) \/ NextOp(f)
    \/ Dispatch(f) \/ CancelOp(f) \/ CountCycle(f) \/ CountResult(f) \/ SpawnDaemonFails(f)
    \/ \E d \in Daemons : SpawnDaemon(f, d)

MainStep ==
    \/ ReadFailures \/ EvaluateStop \/ AllDrained \/ SignalDaemon \/ JoinDaemon
    \/ GraceExpires \/ ReportExits \/ Finish

Next ==
    \/ \E f \in Fibers : FiberStep(f) \/ OpReturns(f) \/ PanicFiber(f)
                         \/ PanicInOutputs(f) \/ SpawnFiber(f) \/ PushFiber(f)
                         \/ FlagFiber(f)
    \/ \E d \in Daemons : DaemonStarts(d) \/ DaemonReturns(d) \/ DaemonCancels(d)
                          \/ DaemonPanics(d)
    \/ MainStep
    \/ Escalate \/ WalkStop \/ DaemonStop

Spec == Init /\ [][Next]_vars

\* The runtime schedules every ready fiber and the activity's task, a rate
\* permit is granted in the end and a grace timer fires; an op need not return.
CancelSpec ==
    /\ Spec
    /\ \A f \in Fibers : WF_vars(FiberStep(f))
    /\ WF_vars(MainStep)

\* Ops do return.
OpsReturn == \A f \in Fibers : WF_vars(OpReturns(f))
-----------------------------------------------------------------------------
(* Properties.                                                             *)

\* The state stays within its types.
TypeOK ==
    /\ cursor \in 0..Extent
    /\ pc \in [Fibers -> FiberState]
    /\ pos \in [Fibers -> 1..(Positions + 1)]
    /\ base \in [Fibers -> 0..Extent]
    /\ fend \in [Fibers -> 0..Extent]
    /\ outcome \in [Fibers -> OpOutcome]
    /\ fiber_stop \subseteq Fibers /\ unpushed \subseteq Fibers
    /\ covered \in [Ordinals -> Nat]
    /\ cycles_total \in Nat /\ result_total \in Nat /\ skips_total \in Nat
    /\ result_failure \in Nat /\ ops_started \in Nat /\ ops_finished \in Nat
    /\ stop_flag \in BOOLEAN /\ level \in 0..2
    /\ walk_stop \in BOOLEAN /\ daemon_stop \in BOOLEAN
    /\ mpc \in MainState
    /\ sample \in [failures : Nat, cycles : Nat]
    /\ policy_tripped \in BOOLEAN
    /\ dpc \in [Daemons -> DaemonState]
    /\ dexit \in [Daemons -> DaemonExit]
    /\ dflag \subseteq Daemons /\ dskip \subseteq Daemons
    /\ slots \in Seq(Daemons)
    /\ draining \in Seq(Daemons)
    /\ exits \subseteq DaemonExit \cup {"TimedOut"}
    /\ result \in BOOLEAN

\* Cover-once (child_source.rs): no ordinal is handed to two ops, whatever
\* fibers are added, flagged, stopped or lost while others hold reservations.
CoverOnce == \A o \in Ordinals : covered[o] <= 1

\* Nothing is dropped: when every fiber is gone and no stop was ever raised,
\* every ordinal of the cursor was handed to an op, also across scale-downs.
CoverAll ==
    (\A f \in spawned : pc[f] = "exited") /\ ~stopped
        => \A o \in Ordinals : covered[o] = 1

\* The pair of counts the stop condition is evaluated on is one of an error
\* rate of at most 1 (the read order in the wait loop and the increment order
\* in the fibers together): an op erroring between the reads cannot trip it.
ErrorRateAtMostOne == mpc # "sampled" => sample.failures <= sample.cycles

\* Once the wait loop saw the pool empty, no fiber the phase started with is
\* still running an op, flagged for exit or not.
InitialFibersDrained ==
    mpc \in {"drain", "await", "report", "done"} => \A f \in InitialFibers : pc[f] = "exited"

\* A phase reported as not stopped left no daemon behind and hid no daemon
\* failure: an errored, panicked or still running daemon fails the phase.
CleanResultIsClean ==
    mpc = "done" /\ ~result
        => \A d \in Daemons : /\ dpc[d] \in {"unborn", "returned"}
                             /\ ~is_phase_error(dexit[d])

\* Every op under way is in the difference of ops started and finished, from
\* which the stall detector tells a stuck phase, whatever panics, refused
\* daemons and daemon ops (started in the fiber and again in daemon_dispatch,
\* finished once) leave in it.  And every op that is over is in one tally, but
\* for daemon ops: with no op between its return and its last counter, the cycles
\* are the results and the skips, plus the cancelled daemons (in no tally), less
\* the skipped ones (in both).  "cycles_total == result_total + skips_total", which
\* the comments on the counters state of every phase, is wrong by just these two.
OpsAccountedFor ==
    /\ ops_started >= ops_finished
           + Cardinality({f \in Fibers : pc[f] \in {"permit", "inflight", "returned", "counted"}})
           + Cardinality({d \in Daemons : dpc[d] \in {"spawned", "running"}})
    /\ (\A f \in Fibers : pc[f] \notin {"returned", "counted"})
           => cycles_total + Cardinality(dskip)
                = result_total + skips_total
                  + Cardinality({d \in Daemons : dexit[d] = "Cancelled"})

\* The rung that cancels ops always gets the phase to its end, even when no
\* op in flight ever returns by itself.
CancelDrains == (level = 2) ~> (mpc = "done")

\* A phase whose ops return ends, whatever the errors, the panics, the stops and
\* the daemons that never return.
Terminates == OpsReturn => <>(mpc = "done")
=============================================================================
