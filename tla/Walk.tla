-------------------------------- MODULE Walk --------------------------------
(***************************************************************************)
(* The walk of a scenario: the tasks that run its phases, bodies, sweeps   *)
(* and loops, the permits they run under, the daemon phases beside them,   *)
(* the workload shell that counts phase outcomes and latches the stop, and *)
(* the exit code the run ends with.                                        *)
(*                                                                         *)
(* Source: nmbrs-runtime/src/executor.rs, workload_shell.rs,               *)
(* wrappers/interval.rs, session_signals.rs, and the exit of nmbrs-tui's   *)
(* observer.rs.  A body is a list of sibling nodes (the scenario, an       *)
(* included scenario, a bindings scope, one iteration of a sweep); a sweep *)
(* is a comprehension over children or over a phase; a loop runs its one   *)
(* body in its own task.  Left out: the phases= filter, dry runs, the      *)
(* optimizer's sweeps, and what a phase does inside, which is Activity.    *)
(***************************************************************************)
EXTENDS Naturals, Sequences, FiniteSets, Functions

CONSTANTS
    Nodes, Root,
    Kind,           \* of each node: "phase", "body", "sweep" or "loop"
    Kids,           \* of each node: its children, in declaration order
    Limit,          \* of each node: permits for its children
    Daemons,        \* daemon phases
    Gated,          \* sweeps with continue_if
    GatedWorkload,  \* those of them with each: workload
    Repeated,       \* phases with interval: and repeat: MaxRuns
    Skippable,      \* phases a resume plan may skip
    Conditioned,    \* phases with a stop condition
    StopScope,      \* and where it acts: "phase", "scenario" or "workload"
    StopAfter,      \* a declared workload condition, children_done >= StopAfter
    StopEffect,     \* and its effect: "stop" or "fail"
    MaxRuns         \* bound: passes of a loop, runs of a repeated phase

ASSUME WalkAssumption ==
    /\ Root \in Nodes
    /\ Kind \in [Nodes -> {"phase", "body", "sweep", "loop"}] /\ Kind[Root] = "body"
    /\ Kids \in [Nodes -> Seq(Nodes)] /\ Limit \in [Nodes -> Nat \ {0}]
    /\ Daemons \cup Repeated \cup Skippable \cup Conditioned \subseteq {n \in Nodes : Kind[n] = "phase"}
    /\ GatedWorkload \subseteq Gated /\ Gated \subseteq {n \in Nodes : Kind[n] = "sweep"}
    /\ StopScope \in {"phase", "scenario", "workload"} /\ StopEffect \in {"stop", "fail"}
    /\ StopAfter \in Nat \ {0} /\ MaxRuns \in Nat \ {0}
    /\ \A n \in Nodes : Kind[n] = "loop" => Len(Kids[n]) = 1 /\ Kind[Kids[n][1]] = "body"

\* The nodes are a tree: a node is listed once, by one parent, the root by none;
\* a phase is a leaf; and no set of nodes has all its parents in itself.
ASSUME TreeAssumption ==
    /\ IsFiniteSet(Nodes)
    /\ \A n \in Nodes : IsInjective(Kids[n]) /\ Root \notin Range(Kids[n])
    /\ \A n \in Nodes \ {Root} : \E p \in Nodes :
          n \in Range(Kids[p]) /\ \A q \in Nodes : n \in Range(Kids[q]) => q = p
    /\ \A n \in Nodes : Kind[n] = "phase" => Kids[n] = <<>>
    /\ \A S \in (SUBSET Nodes) \ {{}} : \E n \in S : \A m \in S : n \notin Range(Kids[m])

VARIABLES
    st,             \* of each node: its task
    at, pos, runs,  \* of each node: the step it is at, the next child, the runs begun
    bad,            \* of each node: the outcome it returned is a failure
    reached,        \* phases no longer pending in the observer's list
    noted,          \* phases whose scene node has an outcome
    children_failed, children_done,
    walk_stop, session_stop, graceful_stop, fault_stop,
    why             \* history: the ways units have failed

task_vars == <<st, at, pos, runs, bad>>
shell_vars == <<children_failed, children_done, walk_stop>>
flag_vars == <<session_stop, graceful_stop, fault_stop>>
vars == <<task_vars, reached, noted, shell_vars, flag_vars, why>>

Phases == {n \in Nodes : Kind[n] = "phase"}
Children == [n \in Nodes |-> Range(Kids[n])]
Parent == [n \in Nodes |-> CHOOSE p \in Nodes : n \in Children[p]]

Init ==
    /\ st = [n \in Nodes |-> IF n = Root THEN "run" ELSE "off"]
    /\ at = [n \in Nodes |-> "enter"]
    /\ pos = [n \in Nodes |-> 1]
    /\ runs = [n \in Nodes |-> 0]
    /\ bad = [n \in Nodes |-> FALSE]
    /\ reached = {} /\ noted = {}
    /\ children_failed = 0 /\ children_done = 0
    /\ walk_stop = FALSE /\ session_stop = FALSE
    /\ graceful_stop = FALSE /\ fault_stop = FALSE
    /\ why = {}

-----------------------------------------------------------------------------
\* Tasks

Running(n, kind, step) == Kind[n] = kind /\ st[n] = "run" /\ at[n] = step

\* Node n starts the tasks K and goes on to step s, position p and run r; what
\* is started again is as it was at first.
Start(n, K, s, p, r) ==
    LET fresh == K \cup UNION {Children[k] : k \in K} IN
    /\ st' = [m \in Nodes |-> IF m \in K THEN "run" ELSE IF m \in fresh THEN "off" ELSE st[m]]
    /\ at' = [m \in Nodes |-> IF m = n THEN s ELSE IF m \in fresh THEN "enter" ELSE at[m]]
    /\ pos' = [m \in Nodes |-> IF m = n THEN p ELSE IF m \in fresh THEN 1 ELSE pos[m]]
    /\ runs' = [m \in Nodes |-> IF m = n THEN r ELSE IF m \in fresh THEN 0 ELSE runs[m]]
    /\ bad' = [m \in Nodes |-> IF m \in fresh THEN FALSE ELSE bad[m]]

Goto(n, s) ==
    /\ at' = [at EXCEPT ![n] = s]
    /\ UNCHANGED <<st, pos, runs, bad>>

\* The task's future returns b; its permit is dropped.
Return(n, b) ==
    /\ st' = [st EXCEPT ![n] = "returned"]
    /\ bad' = [bad EXCEPT ![n] = b]

\* Only then is the task's result there to be joined.
Joinable(n) ==
    /\ st[n] = "returned" /\ n # Root /\ Kind[Parent[n]] # "loop"
    /\ st' = [st EXCEPT ![n] = "done"]
    /\ UNCHANGED <<at, pos, runs, bad, reached, noted, shell_vars, flag_vars, why>>

\* A task aborted with the JoinSet its parent returned over ends at its next
\* await; there is none between the count of an outcome and its evaluation.
Dropped(n) ==
    /\ st[n] \in {"run", "returned"} /\ n # Root
    /\ at[n] \notin {"failed", "completed"}
    /\ Kind[Parent[n]] # "loop" => st[Parent[n]] # "run"
    /\ Kind[Parent[n]] = "loop" => st[Parent[n]] = "dropped"
    /\ st' = [st EXCEPT ![n] = "dropped"]
    /\ UNCHANGED <<at, pos, runs, bad, reached, noted, shell_vars, flag_vars, why>>

Permit(n, K) == Cardinality({k \in K : st[k] = "run"}) < Limit[n]
Failing(K) == \E k \in K : st[k] = "done" /\ bad[k]
Joined(K) == \A k \in K : st[k] \in {"off", "done"}

-----------------------------------------------------------------------------
\* run_scenario_body

\* The walk has halted: neither daemons nor foreground are run.
BodyStopped(n) ==
    /\ Running(n, "body", "enter") /\ walk_stop
    /\ Return(n, FALSE)
    /\ UNCHANGED <<at, pos, runs, reached, noted, shell_vars, flag_vars, why>>

BodyEnter(n) ==
    /\ Running(n, "body", "enter") /\ ~walk_stop
    /\ Start(n, Children[n] \cap Daemons, "dispatch", 1, 0)
    /\ UNCHANGED <<reached, noted, shell_vars, flag_vars, why>>

\* Positions of the foreground children that are left to dispatch.
Left(n) == {i \in 1..Len(Kids[n]) : i >= pos[n] /\ Kids[n][i] \notin Daemons}

\* A permit is free and a foreground child is left.
MayDispatch(n) ==
    /\ Running(n, "body", "dispatch")
    /\ Left(n) # {} /\ Permit(n, Children[n] \ Daemons)

\* Mutant: only the joined siblings are looked at.
MutDispatchHalted(n) == Failing(Children[n] \ Daemons)

\* fold_child and should_stop, before the next child is spawned.
DispatchHalted(n) == Failing(Children[n] \ Daemons) \/ walk_stop

Dispatch(n) ==
    /\ MayDispatch(n) /\ ~DispatchHalted(n)
    /\ \E i \in Left(n) :
          /\ \A j \in Left(n) : i <= j
          /\ Start(n, {Kids[n][i]}, "dispatch", i + 1, 0)
    /\ UNCHANGED <<reached, noted, shell_vars, flag_vars, why>>

HaltDispatch(n) ==
    /\ MayDispatch(n) /\ DispatchHalted(n)
    /\ Goto(n, "drain")
    /\ UNCHANGED <<reached, noted, shell_vars, flag_vars, why>>

\* The foreground is drained; daemon_stop is raised.
ForegroundDone(n) ==
    /\ \/ Running(n, "body", "drain")
       \/ Running(n, "body", "dispatch") /\ Left(n) = {}
    /\ Joined(Children[n] \ Daemons)
    /\ Goto(n, "daemons")
    /\ UNCHANGED <<reached, noted, shell_vars, flag_vars, why>>

\* Mutant: the daemons of a body that failed are not told to stop.
Mut_daemon_stop(n) == at[Parent[n]] = "daemons" /\ ~Failing(Children[Parent[n]] \ Daemons)

daemon_stop(n) == at[Parent[n]] = "daemons"

\* Mutant: the body does not wait for its daemons.
MutBodyReturns(n) ==
    /\ Running(n, "body", "daemons")
    /\ Return(n, Failing(Children[n]))
    /\ UNCHANGED <<at, pos, runs, reached, noted, shell_vars, flag_vars, why>>

\* fold_aggregate
BodyReturns(n) ==
    /\ Running(n, "body", "daemons") /\ Joined(Children[n])
    /\ Return(n, Failing(Children[n]))
    /\ UNCHANGED <<at, pos, runs, reached, noted, shell_vars, flag_vars, why>>

-----------------------------------------------------------------------------
\* dispatch_comprehension

\* Mutant: the last step is left out.
MutMoreSteps(n) == pos[n] < Len(Kids[n])

MoreSteps(n) == pos[n] <= Len(Kids[n])

GateHolds(n) ==
    /\ n \in Gated /\ Running(n, "sweep", "enter") /\ MoreSteps(n)
    /\ Goto(n, "permit")
    /\ UNCHANGED <<reached, noted, shell_vars, flag_vars, why>>

GateHalts(n) ==
    /\ n \in Gated /\ Running(n, "sweep", "enter") /\ MoreSteps(n)
    /\ graceful_stop' = TRUE
    /\ walk_stop' = (walk_stop \/ n \in GatedWorkload)
    /\ Goto(n, "drain")
    /\ UNCHANGED <<reached, noted, children_failed, children_done, session_stop, fault_stop, why>>

\* The gate cannot be evaluated: the sweep returns over its running children.
GateFails(n) ==
    /\ n \in Gated /\ Running(n, "sweep", "enter") /\ MoreSteps(n)
    /\ Return(n, TRUE)
    /\ why' = why \cup {"unrecorded"}
    /\ UNCHANGED <<at, pos, runs, reached, noted, shell_vars, flag_vars>>

SweepDispatch(n) ==
    /\ Running(n, "sweep", IF n \in Gated THEN "permit" ELSE "enter")
    /\ MoreSteps(n) /\ Permit(n, Children[n])
    /\ ~walk_stop
    /\ Start(n, {Kids[n][pos[n]]}, "enter", pos[n] + 1, 0)
    /\ UNCHANGED <<reached, noted, shell_vars, flag_vars, why>>

SweepHalted(n) ==
    /\ Running(n, "sweep", IF n \in Gated THEN "permit" ELSE "enter")
    /\ MoreSteps(n) /\ Permit(n, Children[n])
    /\ walk_stop
    /\ Goto(n, "drain")
    /\ UNCHANGED <<reached, noted, shell_vars, flag_vars, why>>

\* Mutant: a sweep its gate halted is a clean early stop.
MutSweepReturns(n) ==
    /\ Running(n, "sweep", "drain") \/ (Running(n, "sweep", "enter") /\ ~MoreSteps(n))
    /\ Joined(Children[n])
    /\ Return(n, at[n] = "enter" /\ Failing(Children[n]))
    /\ UNCHANGED <<at, pos, runs, reached, noted, shell_vars, flag_vars, why>>

SweepReturns(n) ==
    /\ Running(n, "sweep", "drain") \/ (Running(n, "sweep", "enter") /\ ~MoreSteps(n))
    /\ Joined(Children[n])
    /\ Return(n, Failing(Children[n]))
    /\ UNCHANGED <<at, pos, runs, reached, noted, shell_vars, flag_vars, why>>

-----------------------------------------------------------------------------
\* run_do_loop: neither the stop of the walk nor that of the session is read.

LoopPass(n) ==
    /\ Running(n, "loop", "enter") /\ runs[n] < MaxRuns
    /\ Start(n, Children[n], "pass", 1, runs[n] + 1)
    /\ UNCHANGED <<reached, noted, shell_vars, flag_vars, why>>

LoopEnds(n) ==
    /\ Running(n, "loop", "enter")
    /\ Return(n, FALSE)
    /\ UNCHANGED <<at, pos, runs, reached, noted, shell_vars, flag_vars, why>>

\* The condition cannot be evaluated.
LoopFails(n) ==
    /\ Running(n, "loop", "enter")
    /\ Return(n, TRUE)
    /\ why' = why \cup {"unrecorded"}
    /\ UNCHANGED <<at, pos, runs, reached, noted, shell_vars, flag_vars>>

LoopBack(n) ==
    /\ Running(n, "loop", "pass") /\ st[Kids[n][1]] = "returned" /\ ~bad[Kids[n][1]]
    /\ Goto(n, "enter")
    /\ UNCHANGED <<reached, noted, shell_vars, flag_vars, why>>

LoopBroken(n) ==
    /\ Running(n, "loop", "pass") /\ st[Kids[n][1]] = "returned" /\ bad[Kids[n][1]]
    /\ Return(n, TRUE)
    /\ UNCHANGED <<at, pos, runs, reached, noted, shell_vars, flag_vars, why>>

-----------------------------------------------------------------------------
\* run_phase, under run_phase_layered

\* What the interval layer does with an outcome that is no failure.
Again(n) == n \in Repeated /\ runs[n] + 1 < MaxRuns

Succeed(n) ==
    \/ Again(n) /\ Goto(n, "dwell")
    \/ ~Again(n) /\ Return(n, FALSE) /\ UNCHANGED <<at, pos, runs>>

\* A prior session completed the phase, and the resume plan skips it.
PhaseSkips(n) ==
    /\ n \in Skippable /\ Running(n, "phase", "enter")
    /\ reached' = reached \cup {n}
    /\ Succeed(n)
    /\ UNCHANGED <<noted, shell_vars, flag_vars, why>>

\* The phase fails before it starts, and is recorded unless its scene node
\* has the outcome of an earlier run.
EarlyFails(n) ==
    /\ Running(n, "phase", "enter") /\ n \notin noted
    /\ reached' = reached \cup {n} /\ noted' = noted \cup {n}
    /\ children_failed' = children_failed + 1
    /\ why' = why \cup {"recorded"}
    /\ Goto(n, "failed")
    /\ UNCHANGED <<children_done, walk_stop, flag_vars>>

EarlyFailsAgain(n) ==
    /\ Running(n, "phase", "enter") /\ n \in noted
    /\ why' = why \cup {"unrecorded"}
    /\ Return(n, TRUE)
    /\ UNCHANGED <<at, pos, runs, reached, noted, shell_vars, flag_vars>>

\* Mutant: the observer is not told of the start.
MutPhaseStarts(n) ==
    /\ Running(n, "phase", "enter")
    /\ Goto(n, "running")
    /\ UNCHANGED <<reached, noted, shell_vars, flag_vars, why>>

PhaseStarts(n) ==
    /\ Running(n, "phase", "enter")
    /\ reached' = reached \cup {n}
    /\ Goto(n, "running")
    /\ UNCHANGED <<noted, shell_vars, flag_vars, why>>

\* A stop condition of the phase trips, with either effect, and acts on the
\* phase, on the walk, or on the walk and the session.
ConditionTrips(n) ==
    /\ n \in Conditioned /\ Running(n, "phase", "running")
    /\ \E effect \in {"stopping", "failing"} : Goto(n, effect)
    /\ walk_stop' = (walk_stop \/ StopScope # "phase")
    /\ session_stop' = (session_stop \/ StopScope = "workload")
    /\ UNCHANGED <<reached, noted, children_failed, children_done, graceful_stop, fault_stop, why>>

\* StopView::abnormal, read when the activity ends; a graceful trip of the
\* phase's own outranks it.
Abnormal(n) == at[n] = "failing" \/ (at[n] = "running" /\ (walk_stop \/ session_stop))

\* The activity ends well; the outcome is installed and counted.
PhaseCompletes(n) ==
    /\ \E s \in {"running", "stopping"} : Running(n, "phase", s)
    /\ ~Abnormal(n)
    /\ noted' = noted \cup {n}
    /\ children_done' = children_done + 1
    /\ Goto(n, "completed")
    /\ UNCHANGED <<reached, children_failed, walk_stop, flag_vars, why>>

\* The activity ends by an error of its own or by a stop.
PhaseFails(n) ==
    /\ \E s \in {"running", "failing"} : Running(n, "phase", s)
    /\ noted' = noted \cup {n}
    /\ children_failed' = children_failed + 1
    /\ why' = why \cup {"recorded"}
    /\ Goto(n, "failed")
    /\ UNCHANGED <<reached, children_done, walk_stop, flag_vars>>

\* Mutant: only the declared condition is installed.
MutTrip == IF ~walk_stop /\ children_done >= StopAfter THEN StopEffect ELSE "none"

\* WorkloadShell::evaluate, under its lock: the first condition that holds
\* trips, unless the walk has stopped already.
Trip ==
    IF walk_stop THEN "none"
    ELSE IF children_failed > 0 THEN "fail"
    ELSE IF children_done >= StopAfter THEN StopEffect
    ELSE "none"

FailureEvaluated(n) ==
    /\ Running(n, "phase", "failed")
    /\ walk_stop' = (walk_stop \/ Trip # "none")
    /\ fault_stop' = (fault_stop \/ Trip = "fail")
    /\ graceful_stop' = (graceful_stop \/ Trip = "stop")
    /\ Return(n, TRUE)
    /\ UNCHANGED <<at, pos, runs, reached, noted, children_failed, children_done, session_stop, why>>

\* The phase completed, but a condition with the effect fail holds of the
\* workload: the phase returns the failure.
CompletionFails(n) ==
    /\ Running(n, "phase", "completed") /\ Trip = "fail"
    /\ walk_stop' = TRUE
    /\ why' = why \cup {"recorded"}
    /\ Return(n, TRUE)
    /\ UNCHANGED <<at, pos, runs, reached, noted, children_failed, children_done, flag_vars>>

CompletionEvaluated(n) ==
    /\ Running(n, "phase", "completed") /\ Trip # "fail"
    /\ walk_stop' = (walk_stop \/ Trip = "stop")
    /\ graceful_stop' = (graceful_stop \/ Trip = "stop")
    /\ Succeed(n)
    /\ UNCHANGED <<reached, noted, children_failed, children_done, session_stop, fault_stop, why>>

\* The dwell between two runs sees only the stop of the session.
RunAgain(n) ==
    /\ Running(n, "phase", "dwell") /\ ~session_stop
    /\ at' = [at EXCEPT ![n] = "enter"]
    /\ runs' = [runs EXCEPT ![n] = @ + 1]
    /\ UNCHANGED <<st, pos, bad, reached, noted, shell_vars, flag_vars, why>>

DwellCut(n) ==
    /\ Running(n, "phase", "dwell") /\ session_stop
    /\ Return(n, FALSE)
    /\ UNCHANGED <<at, pos, runs, reached, noted, shell_vars, flag_vars, why>>

\* The task panics: unwinding drops its permit before the panic can be joined,
\* as a failure, and nothing is recorded.
Panics(n) ==
    /\ Running(n, "phase", "running")
    /\ Return(n, TRUE)
    /\ why' = why \cup {"unrecorded"}
    /\ UNCHANGED <<at, pos, runs, reached, noted, shell_vars, flag_vars>>

-----------------------------------------------------------------------------
Over == st[Root] = "returned"

\* Ctrl-C
SessionStop ==
    /\ ~Over /\ ~session_stop
    /\ session_stop' = TRUE
    /\ UNCHANGED <<task_vars, reached, noted, shell_vars, graceful_stop, fault_stop, why>>

Ended == Over /\ UNCHANGED vars

\* execute_tree's result, then unreached_phase_exit_code.
exit ==
    IF bad[Root] THEN 1
    ELSE IF reached = Phases THEN 0
    ELSE IF session_stop THEN 130
    ELSE IF graceful_stop \/ fault_stop THEN 0
    ELSE 2

BodyStep(n) ==
    BodyStopped(n) \/ BodyEnter(n) \/ Dispatch(n) \/ HaltDispatch(n) \/ ForegroundDone(n) \/ BodyReturns(n)

SweepStep(n) ==
    \/ GateHolds(n) \/ GateHalts(n) \/ GateFails(n)
    \/ SweepDispatch(n) \/ SweepHalted(n) \/ SweepReturns(n)

LoopStep(n) ==
    LoopPass(n) \/ LoopEnds(n) \/ LoopFails(n) \/ LoopBack(n) \/ LoopBroken(n)

PhaseBegins(n) == PhaseSkips(n) \/ EarlyFails(n) \/ EarlyFailsAgain(n) \/ PhaseStarts(n)

PhaseEnds(n) == PhaseCompletes(n) \/ PhaseFails(n) \/ Panics(n)

PhaseReturns(n) ==
    \/ FailureEvaluated(n) \/ CompletionFails(n) \/ CompletionEvaluated(n)
    \/ RunAgain(n) \/ DwellCut(n)

Next ==
    \/ \E n \in Nodes :
          \/ BodyStep(n) \/ SweepStep(n) \/ LoopStep(n)
          \/ PhaseBegins(n) \/ ConditionTrips(n) \/ PhaseEnds(n) \/ PhaseReturns(n)
          \/ Joinable(n) \/ Dropped(n)
    \/ SessionStop \/ Ended

\* The runtime gets on with its tasks, and an activity ends (see Activity); the
\* activity of a daemon need not before it is told to stop.
Progress(n) ==
    \/ BodyStep(n) \/ SweepStep(n) \/ LoopStep(n) \/ PhaseBegins(n) \/ PhaseReturns(n)
    \/ Joinable(n) \/ Dropped(n)
    \/ PhaseEnds(n) /\ (n \in Daemons => daemon_stop(n) \/ walk_stop \/ session_stop)

Spec == Init /\ [][Next]_vars /\ WF_vars(\E n \in Nodes : Progress(n))

-----------------------------------------------------------------------------
\* Every variable has its type.
TypeOK ==
    /\ st \in [Nodes -> {"off", "run", "returned", "done", "dropped"}]
    /\ at \in [Nodes -> {"enter", "dispatch", "drain", "daemons", "permit", "pass", "running",
                         "stopping", "failing", "completed", "failed", "dwell"}]
    /\ pos \in [Nodes -> Nat \ {0}] /\ runs \in [Nodes -> 0..MaxRuns] /\ bad \in [Nodes -> BOOLEAN]
    /\ reached \subseteq Phases /\ noted \subseteq reached
    /\ children_failed \in Nat /\ children_done \in Nat
    /\ {walk_stop, session_stop, graceful_stop, fault_stop} \subseteq BOOLEAN
    /\ why \subseteq {"recorded", "unrecorded"}

\* No failure is lost and none is made up on its way to the root: through
\* permits freed before results, sweeps that drain, gates that halt, loops and
\* daemons folded last, the run fails exactly if some unit of it failed.
FailureSurfaces == Over => (bad[Root] <=> why # {})

\* "an erroring sibling halts dispatch of subsequent siblings": where children
\* run one at a time, none is started after one that failed, unless a unit
\* failed that no shell has recorded.
SerialCascade ==
    \A n \in Nodes : Kind[n] = "body" /\ Limit[n] = 1 /\ "unrecorded" \notin why =>
        \A i, j \in 1..Len(Kids[n]) :
            i < j /\ {Kids[n][i], Kids[n][j]} \cap Daemons = {} /\ st[Kids[n][j]] # "off"
                => ~bad[Kids[n][i]]

\* "any child phase whose outcome is Failed halts the remaining walk": once
\* every phase that counted a failure has returned, the walk has stopped,
\* whichever phase's evaluation found the failure.
FailureHalts ==
    children_failed > 0 /\ (\A n \in Phases : st[n] = "run" => at[n] \notin {"failed", "completed"})
        => walk_stop

\* The ancestors of n: what every set that holds n's parent, and with a node its
\* parent, holds.
HoldsParents(S) == \A m \in S \ {Root} : Parent[m] \in S
Above == [n \in Nodes |->
    {a \in Nodes : \A S \in SUBSET Nodes :
                       HoldsParents(S) /\ (n # Root => Parent[n] \in S) => a \in S}]

\* Without a stop and without a failure the walk leaves out only what it was
\* asked to: what comes after a gate that no longer held, and the body of a
\* loop whose condition did not hold at first.
NothingStranded ==
    Over /\ ~walk_stop /\ why = {} =>
        \A p \in Phases \ reached : \E a \in Above[p] :
            \/ Kind[a] = "sweep" /\ at[a] = "drain"
            \/ Kind[a] = "loop" /\ runs[a] = 0

\* The one task that returns over its children: a sweep whose gate failed.
GaveUp(n) == Kind[n] = "sweep" /\ at[n] = "enter" /\ MoreSteps(n)

\* No task outlives its parent: what returned has joined its children, daemons
\* too, also after panics and other failures; only a sweep whose gate could not
\* be evaluated leaves its own children behind, to be dropped.
TasksAreNested ==
    \A n \in Nodes :
        st[n] \in {"returned", "done"} /\ ~GaveUp(n) =>
            \A k \in Children[n] :
                st[k] \in {"off", "done"} \/ (Kind[n] = "loop" /\ st[k] = "returned")

\* The walk ends: no permit is waited for in vain, no daemon is left unstopped,
\* and a stop gets through to every node.
Terminates == <>Over

\* "Treat it like Ctrl-C: no warning, clean exit": a run in which nothing
\* failed and that nobody interrupted exits with 0.
StoppedIsClean == Over /\ why = {} /\ ~session_stop => exit = 0
=============================================================================
