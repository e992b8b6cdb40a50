----------------------------- MODULE FiberPool -----------------------------
(***************************************************************************)
(* The fiber pool of a phase behind its concurrency control: what the      *)
(* phase's start does with both, and how a write of the control turns into *)
(* a resize.  The control serialises its writers; the pool has a mutex of  *)
(* its own, which resize takes once to count the fibers and again for each *)
(* one it starts, or to flag the surplus.  The phase's wait loop reaps     *)
(* fibers in between, and the start of the phase is not ordered with the   *)
(* governor's opening write, which runs in a task of its own.              *)
(*                                                                         *)
(* Source: nmbrs-runtime/src/fiber_pool.rs, the start of run_with_adapters *)
(* in activity.rs, the opening write of throttle.rs.  What a fiber runs is *)
(* module Activity, the fan-out of a write module DynamicControl.          *)
(***************************************************************************)
EXTENDS Integers, Sequences, FiniteSets

CONSTANTS
    Operators,      \* writers of the control at run time
    Governor,       \* the task of the governor's opening write
    Concurrency,    \* the phase's authored concurrency
    Opening,        \* the governor's opening offer; the authored one without a governor
    Targets,        \* the values operators write
    None,           \* no writer
    MaxFibers       \* bound: entries of the pool

Writers == Operators \cup {Governor}

ASSUME PoolAssumption ==
    /\ Governor \notin Operators /\ None \notin Writers
    /\ Concurrency \in Nat \ {0}
    /\ Opening \in 1..Concurrency
    /\ Targets \subseteq Nat \ {0}
    /\ MaxFibers \in Nat

VARIABLES
    fibers,         \* the pool's vector, oldest first: [flag, done]
    startup,        \* where run_with_adapters is
    seeding,        \* fibers spawn_initial still has to start
    registered,     \* the pool's applier is registered on the control
    committed,      \* the control's value
    lock,           \* the holder of the control's write_lock
    pc, target,     \* per writer: where its write is, and its value
    active,         \* per writer: the count its resize started from, then what is left to do
    lost,           \* a fiber ended without having been flagged
    late,           \* the write in progress began after the start of the phase
    settled         \* ... and one that did has been committed

vars == <<fibers, startup, seeding, registered, committed, lock, pc, target, active, lost,
          late, settled>>
control == <<committed, lock, pc, target, active, late, settled>>

Fiber == [flag : BOOLEAN, done : BOOLEAN]
New == [flag |-> FALSE, done |-> FALSE]

\* Positions of the fibers the pool counts as active: those not flagged, be
\* they finished or not.
Unflagged == {i \in DOMAIN fibers : ~fibers[i].flag}
active_count == Cardinality(Unflagged)

Init ==
    /\ fibers = <<>>
    /\ startup = "attached" /\ seeding = 0
    /\ registered = FALSE
    /\ committed = Concurrency
    /\ lock = None
    /\ pc = [w \in Writers |-> "idle"]
    /\ target = [w \in Writers |-> Concurrency]
    /\ active = [w \in Writers |-> 0]
    /\ lost = FALSE /\ late = FALSE /\ settled = FALSE

\* The phase starts: the applier is registered ...
RegisterApplier ==
    /\ startup = "attached"
    /\ registered' = TRUE
    /\ startup' = "registered"
    /\ UNCHANGED <<fibers, seeding, control, lost>>

\* ... the governor is built, and spawns the write of its opening offer ...
BuildGovernor ==
    /\ startup = "registered"
    /\ startup' = "seeding" /\ seeding' = Opening
    /\ IF Opening < Concurrency
       THEN /\ pc' = [pc EXCEPT ![Governor] = "waiting"]
            /\ target' = [target EXCEPT ![Governor] = Opening]
       ELSE UNCHANGED <<pc, target>>
    /\ UNCHANGED <<fibers, registered, committed, lock, active, lost, late, settled>>

\* ... and spawn_initial starts the opening fibers, one at a time.
SpawnInitial ==
    /\ startup = "seeding"
    /\ IF seeding = 0
       THEN startup' = "running" /\ UNCHANGED <<fibers, seeding>>
       ELSE /\ Len(fibers) < MaxFibers
            /\ fibers' = Append(fibers, New) /\ seeding' = seeding - 1
            /\ UNCHANGED startup
    /\ UNCHANGED <<registered, control, lost>>

\* An operator calls set.
CallSet(w) ==
    /\ pc[w] = "idle"
    /\ \E v \in Targets : target' = [target EXCEPT ![w] = v]
    /\ pc' = [pc EXCEPT ![w] = "waiting"]
    /\ UNCHANGED <<fibers, startup, seeding, registered, committed, lock, active, lost, late, settled>>

\* (NoLock lets two writes overlap.)
NoLock == TRUE
Unlocked == lock = None

\* The write is admitted; without an applier there is nothing to fan out to.
Admit(w) ==
    /\ pc[w] = "waiting" /\ Unlocked
    /\ lock' = w
    /\ pc' = [pc EXCEPT ![w] = IF registered THEN "count" ELSE "commit"]
    /\ late' = (startup = "running")
    /\ UNCHANGED <<fibers, startup, seeding, registered, committed, target, active, lost, settled>>

\* resize counts the active fibers and compares ...
CountActive(w) ==
    /\ pc[w] = "count"
    /\ active' = [active EXCEPT ![w] = active_count]
    /\ pc' = [pc EXCEPT ![w] = CASE target[w] = active_count -> "commit"
                                 [] target[w] > active_count -> "grow"
                                 [] OTHER -> "shrink"]
    /\ UNCHANGED <<fibers, startup, seeding, registered, committed, lock, target, lost, late, settled>>

\* The fiber just started is the last one missing.  (OneMore starts another.)
OneMore(w) == active[w] = target[w]
Grown(w) == active[w] + 1 = target[w]

\* ... starts what is missing, taking the pool's mutex for each ...
Grow(w) ==
    /\ pc[w] = "grow" /\ Len(fibers) < MaxFibers
    /\ fibers' = Append(fibers, New)
    /\ active' = [active EXCEPT ![w] = @ + 1]
    /\ pc' = [pc EXCEPT ![w] = IF Grown(w) THEN "commit" ELSE "grow"]
    /\ UNCHANGED <<startup, seeding, registered, committed, lock, target, lost, late, settled>>

\* Positions of the n newest fibers not flagged yet.  (Oldest walks from the
\* front.)
Oldest(n) == {i \in Unflagged : Cardinality({j \in Unflagged : j < i}) < n}
Newest(n) == {i \in Unflagged : Cardinality({j \in Unflagged : j > i}) < n}

\* ... or flags the surplus it has counted.
Shrink(w) ==
    /\ pc[w] = "shrink"
    /\ LET surplus == Newest(active[w] - target[w])
       IN  fibers' = [i \in DOMAIN fibers |->
                        IF i \in surplus THEN [fibers[i] EXCEPT !.flag = TRUE] ELSE fibers[i]]
    /\ pc' = [pc EXCEPT ![w] = "commit"]
    /\ UNCHANGED <<startup, seeding, registered, committed, lock, target, active, lost, late, settled>>

\* resize reports the target it was given, so the applier acknowledges and
\* the write commits.
Commit(w) ==
    /\ pc[w] = "commit"
    /\ committed' = target[w]
    /\ lock' = None
    /\ pc' = [pc EXCEPT ![w] = "idle"]
    /\ target' = [target EXCEPT ![w] = Concurrency]
    /\ active' = [active EXCEPT ![w] = 0]
    /\ settled' = (settled \/ late)
    /\ late' = FALSE
    /\ UNCHANGED <<fibers, startup, seeding, registered, lost>>

\* A flagged fiber ends at its next stanza; any other when the source is
\* exhausted or it panics.
FiberEnds(i) ==
    /\ ~fibers[i].done
    /\ fibers' = [fibers EXCEPT ![i].done = TRUE]
    /\ lost' = (lost \/ ~fibers[i].flag)
    /\ UNCHANGED <<startup, seeding, registered, control>>

\* Positions of the fibers that have not ended.
Remaining == {i \in DOMAIN fibers : ~fibers[i].done}

\* The wait loop drops the fibers that have ended and keeps the others in their
\* order: position k of the vector is taken by the fiber from position from[k].
ReapFinished ==
    /\ startup = "running"
    /\ Remaining # DOMAIN fibers
    /\ \E from \in [1..Cardinality(Remaining) -> Remaining] :
          /\ \A j, k \in DOMAIN from : j < k => from[j] < from[k]
          /\ fibers' = [k \in DOMAIN from |-> fibers[from[k]]]
    /\ UNCHANGED <<startup, seeding, registered, control, lost>>

WriteStep(w) == Admit(w) \/ CountActive(w) \/ Grow(w) \/ Shrink(w) \/ Commit(w)

Next ==
    \/ RegisterApplier \/ BuildGovernor \/ SpawnInitial
    \/ \E w \in Operators : CallSet(w)
    \/ \E w \in Writers : WriteStep(w)
    \/ \E i \in DOMAIN fibers : FiberEnds(i)
    \/ ReapFinished

Spec == Init /\ [][Next]_vars
-----------------------------------------------------------------------------
\* The state stays within its types, and a resize never starts more fibers
\* than its target asks for.
TypeOK ==
    /\ fibers \in Seq(Fiber)
    /\ startup \in {"attached", "registered", "seeding", "running"}
    /\ seeding \in 0..Opening
    /\ registered \in BOOLEAN
    /\ committed \in Nat \ {0}
    /\ lock \in Writers \cup {None}
    /\ pc \in [Writers -> {"idle", "waiting", "count", "grow", "shrink", "commit"}]
    /\ target \in [Writers -> Nat \ {0}]
    /\ active \in [Writers -> Nat]
    /\ \A w \in Writers : pc[w] = "grow" => active[w] < target[w]
    /\ {lost, late, settled} \subseteq BOOLEAN

\* The pool is "sized by the phase's concurrency control" (SRD 23): once a
\* write has run its whole course on the started phase, and as long as only
\* flagged fibers end, the active fibers between writes are as many as the
\* committed value, in spite of the start's races, of reaping between a
\* resize's count and its change, and of any order of operators' writes.
\* However fibers are lost, there are never more.
PoolFollowsWrites ==
    settled /\ lock = None =>
        active_count <= committed /\ (~lost => active_count = committed)

\* Scale-down takes the newest fibers, and no target is below one: the oldest
\* fiber of the pool is never told to leave, even by a resize that raced
\* the phase's start.
OldestStays == ~lost /\ fibers # <<>> => ~fibers[1].flag
=============================================================================
